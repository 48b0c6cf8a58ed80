------------------------------ MODULE C4Model ------------------------------
(***************************************************************************)
(* The C4 model of the estate that a complete sweep derives (c4.go):       *)
(* generateAndCommitC4 reads configy, loganne's webhooks and producers and *)
(* every system's /_info, turns what disagrees into issues                 *)
(* (routeC4DivergencesToIssues), and commits three artifacts to a          *)
(* repository of their own.                                                *)
(*                                                                         *)
(* The sources change between the reads, reads of some of them may fail    *)
(* without stopping the run, and so may every call to GitHub.  The order   *)
(* of systems, divergences and artifacts within a step is left open.       *)
(***************************************************************************)
EXTENDS Naturals, FiniteSets

CONSTANTS
    Systems,        \* ids that configy may list as systems
    Names,          \* ids that it may list as anything, the systems included
    Loganne,        \* lucos_loganne
    Public,         \* the systems that have a domain
    DependsOn,      \* DependsOn[s]: what the checks of s's /_info depend on
    WriteAuth,      \* are there credentials of the architecture writer?
    Absent, Edited, \* no file, and a file as a person left it
    MaxEvents,      \* bound on what people change
    MaxFaults       \* bound on calls that fail and crashes

ASSUME ConstantsAssumption ==
    /\ Loganne \in Systems /\ Public \subseteq Systems /\ Systems \subseteq Names
    /\ DependsOn \in [Systems -> SUBSET Names]
    /\ WriteAuth \in BOOLEAN
    /\ MaxEvents \in Nat /\ MaxFaults \in Nat

VARIABLES
    \* The sources.
    configy,        \* the systems configy lists
    others,         \* its components, and its scripts
    misnamed,       \* the systems whose /_info reports another name
    hooks,          \* the systems whose domains loganne's webhooks point at
    broken,         \* loganne's webhooks-config.json does not parse
    producers,      \* the producers of events loganne has observed
    \* GitHub.
    issues,         \* the divergences with an open issue
    out,            \* the artifacts in the output repository
    \* The run.
    pc,             \* its next step
    model,          \* the model, as far as it has been read
    valid,          \* producerValidSources
    todo,           \* systems left to probe, repositories to reconcile, or
                    \* artifacts to write
    repo,           \* the repository being reconciled
    batch,          \* its divergences left to ensure, or its issues to close
    file,           \* the artifact being written, and what it was read as
    writeErr,       \* has an artifact not been written?
    outcome,        \* what this run reported to the schedule tracker
    \* History and bounds.
    changed,        \* somebody changed something since this run began
    blind,          \* a read that does not stop the run failed in it
    events, faults

sources == <<configy, others, misnamed, hooks, broken, producers>>
reading == <<model, valid>>
routing == <<repo, batch>>
writing == <<file, writeErr>>
history == <<changed, blind, events, faults>>
vars == <<sources, issues, out, pc, reading, todo, routing, writing, outcome, history>>

-----------------------------------------------------------------------------
(* Data.                                                                   *)

Artifacts == {"model.dsl", "landscape.md", "divergences.md"}

Lists == {"component", "script"}

\* What may diverge: the name a system reports, a webhook's target, a
\* producer's name, and loganne's configuration as a whole.
Divergences ==
    ({"name", "target"} \X Systems) \cup ({"producer"} \X Names)
        \cup {<<"config", Loganne>>}

\* The repository a divergence is attributed to.
RepoOf(d) == IF d[1] = "name" THEN d[2] ELSE Loganne

\* parseLoganneWebhooks: the consumers found through the domains of the
\* systems, and the targets that none of them has.
AsyncEdges(systems) == IF broken THEN {} ELSE hooks \cap systems \cap Public
WebhookDivergences(systems) ==
    IF broken THEN {<<"config", Loganne>>}
    ELSE {<<"target", t>> : t \in hooks \ (systems \cap Public)}

\* parseLoganneProducers.
ProducerEdges(known) == producers \cap known
ProducerDivergences(known) == {<<"producer", p>> : p \in producers \ known}

\* What the /_info of a system adds: an edge to each dependency, except that
\* loganne's are its consumers, and a divergence if its name is wrong.
SyncEdges(s) == {s} \X (IF s = Loganne THEN {} ELSE DependsOn[s])
NameDivergences(s) == IF s \in misnamed THEN {<<"name", s>>} ELSE {}

\* Mutant: edges to systems that configy does not list are drawn too.
DrawnSync_Mutant(m) == m.sync

\* The sync edges drawn: those to systems.
DrawnSync(m) == {e \in m.sync : e[2] \in m.systems}

\* Systems and producers with an edge: all that landscape.md shows.
Connected(m) ==
    {e[1] : e \in DrawnSync(m)} \cup {e[2] : e \in DrawnSync(m)} \cup m.async \cup m.prod
        \cup IF m.async \cup m.prod = {} THEN {} ELSE {Loganne}

Diagram(nodes, m) ==
    [nodes |-> nodes, sync |-> DrawnSync(m), async |-> m.async, prod |-> m.prod]

\* generateC4DSL (the systems, and an element for every other producer),
\* generateC4Mermaid and generateC4Divergences.
Rendered(m) ==
    [a \in Artifacts |->
        CASE a = "model.dsl" -> Diagram(m.systems \cup m.prod, m)
          [] a = "landscape.md" -> Diagram(Connected(m), m)
          [] OTHER -> [divergences |-> m.divs, unreachable |-> m.unreachable]]

Empty == [systems |-> {}, async |-> {}, prod |-> {}, sync |-> {},
          divs |-> {}, unreachable |-> {}]

\* The model of the estate as it is now, and what diverges in it.
Known == configy \cup others["component"] \cup others["script"]
Observed == IF Loganne \in configy \cap Public THEN producers ELSE {}
Truth ==
    [systems |-> configy,
     async   |-> AsyncEdges(configy),
     prod    |-> Observed \cap Known,
     sync    |-> UNION {SyncEdges(s) : s \in configy \cap Public},
     divs    |-> WebhookDivergences(configy)
                   \cup {<<"producer", p>> : p \in Observed \ Known}
                   \cup UNION {NameDivergences(s) : s \in configy \cap Public},
     unreachable |-> {}]

-----------------------------------------------------------------------------
Init ==
    /\ configy = Systems /\ others = [l \in Lists |-> {}]
    /\ misnamed = {} /\ hooks = {} /\ broken = FALSE /\ producers = {}
    /\ issues = {} /\ out = [a \in Artifacts |-> Absent]
    /\ pc = "idle" /\ model = Empty /\ valid = {} /\ todo = {}
    /\ repo = Loganne /\ batch = {}
    /\ file = <<"model.dsl", Absent>> /\ writeErr = FALSE
    /\ outcome = "none"
    /\ changed = FALSE /\ blind = FALSE /\ events = 0 /\ faults = 0

Toggle(x, S) == IF x \in S THEN S \ {x} ELSE S \cup {x}

(* People: configy is edited, systems are deployed, loganne sees events,    *)
(* issues are closed by hand, artifacts edited.                             *)
Edit ==
    /\ events < MaxEvents
    /\ events' = events + 1
    /\ changed' = TRUE
    /\ UNCHANGED <<pc, reading, todo, routing, writing, outcome, blind, faults>>

ConfigyChanges ==
    /\ Edit
    /\ \/ /\ \E s \in Systems : configy' = Toggle(s, configy)
          /\ UNCHANGED others
       \/ /\ \E l \in Lists, n \in Names : others' = [others EXCEPT ![l] = Toggle(n, @)]
          /\ UNCHANGED configy
    /\ UNCHANGED <<misnamed, hooks, broken, producers, issues, out>>

SystemChanges ==
    /\ Edit
    /\ \/ \E s \in Systems : misnamed' = Toggle(s, misnamed)
                               /\ UNCHANGED <<hooks, broken, producers>>
       \/ \E s \in Systems : hooks' = Toggle(s, hooks)
                               /\ UNCHANGED <<misnamed, broken, producers>>
       \/ broken' = ~broken /\ UNCHANGED <<misnamed, hooks, producers>>
       \/ \E n \in Names : producers' = Toggle(n, producers)
                             /\ UNCHANGED <<misnamed, hooks, broken>>
    /\ UNCHANGED <<configy, others, issues, out>>

GitHubEdited ==
    /\ Edit
    /\ \/ \E d \in issues : issues' = issues \ {d} /\ UNCHANGED out
       \/ \E a \in Artifacts : out' = [out EXCEPT ![a] = Edited] /\ UNCHANGED issues
    /\ UNCHANGED sources

-----------------------------------------------------------------------------
(* The run.  A step goes on to the next one, or ends the run and reports.   *)
Goto(step) == pc' = step /\ UNCHANGED outcome
End(o) == pc' = "idle" /\ outcome' = o
Fault == faults < MaxFaults /\ faults' = faults + 1 /\ UNCHANGED <<changed, blind, events>>

Outside == <<sources, issues, out>>

(* A complete sweep calls generateAndCommitC4, which gets its token.        *)
Start ==
    /\ pc = "idle"
    /\ changed' = FALSE /\ blind' = FALSE /\ outcome' = "none" /\ pc' = "systems"
    /\ model' = Empty /\ valid' = {} /\ todo' = {} /\ writeErr' = FALSE
    /\ UNCHANGED <<Outside, routing, file, events, faults>>

(* No token, no list of systems, or no webhooks-config.json: the run ends.  *)
ReadFails ==
    /\ pc \in {"systems", "webhooks"}
    /\ Fault
    /\ End("error")
    /\ UNCHANGED <<Outside, reading, todo, routing, writing>>

FetchSystems ==
    /\ pc = "systems"
    /\ model' = [model EXCEPT !.systems = configy]
    /\ valid' = configy
    /\ Goto("webhooks")
    /\ UNCHANGED <<Outside, todo, routing, writing, history>>

FetchWebhooks ==
    /\ pc = "webhooks"
    /\ model' = [model EXCEPT !.async = AsyncEdges(model.systems),
                              !.divs = WebhookDivergences(model.systems)]
    /\ Goto("component")
    /\ UNCHANGED <<Outside, valid, todo, routing, writing, history>>

(* Components and then scripts may be producers too; without their list the *)
(* run goes on.                                                             *)
FetchList ==
    /\ pc \in Lists
    /\ Goto(IF pc = "component" THEN "script" ELSE "producers")
    /\ \/ valid' = valid \cup others[pc] /\ UNCHANGED history
       \/ /\ faults < MaxFaults /\ faults' = faults + 1
          /\ blind' = TRUE
          /\ UNCHANGED <<valid, changed, events>>
    /\ UNCHANGED <<Outside, model, todo, routing, writing>>

(* loganne's /producers, if configy gives it a domain; then /_info of every *)
(* system with a domain.                                                    *)
ProbeProducers ==
    /\ pc = "producers"
    /\ Goto("probe")
    /\ todo' = model.systems \cap Public
    /\ \/ /\ Loganne \in model.systems \cap Public
          /\ model' = [model EXCEPT !.prod = ProducerEdges(valid),
                                    !.divs = @ \cup ProducerDivergences(valid)]
          /\ UNCHANGED history
       \/ /\ Loganne \notin model.systems \cap Public
          /\ UNCHANGED <<model, history>>
       \/ /\ Loganne \in model.systems \cap Public
          /\ faults < MaxFaults /\ faults' = faults + 1
          /\ blind' = TRUE
          /\ UNCHANGED <<model, changed, events>>
    /\ UNCHANGED <<Outside, valid, routing, writing>>

ProbeInfo(s) ==
    /\ pc = "probe" /\ s \in todo
    /\ todo' = todo \ {s}
    /\ \/ /\ model' = [model EXCEPT !.sync = @ \cup SyncEdges(s),
                                    !.divs = @ \cup NameDivergences(s)]
          /\ UNCHANGED history
       \/ /\ faults < MaxFaults /\ faults' = faults + 1
          /\ blind' = TRUE
          /\ model' = [model EXCEPT !.unreachable = @ \cup {s}]
          /\ UNCHANGED <<changed, events>>
    /\ UNCHANGED <<Outside, pc, valid, routing, writing, outcome>>

\* Mutant: only repositories with a divergence in this run are reconciled.
Reconcile_Mutant ==
    /\ pc = "probe" /\ todo = {}
    /\ todo' = {RepoOf(d) : d \in model.divs}
    /\ Goto("repo")
    /\ UNCHANGED <<Outside, reading, routing, writing, history>>

(* routeC4DivergencesToIssues: every repository a divergence could be       *)
(* attributed to is reconciled.                                             *)
Reconcile ==
    /\ pc = "probe" /\ todo = {}
    /\ todo' = model.systems \cup {Loganne}
    /\ Goto("repo")
    /\ UNCHANGED <<Outside, reading, routing, writing, history>>

-----------------------------------------------------------------------------
(* Reconciliation of one repository after another, in any order, and in     *)
(* every environment.                                                       *)

NextRepo(r) ==
    /\ pc = "repo" /\ r \in todo
    /\ todo' = todo \ {r}
    /\ repo' = r
    /\ batch' = {d \in model.divs : RepoOf(d) = r}
    /\ Goto("ensure")
    /\ UNCHANGED <<Outside, reading, writing, history>>

(* EnsureIssueExists; if it fails, an issue may have been created.          *)
EnsureIssueExists(d) ==
    /\ pc = "ensure" /\ d \in batch
    /\ batch' = batch \ {d}
    /\ \/ issues' = issues \cup {d} /\ UNCHANGED history
       \/ issues' \in {issues, issues \cup {d}} /\ Fault
    /\ UNCHANGED <<sources, out, pc, reading, todo, repo, writing, outcome>>

\* Mutant: a list that fails reads as one that is empty, and so does every
\* divergence that was ensured.
ListOpen_Mutant ==
    /\ pc = "ensure" /\ batch = {}
    /\ batch' = {d \in issues : RepoOf(d) = repo}
    /\ Goto("close")
    /\ UNCHANGED <<Outside, reading, todo, repo, writing, history>>

(* The open issues of divergences that were not found again; if the list    *)
(* cannot be had, the next repository is next.                              *)
ListOpen ==
    /\ pc = "ensure" /\ batch = {}
    /\ \/ /\ batch' = {d \in issues : RepoOf(d) = repo} \ model.divs
          /\ Goto("close")
          /\ UNCHANGED history
       \/ Fault /\ Goto("repo") /\ UNCHANGED batch
    /\ UNCHANGED <<Outside, reading, todo, repo, writing>>

(* CloseIssueIfOpen; if it fails, the issue may have been closed.           *)
CloseIssueIfOpen(d) ==
    /\ pc = "close" /\ d \in batch
    /\ batch' = batch \ {d}
    /\ \/ issues' = issues \ {d} /\ UNCHANGED history
       \/ issues' \in {issues, issues \ {d}} /\ Fault
    /\ UNCHANGED <<sources, out, pc, reading, todo, repo, writing, outcome>>

RepoDone ==
    /\ pc = "close" /\ batch = {}
    /\ Goto("repo")
    /\ UNCHANGED <<Outside, reading, todo, routing, writing, history>>

-----------------------------------------------------------------------------
(* The artifacts are rendered; writing them needs a token of the writer,    *)
(* whose absence is an error.                                               *)
Authorise ==
    /\ pc = "repo" /\ todo = {}
    /\ \/ WriteAuth /\ Goto("fetch") /\ todo' = Artifacts /\ UNCHANGED history
       \/ WriteAuth /\ Fault /\ End("error") /\ UNCHANGED todo
       \/ ~WriteAuth /\ End("error") /\ UNCHANGED <<todo, history>>
    /\ UNCHANGED <<Outside, reading, routing, writing>>

\* Mutant: content is not compared.
FetchFile_Mutant(a) ==
    /\ pc = "fetch" /\ a \in todo
    /\ todo' = todo \ {a}
    /\ file' = <<a, out[a]>> /\ Goto("put") /\ UNCHANGED <<writeErr, history>>
    /\ UNCHANGED <<Outside, reading, routing>>

(* An artifact is fetched, and skipped if it is as it should be.            *)
FetchFile(a) ==
    /\ pc = "fetch" /\ a \in todo
    /\ todo' = todo \ {a}
    /\ \/ /\ out[a] = Rendered(model)[a]
          /\ UNCHANGED <<pc, outcome, writing, history>>
       \/ /\ out[a] # Rendered(model)[a]
          /\ file' = <<a, out[a]>>
          /\ Goto("put")
          /\ UNCHANGED <<writeErr, history>>
       \/ Fault /\ writeErr' = TRUE /\ UNCHANGED <<pc, outcome, file>>
    /\ UNCHANGED <<Outside, reading, routing>>

\* Mutant: the file's SHA is not passed on, so no file is ever replaced.
PutFile_NoSha ==
    /\ pc = "put"
    /\ LET a == file[1]
           written == [out EXCEPT ![a] = Rendered(model)[a]]
       IN \/ out[a] = Absent /\ out' = written /\ UNCHANGED <<writeErr, history>>
          \/ out[a] # Absent /\ writeErr' = TRUE /\ UNCHANGED <<out, history>>
    /\ Goto("fetch")
    /\ UNCHANGED <<sources, issues, reading, todo, routing, file>>

\* Mutant: the error of a failed write is logged only.
PutFile_Mutant ==
    /\ pc = "put"
    /\ \/ /\ out[file[1]] = file[2]
          /\ out' = [out EXCEPT ![file[1]] = Rendered(model)[file[1]]]
          /\ UNCHANGED history
       \/ out[file[1]] # file[2] /\ UNCHANGED <<out, history>>
       \/ Fault /\ UNCHANGED out
    /\ Goto("fetch")
    /\ UNCHANGED <<sources, issues, reading, todo, routing, writing>>

(* GitHub takes a file only from a writer that has seen the one it replaces *)
(* (the SHA); if the call fails, it may have been taken.                    *)
PutFile ==
    /\ pc = "put"
    /\ LET a == file[1]
           written == [out EXCEPT ![a] = Rendered(model)[a]]
       IN \/ out[a] = file[2] /\ out' = written /\ UNCHANGED <<writeErr, history>>
          \/ out[a] # file[2] /\ writeErr' = TRUE /\ UNCHANGED <<out, history>>
          \/ /\ Fault /\ writeErr' = TRUE
             /\ out' \in {out} \cup {o \in {written} : out[a] = file[2]}
    /\ Goto("fetch")
    /\ UNCHANGED <<sources, issues, reading, todo, routing, file>>

Finish ==
    /\ pc = "fetch" /\ todo = {}
    /\ End(IF writeErr THEN "error" ELSE "success")
    /\ UNCHANGED <<Outside, reading, todo, routing, writing, history>>

(* The process dies; the next sweep starts from nothing.                    *)
Crash ==
    /\ pc # "idle"
    /\ Fault
    /\ End("none")
    /\ UNCHANGED <<Outside, reading, todo, routing, writing>>

-----------------------------------------------------------------------------
Read == FetchSystems \/ FetchWebhooks \/ FetchList \/ ProbeProducers
          \/ \E s \in Systems : ProbeInfo(s)
Route == Reconcile \/ ListOpen \/ RepoDone
          \/ \E r \in Systems : NextRepo(r)
          \/ \E d \in Divergences : EnsureIssueExists(d) \/ CloseIssueIfOpen(d)
Write == Authorise \/ PutFile \/ Finish \/ \E a \in Artifacts : FetchFile(a)
Run == Start \/ ReadFails \/ Read \/ Route \/ Write

Next == Run \/ Crash \/ ConfigyChanges \/ SystemChanges \/ GitHubEdited

Spec == Init /\ [][Next]_vars

(* Complete sweeps come again and again, and their calls return: configy    *)
(* and the probes have timeouts, and so has the client of the artifacts.    *)
FairSpec == Spec /\ WF_vars(Run)

-----------------------------------------------------------------------------
Models == [systems : SUBSET Systems, async : SUBSET Systems, prod : SUBSET Names,
           sync : SUBSET (Systems \X Names), divs : SUBSET Divergences,
           unreachable : SUBSET Systems]
Diagrams == [nodes : SUBSET Names, sync : SUBSET (Systems \X Names),
             async : SUBSET Systems, prod : SUBSET Names]
Reports == [divergences : SUBSET Divergences, unreachable : SUBSET Systems]
Contents == Diagrams \cup Reports \cup {Absent, Edited}

(* The types of the variables; and what is in hand belongs to the           *)
(* repository that is being reconciled.                                     *)
TypeOK ==
    /\ configy \in SUBSET Systems /\ others \in [Lists -> SUBSET Names]
    /\ misnamed \in SUBSET Systems /\ hooks \in SUBSET Systems
    /\ broken \in BOOLEAN /\ producers \in SUBSET Names
    /\ issues \in SUBSET Divergences
    /\ out \in [Artifacts -> Contents]
    /\ pc \in {"idle", "systems", "webhooks", "component", "script", "producers",
              "probe", "repo", "ensure", "close", "fetch", "put"}
    /\ model \in Models /\ valid \in SUBSET Names
    /\ todo \in SUBSET (Systems \cup Artifacts)
    /\ repo \in Systems /\ batch \in SUBSET Divergences
    /\ file \in Artifacts \X Contents
    /\ writeErr \in BOOLEAN /\ outcome \in {"none", "success", "error"}
    /\ changed \in BOOLEAN /\ blind \in BOOLEAN
    /\ events \in 0..MaxEvents /\ faults \in 0..MaxFaults
    /\ pc \in {"ensure", "close"} => \A d \in batch : RepoOf(d) = repo

(* Whatever is committed draws no edge to or from something that it does    *)
(* not declare, however the lists it was read from changed in between;      *)
(* loganne is the exception, when configy does not list it.                 *)
EdgesDeclared ==
    \A a \in {"model.dsl", "landscape.md"} :
        out[a] \in {Absent, Edited} \/
        LET d == out[a] IN
            /\ d.sync \subseteq d.nodes \X d.nodes
            /\ d.async \cup d.prod \subseteq d.nodes

(* A run that reports success leaves all three artifacts showing the estate *)
(* as it is, unless something changed meanwhile or could not be read.       *)
SuccessIsFresh ==
    pc = "idle" /\ outcome = "success" /\ ~changed /\ ~blind => out = Rendered(Truth)

(* The sweep raises issues only for what diverges and closes only those of  *)
(* what does not, unless its sources changed between two of its reads, or   *)
(* one of them failed.                                                      *)
IssuesTrue ==
    [][events' = events /\ ~changed /\ ~blind =>
         /\ issues' \ issues \subseteq Truth.divs
         /\ Truth.divs \cap issues \subseteq issues']_vars

(* The repositories whose divergences are reconciled.                       *)
Reconciled == {d \in issues : RepoOf(d) \in configy \cup {Loganne}}

(* Once nobody changes anything and calls work, the open issues of every    *)
(* system are those of its divergences ...                                  *)
IssuesConverge == <>[](Reconciled = Truth.divs)

(* ... and the artifacts show the estate.                                   *)
ModelConverges == <>[](WriteAuth => out = Rendered(Truth))

(* ... and no more is committed: "Files are only committed if their content *)
(* has changed" (c4.go:532), and their history is a history of the estate.  *)
CommitsCease == <>[](pc # "put")

(* "a currently-detected divergence gets an open issue; a divergence that   *)
(* no longer reproduces gets its issue closed" (c4.go:790), and not one     *)
(* that does reproduce: a check passes "not when data was missing or an API *)
(* call failed" (ADR-0004).                                                 *)
ClosedOnlyWhenGone ==
    [][events' = events /\ ~changed => Truth.divs \cap issues \subseteq issues']_vars
=============================================================================
