---------------------------- MODULE AuditBaseline ----------------------------
(***************************************************************************)
(* The findings table as the baseline that pull requests are measured      *)
(* against: POST /api/audit/{repo} compares a branch with it               *)
(* (newAuditHandler, audit_api.go), and the dry run of the audit, with     *)
(* checks that a pull request changes, is compared with it by audit diff   *)
(* (cmd_audit.go, cmd_audit_diff.go).  Meanwhile sweeps write the table,   *)
(* the repository and its entry in configy change, and calls fail.         *)
(*                                                                         *)
(* One repository: nothing here relates one repository to another.         *)
(***************************************************************************)
EXTENDS Integers, Sequences

CONSTANTS
    Conventions,    \* the registry
    Types,          \* the types configy gives to repositories
    Unconfigured,   \* the type of a repository it does not list
    NoType,         \* the type of a repository without a row in repos
    AppliesTo,      \* the types each convention applies to
    ScheduledOnly,  \* the conventions left out on a pull request's branch
    NeedsHosts,     \* those that compare the repository with its hosts
    MaxChanges,     \* bound: changes of the repository and of configy
    MaxFaults,      \* bound: calls that fail
    MaxSweeps,      \* bound: sweeps
    MaxClients      \* bound: audit requests and dry runs

ASSUME ConstantsAssumption ==
    /\ ScheduledOnly \subseteq Conventions /\ NeedsHosts \subseteq Conventions
    /\ AppliesTo \in [Conventions -> SUBSET (Types \cup {Unconfigured, NoType})]
    /\ {MaxChanges, MaxFaults, MaxSweeps, MaxClients} \subseteq Nat

VARIABLES
    standing,   \* whether the repository is listed and not archived
    type,       \* its type in configy
    main,       \* whether its default branch has complied with each convention, oldest first
    touched,    \* the conventions for which the pull request changes that
    record,     \* its type in the repos table
    rows,       \* its rows in the findings table
    sweep,      \* the sweep of the running process
    request,    \* a request to /api/audit
    dry,        \* a dry run and the diff made of it
    changes, faults, sweeps, clients    \* bounds: how many so far

world  == <<standing, type, main, changes>>
db     == <<record, rows>>
vars   == <<world, touched, db, sweep, request, dry, faults, sweeps, clients>>

(* A verdict on a convention; "of" tells which state of the default branch   *)
(* it is about and is kept for the properties only.                          *)
Verdicts  == [pass : BOOLEAN, of : Nat]
Absent    == [pass |-> FALSE, of |-> -1]
Undecided == [pass |-> FALSE, of |-> -2]    \* "error", and Skipped
Entries   == Verdicts \cup {Absent, Undecided}
Nothing   == [c \in Conventions |-> Absent]

(* The conventions to check for a repository of some type, and the one that  *)
(* is next: the order is always the same, and does not matter here.          *)
Applicable(t) == {c \in Conventions : t \in AppliesTo[c]}
First(todo) == CHOOSE c \in todo : TRUE

(* What a check finds, with what the pull request changes or without it.     *)
(* Unless the hosts are known, what needs them looks wrong.                  *)
Check(c, withPR, hosts) ==
    LET n == Len(main[c])
    IN  [of |-> n, pass |-> /\ main[c][n] # (withPR /\ c \in touched)
                            /\ c \in NeedsHosts => hosts]

Fault == faults < MaxFaults /\ faults' = faults + 1

----------------------------------------------------------------------------
(* GitHub and configy change.                                                *)
Change == changes < MaxChanges /\ changes' = changes + 1

Push(c) ==
    /\ Change
    /\ main' = [main EXCEPT ![c] = Append(@, ~@[Len(@)])]
    /\ UNCHANGED <<standing, type, touched, db, sweep, request, dry, faults, sweeps, clients>>

Reclassify(t) ==
    /\ Change
    /\ t # type /\ type' = t
    /\ UNCHANGED <<standing, main, touched, db, sweep, request, dry, faults, sweeps, clients>>

ToggleArchived ==
    /\ Change
    /\ standing' = ~standing
    /\ UNCHANGED <<type, main, touched, db, sweep, request, dry, faults, sweeps, clients>>

----------------------------------------------------------------------------
(* A sweep, as far as the table is concerned (AuditFindings has the rest).   *)
Resting == [pc |-> "idle", type |-> NoType, todo |-> {}, held |-> Absent,
            saved |-> {}, skipped |-> FALSE]

SweepBegins ==
    /\ sweep.pc = "idle"
    /\ sweeps < MaxSweeps /\ sweeps' = sweeps + 1
    /\ sweep' = IF standing THEN [Resting EXCEPT !.pc = "upsert", !.type = type]
                            ELSE [Resting EXCEPT !.pc = "checks"]
    /\ UNCHANGED <<world, touched, db, request, dry, faults, clients>>

UpsertRepo ==
    /\ sweep.pc = "upsert"
    /\ record' = sweep.type
    /\ sweep' = [sweep EXCEPT !.pc = "checks", !.todo = Applicable(sweep.type)]
    /\ UNCHANGED <<world, touched, rows, request, dry, faults, sweeps, clients>>

SweepChecks ==
    /\ sweep.pc = "checks" /\ sweep.todo # {}
    /\ \/ /\ sweep' = [sweep EXCEPT !.pc = "save", !.held = Check(First(sweep.todo), FALSE, TRUE)]
          /\ UNCHANGED faults
       \/ /\ Fault
          /\ sweep' = [sweep EXCEPT !.todo = @ \ {First(@)}, !.skipped = TRUE]
    /\ UNCHANGED <<world, touched, db, request, dry, sweeps, clients>>

(* Between a check and this, an issue is raised or closed.                   *)
SaveFinding ==
    LET c == First(sweep.todo) IN
    /\ sweep.pc = "save"
    /\ rows' = [rows EXCEPT ![c] = sweep.held]
    /\ sweep' = [sweep EXCEPT !.pc = "checks", !.todo = @ \ {c}, !.held = Absent,
                              !.saved = @ \cup {c}]
    /\ UNCHANGED <<world, touched, record, request, dry, faults, sweeps, clients>>

DeleteStaleFindings ==
    /\ sweep.pc = "checks" /\ sweep.todo = {}
    /\ rows' = IF sweep.skipped THEN rows
               ELSE [c \in Conventions |-> IF c \in sweep.saved THEN rows[c] ELSE Absent]
    /\ sweep' = Resting
    /\ UNCHANGED <<world, touched, record, request, dry, faults, sweeps, clients>>

SweepStep == SweepBegins \/ UpsertRepo \/ SweepChecks \/ SaveFinding \/ DeleteStaleFindings

----------------------------------------------------------------------------
(* The audit handler, after its gate (AuditGate).                            *)
Waiting == [pc |-> "idle", ref |-> FALSE, type |-> NoType, degraded |-> FALSE,
            todo |-> {}, baseline |-> Nothing, details |-> Nothing, actual |-> NoType]

Client == clients < MaxClients /\ clients' = clients + 1

AuditBegins(ref) ==
    /\ request.pc \in {"idle", "answered", "refused"}
    /\ Client
    /\ request' = [Waiting EXCEPT !.pc = "records", !.ref = ref]
    /\ UNCHANGED <<world, touched, db, sweep, dry, faults, sweeps>>

ReadRecords ==
    /\ request.pc = "records"
    /\ request' = [request EXCEPT !.pc = "findings", !.type = record]
    /\ UNCHANGED <<world, touched, db, sweep, dry, faults, sweeps, clients>>

(* A repository without findings is in no report: not found.                 *)
Reported == \E c \in Conventions : rows[c] # Absent

ReadFindings ==
    /\ request.pc = "findings"
    /\ request' = IF Reported THEN [request EXCEPT !.pc = "types", !.baseline = rows]
                              ELSE [request EXCEPT !.pc = "refused"]
    /\ UNCHANGED <<world, touched, db, sweep, dry, faults, sweeps, clients>>

(* The database, or the exchange for a token, fails.                         *)
AuditFails ==
    /\ request.pc \in {"records", "findings", "types"}
    /\ Fault
    /\ request' = [request EXCEPT !.pc = "refused"]
    /\ UNCHANGED <<world, touched, db, sweep, dry, sweeps, clients>>

AuditScope(t, ref) ==
    Applicable(t) \ (IF ref THEN ScheduledOnly ELSE {})

FetchTypes_Mutant ==
    /\ request.pc = "types"
    /\ request' = [request EXCEPT !.pc = "checks", !.actual = type,
                                  !.todo = AuditScope(request.type, request.ref)]
    /\ UNCHANGED <<world, touched, db, sweep, dry, faults, sweeps, clients>>

(* The type of the baseline may be out of date by now ("actual" is what      *)
(* configy says, kept for the properties).                                   *)
FetchTypes ==
    /\ request.pc = "types"
    /\ request' = [request EXCEPT !.pc = "checks", !.type = type, !.actual = type,
                                  !.todo = AuditScope(type, request.ref)]
    /\ UNCHANGED <<world, touched, db, sweep, dry, faults, sweeps, clients>>

(* The type of the baseline has to do, and the hosts stay unknown.           *)
FetchTypesFails ==
    /\ request.pc = "types"
    /\ Fault
    /\ request' = [request EXCEPT !.pc = "checks", !.degraded = TRUE, !.actual = type,
                                  !.todo = AuditScope(request.type, request.ref)]
    /\ UNCHANGED <<world, touched, db, sweep, dry, sweeps, clients>>

AuditChecks ==
    LET c == First(request.todo)
        Detail(v) == [request EXCEPT !.todo = @ \ {c}, !.details[c] = v]
    IN
    /\ request.pc = "checks" /\ request.todo # {}
    /\ \/ request' = Detail(Check(c, request.ref, ~request.degraded)) /\ UNCHANGED faults
       \/ Fault /\ request' = Detail(Undecided)
    /\ UNCHANGED <<world, touched, db, sweep, dry, sweeps, clients>>

Answer ==
    /\ request.pc = "checks" /\ request.todo = {}
    /\ request' = [request EXCEPT !.pc = "answered"]
    /\ UNCHANGED <<world, touched, db, sweep, dry, faults, sweeps, clients>>

Passes(v) == v.of >= 0 /\ v.pass

Fails_Mutant(v) == v # Absent /\ ~v.pass

Fails(v) == v.of >= 0 /\ ~v.pass

(* Passed in the baseline, and fails now.                                    *)
Regressions ==
    {c \in Conventions : Passes(request.baseline[c]) /\ Fails(request.details[c])}

RequestStep ==
    \/ \E ref \in BOOLEAN : AuditBegins(ref)
    \/ ReadRecords \/ ReadFindings \/ AuditFails \/ FetchTypes \/ FetchTypesFails
    \/ AuditChecks \/ Answer

----------------------------------------------------------------------------
(* The dry run: the checks as the pull request has them, on the default      *)
(* branch.  Nothing is written.                                              *)
Unborn == [pc |-> "idle", listed |-> FALSE, type |-> NoType, todo |-> {},
           pending |-> {}, report |-> Nothing, compliant |-> TRUE, exit |-> 0,
           baseline |-> Nothing]

DryRunBegins ==
    /\ dry.pc = "idle"
    /\ Client
    /\ \/ /\ dry' = IF standing
                    THEN [Unborn EXCEPT !.pc = "checks", !.listed = TRUE, !.type = type,
                                        !.todo = Applicable(type)]
                    ELSE [Unborn EXCEPT !.pc = "checks"]
          /\ UNCHANGED faults
       \/ /\ Fault     \* no token, no list of repositories, no types
          /\ dry' = [Unborn EXCEPT !.pc = "over", !.exit = 1]
    /\ UNCHANGED <<world, touched, db, sweep, request, sweeps>>

Entered(c, v) ==
    [dry EXCEPT !.report[c] = v, !.compliant = @ /\ v.pass]

DryRunChecks ==
    LET c == First(dry.todo) IN
    /\ dry.pc = "checks" /\ dry.todo # {}
    /\ \/ /\ dry' = [Entered(c, Check(c, TRUE, TRUE)) EXCEPT !.todo = @ \ {c}]
          /\ UNCHANGED faults
       \/ /\ Fault
          /\ dry' = [dry EXCEPT !.todo = @ \ {c}, !.pending = @ \cup {c}]
    /\ UNCHANGED <<world, touched, db, sweep, request, sweeps, clients>>

DryRunRetries_Mutant ==
    LET c == First(dry.pending) IN
    /\ dry.pc = "checks" /\ dry.todo = {} /\ dry.pending # {}
    /\ \/ /\ dry' = [Entered(c, Check(c, TRUE, TRUE)) EXCEPT !.pending = @ \ {c}]
          /\ UNCHANGED faults
       \/ /\ Fault
          /\ dry' = [dry EXCEPT !.pending = @ \ {c}]
    /\ UNCHANGED <<world, touched, db, sweep, request, sweeps, clients>>

(* What is undecided again is skipped, and leaves compliant as it is.        *)
DryRunRetries ==
    LET c == First(dry.pending) IN
    /\ dry.pc = "checks" /\ dry.todo = {} /\ dry.pending # {}
    /\ \/ /\ dry' = [Entered(c, Check(c, TRUE, TRUE)) EXCEPT !.pending = @ \ {c}]
          /\ UNCHANGED faults
       \/ /\ Fault
          /\ dry' = [dry EXCEPT !.pending = @ \ {c}, !.report[c] = Undecided, !.exit = 2]
    /\ UNCHANGED <<world, touched, db, sweep, request, sweeps, clients>>

(* Then the workflow fetches the baseline.                                   *)
FetchBaseline ==
    /\ dry.pc = "checks" /\ dry.todo = {} /\ dry.pending = {}
    /\ dry' = [dry EXCEPT !.pc = "over", !.baseline = rows]
    /\ UNCHANGED <<world, touched, db, sweep, request, faults, sweeps, clients>>

DryRunStep == DryRunBegins \/ DryRunChecks \/ DryRunRetries \/ FetchBaseline

(* ComputeAuditDiff.  A check that the baseline does not have counts as      *)
(* passed there; one that is not in the dry run any more, as resolved.       *)
WasPassing(c) == dry.baseline[c] = Absent \/ dry.baseline[c].pass

NewFailures_Mutant ==
    {c \in Conventions : WasPassing(c) /\ dry.report[c] # Absent /\ ~dry.report[c].pass}

NewFailures == {c \in Conventions : WasPassing(c) /\ Fails(dry.report[c])}

ResolvedFailures ==
    {c \in Conventions : /\ ~WasPassing(c)
                         /\ Passes(dry.report[c]) \/ (dry.listed /\ dry.report[c] = Absent)}

----------------------------------------------------------------------------
(* The table is empty, or as a sweep has left it.                            *)
Init ==
    /\ standing = TRUE
    /\ type \in Types
    /\ \E good \in SUBSET Conventions :
         main = [c \in Conventions |-> <<c \in good>>]
    /\ touched \in SUBSET Conventions
    /\ \/ record = NoType /\ rows = Nothing
       \/ /\ record = type
          /\ rows = [c \in Conventions |-> IF type \in AppliesTo[c]
                                            THEN Check(c, FALSE, TRUE) ELSE Absent]
    /\ sweep = Resting /\ request = Waiting /\ dry = Unborn
    /\ changes = 0 /\ faults = 0 /\ sweeps = 0 /\ clients = 0

Next ==
    \/ \E c \in Conventions : Push(c)
    \/ \E t \in Types \cup {Unconfigured} : Reclassify(t)
    \/ ToggleArchived
    \/ SweepStep \/ RequestStep \/ DryRunStep

Spec == Init /\ [][Next]_vars

----------------------------------------------------------------------------
(* Types; what is still to be checked applies, and what is being saved is a  *)
(* verdict.                                                                  *)
Sweeps == [pc : {"idle", "upsert", "checks", "save"}, type : Types \cup {Unconfigured, NoType},
           todo : SUBSET Conventions, held : Verdicts \cup {Absent},
           saved : SUBSET Conventions, skipped : BOOLEAN]

Requests == [pc : {"idle", "records", "findings", "types", "checks", "answered", "refused"},
             ref : BOOLEAN, type : Types \cup {Unconfigured, NoType}, degraded : BOOLEAN,
             todo : SUBSET Conventions, baseline : [Conventions -> Verdicts \cup {Absent}],
             details : [Conventions -> Entries], actual : Types \cup {Unconfigured, NoType}]

DryRuns == [pc : {"idle", "checks", "over"}, listed : BOOLEAN,
            type : Types \cup {Unconfigured, NoType},
            todo : SUBSET Conventions, pending : SUBSET Conventions,
            report : [Conventions -> Entries], compliant : BOOLEAN, exit : 0..2,
            baseline : [Conventions -> Verdicts \cup {Absent}]]

TypeOK ==
    /\ standing \in BOOLEAN /\ type \in Types \cup {Unconfigured}
    /\ record \in Types \cup {Unconfigured, NoType}
    /\ main \in [Conventions -> Seq(BOOLEAN) \ {<<>>}] /\ touched \subseteq Conventions
    /\ rows \in [Conventions -> Verdicts \cup {Absent}]
    /\ sweep \in Sweeps /\ request \in Requests /\ dry \in DryRuns
    /\ sweep.pc = "save" <=> sweep.held # Absent
    /\ sweep.pc = "save" => sweep.todo # {}
    /\ {changes, faults, sweeps, clients} \subseteq Nat

(* The baseline's verdict on c is of the default branch as the check met it. *)
Unmoved(c, baseline, entry) == baseline[c].of = entry[c].of

(* A request blames a branch for nothing else: an undecided check is no      *)
(* regression, nor is one the branch does not touch, unless the default      *)
(* branch has changed since the baseline or the hosts could not be had; and  *)
(* conventions are those of the type that configy gives now, if it can be    *)
(* asked (newAuditHandler, and #453).                                        *)
RegressionsReal ==
    request.pc = "answered" =>
        \A c \in Regressions :
            /\ request.details[c] # Undecided
            /\ \/ request.ref /\ c \in touched
               \/ ~Unmoved(c, request.baseline, request.details)
               \/ request.degraded /\ c \in NeedsHosts
            /\ request.actual \in AppliesTo[c] \/ request.degraded

(* What a branch breaks is found, however configy has changed since the      *)
(* sweep: only a check that stays undecided, or a type that is out of date   *)
(* while configy cannot be asked, lets it pass.                              *)
RegressionsFound ==
    request.pc = "answered" /\ request.ref =>
        \A c \in touched \ ScheduledOnly :
            /\ Passes(request.baseline[c]) /\ request.actual \in AppliesTo[c]
            /\ ~request.degraded \/ request.type = request.actual
            => /\ request.details[c] # Absent
               /\ \/ c \in Regressions \/ request.details[c] = Undecided
                  \/ ~Unmoved(c, request.baseline, request.details)

(* A dry run that exits with 0 has a verdict on every convention of the      *)
(* repository, those put off to the retry included, and calls it compliant   *)
(* exactly if all are good (runAuditDryRun).                                 *)
DryRunComplete ==
    dry.pc = "over" /\ dry.exit = 0 =>
        /\ \A c \in Conventions :
             dry.report[c].of >= 0 <=> dry.listed /\ dry.type \in AppliesTo[c]
        /\ dry.compliant <=> \A c \in Conventions : ~Fails(dry.report[c])

(* The diff shows what the pull request changes, and nothing else: a check   *)
(* that both have decided of the same state of the default branch is in it   *)
(* if the pull request touches it, on the right side; one that was skipped   *)
(* is not (ComputeAuditDiff, ADR-0003).                                      *)
DiffExact ==
    dry.pc = "over" =>
        \A c \in Conventions :
            /\ dry.report[c] = Undecided => c \notin NewFailures \cup ResolvedFailures
            /\ dry.report[c].of >= 0 /\ Unmoved(c, dry.baseline, dry.report) =>
                 /\ c \in NewFailures <=> c \in touched /\ dry.baseline[c].pass
                 /\ c \in ResolvedFailures <=> c \in touched /\ ~dry.baseline[c].pass
==============================================================================
