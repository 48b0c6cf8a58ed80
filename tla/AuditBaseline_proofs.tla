------------------------ MODULE AuditBaseline_proofs ------------------------
(***************************************************************************)
(* For any conventions and types, any number of sweeps, requests and dry   *)
(* runs, of changes and of failing calls: a branch is blamed only for what *)
(* it changes and for all of it, a dry run that ends well is complete, and *)
(* the diff is exact.                                                      *)
(*                                                                         *)
(* The argument: whatever verdict is kept anywhere was true of the state   *)
(* of the default branch that it is about, as that branch stood or as the  *)
(* pull request has it.                                                    *)
(***************************************************************************)
EXTENDS AuditBaseline, TLAPS

AnyType == Types \cup {Unconfigured, NoType}

LEMMA FirstOfTodo ==
    ASSUME NEW S, S # {}
    PROVE  First(S) \in S
BY DEF First

(* A check returns a verdict on the default branch as it is.                 *)
LEMMA CheckTyped ==
    ASSUME TypeOK, NEW c \in Conventions, NEW w \in BOOLEAN, NEW h \in BOOLEAN
    PROVE  /\ Check(c, w, h) \in Verdicts
           /\ Check(c, w, h).of = Len(main[c]) /\ Len(main[c]) \in Nat \ {0}
           /\ Check(c, w, h).pass <=> /\ main[c][Len(main[c])] # (w /\ c \in touched)
                                      /\ c \in NeedsHosts => h
<1>1. main[c] \in Seq(BOOLEAN) /\ main[c] # <<>>
  BY DEF TypeOK
<1>2. Len(main[c]) \in Nat \ {0}
  BY <1>1
<1> QED
  BY <1>2 DEF Check, Verdicts

LEMMA NothingTyped ==
    /\ Nothing \in [Conventions -> Entries]
    /\ Nothing \in [Conventions -> Verdicts \cup {Absent}]
    /\ \A c \in Conventions : Nothing[c] = Absent
BY DEF Nothing, Entries

LEMMA OutOfTheWay == Absent \notin Verdicts /\ Undecided \notin Verdicts /\ Absent # Undecided
BY DEF Absent, Undecided, Verdicts

LEMMA FaultsCounted ==
    ASSUME TypeOK, Fault \/ UNCHANGED faults
    PROVE  faults' \in Nat
BY DEF Fault, TypeOK

LEMMA TypeWorld ==
    ASSUME TypeOK,
           \/ \E c \in Conventions : Push(c)
           \/ \E t \in Types \cup {Unconfigured} : Reclassify(t)
           \/ ToggleArchived
    PROVE  TypeOK'
<1>1. ASSUME NEW c \in Conventions, Push(c) PROVE TypeOK'
  <2>1. main[c] \in Seq(BOOLEAN) /\ main[c] # <<>>
    BY DEF TypeOK
  <2>2. main[c][Len(main[c])] \in BOOLEAN
    BY <2>1
  <2>3. Append(main[c], ~main[c][Len(main[c])]) \in Seq(BOOLEAN) \ {<<>>}
    BY <2>1, <2>2
  <2>4. main' \in [Conventions -> Seq(BOOLEAN) \ {<<>>}]
    BY <1>1, <2>3 DEF Push, TypeOK
  <2> QED
    BY <1>1, <2>4 DEF Push, Change, TypeOK, db
<1>2. ASSUME NEW t \in Types \cup {Unconfigured}, Reclassify(t) PROVE TypeOK'
  BY <1>2 DEF Reclassify, Change, TypeOK, db
<1>3. CASE ToggleArchived
  BY <1>3 DEF ToggleArchived, Change, TypeOK, db
<1> QED
  BY <1>1, <1>2, <1>3

LEMMA TypeSweep ==
    ASSUME TypeOK, SweepStep
    PROVE  TypeOK'
<1>1. CASE SweepBegins
  <2>1. sweep' \in Sweeps /\ sweep'.pc # "save" /\ sweep'.held = Absent
    BY <1>1 DEF SweepBegins, Resting, Sweeps, TypeOK
  <2> QED
    BY <1>1, <2>1 DEF SweepBegins, TypeOK, world, db
<1>2. CASE UpsertRepo
  <2>1. sweep' \in Sweeps /\ sweep'.pc # "save" /\ sweep'.held = Absent
    BY <1>2 DEF UpsertRepo, Applicable, Sweeps, TypeOK
  <2>2. record' \in Types \cup {Unconfigured, NoType}
    BY <1>2 DEF UpsertRepo, Sweeps, TypeOK
  <2> QED
    BY <1>2, <2>1, <2>2 DEF UpsertRepo, TypeOK, world, db
<1>3. CASE SweepChecks
  <2>1. sweep.todo \subseteq Conventions /\ First(sweep.todo) \in sweep.todo
    BY <1>3, FirstOfTodo DEF SweepChecks, Sweeps, TypeOK
  <2>2. Check(First(sweep.todo), FALSE, TRUE) \in Verdicts
    BY <2>1, CheckTyped
  <2>3. /\ sweep' \in Sweeps /\ (sweep'.pc = "save" <=> sweep'.held # Absent)
        /\ sweep'.pc = "save" => sweep'.todo # {}
    <3> DEFINE c == First(sweep.todo)
               v == Check(c, FALSE, TRUE)
    <3>1. sweep \in Sweeps /\ sweep.held = Absent /\ sweep.todo # {} /\ sweep.pc = "checks"
      BY <1>3 DEF SweepChecks, TypeOK
    <3>2. v \in Verdicts /\ v # Absent /\ sweep.todo \ {c} \subseteq Conventions
      BY <2>1, <2>2, OutOfTheWay
    <3> HIDE DEF c, v
    <3>3. CASE sweep' = [sweep EXCEPT !.pc = "save", !.held = v]
      BY <3>1, <3>2, <3>3 DEF Sweeps
    <3>4. CASE sweep' = [sweep EXCEPT !.todo = @ \ {c}, !.skipped = TRUE]
      BY <3>1, <3>2, <3>4 DEF Sweeps
    <3> QED
      BY <1>3, <3>3, <3>4 DEF SweepChecks, c, v
  <2> QED
    BY <1>3, <2>3 DEF SweepChecks, Fault, TypeOK, world, db
<1>4. CASE SaveFinding
  <2>1. First(sweep.todo) \in sweep.todo /\ sweep.todo \subseteq Conventions
    BY <1>4, FirstOfTodo DEF SaveFinding, Sweeps, TypeOK
  <2>2. sweep' \in Sweeps /\ sweep'.pc # "save" /\ sweep'.held = Absent
    BY <1>4, <2>1 DEF SaveFinding, Sweeps, TypeOK
  <2>3. rows' \in [Conventions -> Verdicts \cup {Absent}]
    BY <1>4, <2>1 DEF SaveFinding, Sweeps, TypeOK
  <2> QED
    BY <1>4, <2>2, <2>3 DEF SaveFinding, TypeOK, world
<1>5. CASE DeleteStaleFindings
  <2>1. sweep' \in Sweeps /\ sweep'.pc # "save" /\ sweep'.held = Absent
    BY <1>5 DEF DeleteStaleFindings, Resting, Sweeps, TypeOK
  <2>2. rows' \in [Conventions -> Verdicts \cup {Absent}]
    BY <1>5 DEF DeleteStaleFindings, TypeOK
  <2> QED
    BY <1>5, <2>1, <2>2 DEF DeleteStaleFindings, TypeOK, world
<1> QED
  BY <1>1, <1>2, <1>3, <1>4, <1>5 DEF SweepStep

LEMMA TypeRequest ==
    ASSUME TypeOK, RequestStep
    PROVE  TypeOK'
<1>1. CASE \E ref \in BOOLEAN : AuditBegins(ref)
  <2>1. request' \in Requests
    BY <1>1, NothingTyped DEF AuditBegins, Waiting, Requests, TypeOK
  <2> QED
    BY <1>1, <2>1 DEF AuditBegins, Client, TypeOK, world, db
<1>2. CASE ReadRecords \/ ReadFindings \/ AuditFails
  <2>1. request' \in Requests
    <3>1. CASE ReadRecords
      BY <3>1 DEF ReadRecords, Requests, TypeOK
    <3>2. CASE ReadFindings
      BY <3>2 DEF ReadFindings, Requests, TypeOK
    <3>3. CASE AuditFails
      BY <3>3 DEF AuditFails, Requests, TypeOK
    <3> QED
      BY <1>2, <3>1, <3>2, <3>3
  <2> QED
    BY <1>2, <2>1 DEF ReadRecords, ReadFindings, AuditFails, Fault, TypeOK, world, db
<1>3. CASE FetchTypes \/ FetchTypesFails
  <2>1. \A t, ref : AuditScope(t, ref) \in SUBSET Conventions
    BY DEF AuditScope, Applicable
  <2>2. request' \in Requests
    <3>1. request \in Requests /\ type \in Types \cup {Unconfigured, NoType}
      BY DEF TypeOK
    <3>2. CASE FetchTypes
      BY <2>1, <3>1, <3>2 DEF FetchTypes, Requests
    <3>3. CASE FetchTypesFails
      BY <2>1, <3>1, <3>3 DEF FetchTypesFails, Requests
    <3> QED
      BY <1>3, <3>2, <3>3
  <2> QED
    BY <1>3, <2>2 DEF FetchTypes, FetchTypesFails, Fault, TypeOK, world, db
<1>4. CASE AuditChecks
  <2> DEFINE c == First(request.todo)
  <2>1. c \in Conventions /\ request.ref \in BOOLEAN /\ (~request.degraded) \in BOOLEAN
    BY <1>4, FirstOfTodo DEF AuditChecks, Requests, TypeOK
  <2>2. Check(c, request.ref, ~request.degraded) \in Entries /\ Undecided \in Entries
    BY <2>1, CheckTyped DEF Entries
  <2>3. request' \in Requests
    <3>1. ASSUME NEW v \in Entries,
                 request' = [request EXCEPT !.todo = @ \ {c}, !.details[c] = v]
          PROVE  request' \in Requests
      BY <2>1, <3>1 DEF Requests, TypeOK
    <3> QED
      BY <1>4, <2>2, <3>1 DEF AuditChecks
  <2> QED
    BY <1>4, <2>3 DEF AuditChecks, Fault, TypeOK, world, db
<1>5. CASE Answer
  <2>1. request' \in Requests
    BY <1>5 DEF Answer, Requests, TypeOK
  <2> QED
    BY <1>5, <2>1 DEF Answer, TypeOK, world, db
<1> QED
  BY <1>1, <1>2, <1>3, <1>4, <1>5 DEF RequestStep

LEMMA TypeDryRun ==
    ASSUME TypeOK, DryRunStep
    PROVE  TypeOK'
<1>1. CASE DryRunBegins
  <2>1. Applicable(type) \in SUBSET Conventions
    BY DEF Applicable
  <2>2. dry' \in DryRuns
    <3>1. type \in Types \cup {Unconfigured, NoType} /\ {0, 1} \subseteq 0..2
      BY DEF TypeOK
    <3> QED
      BY <1>1, <2>1, <3>1, NothingTyped DEF DryRunBegins, Unborn, DryRuns
  <2> QED
    BY <1>1, <2>2 DEF DryRunBegins, Client, Fault, TypeOK, world, db
<1>2. CASE DryRunChecks
  <2> DEFINE c == First(dry.todo)
  <2>1. c \in Conventions
    BY <1>2, FirstOfTodo DEF DryRunChecks, DryRuns, TypeOK
  <2>2. Check(c, TRUE, TRUE) \in Entries
    BY <2>1, CheckTyped DEF Entries
  <2>3. dry' \in DryRuns
    <3>1. ASSUME NEW v \in Entries, dry' = [Entered(c, v) EXCEPT !.todo = @ \ {c}]
          PROVE  dry' \in DryRuns
      BY <2>1, <3>1 DEF Entered, DryRuns, TypeOK
    <3>2. CASE dry' = [dry EXCEPT !.todo = @ \ {c}, !.pending = @ \cup {c}]
      BY <2>1, <3>2 DEF DryRuns, TypeOK
    <3> QED
      BY <1>2, <2>2, <3>1, <3>2 DEF DryRunChecks
  <2> QED
    <3>1. UNCHANGED <<world, touched, db, sweep, request, sweeps, clients>>
      BY <1>2 DEF DryRunChecks
    <3>2. faults' \in Nat
      BY <1>2, FaultsCounted DEF DryRunChecks
    <3> QED
      BY <2>3, <3>1, <3>2 DEF TypeOK, world, db
<1>3. CASE DryRunRetries
  <2> DEFINE c == First(dry.pending)
  <2>1. c \in Conventions
    BY <1>3, FirstOfTodo DEF DryRunRetries, DryRuns, TypeOK
  <2>2. Check(c, TRUE, TRUE) \in Entries /\ Undecided \in Entries
    BY <2>1, CheckTyped DEF Entries
  <2>3. dry' \in DryRuns
    <3>1. ASSUME NEW v \in Entries, dry' = [Entered(c, v) EXCEPT !.pending = @ \ {c}]
          PROVE  dry' \in DryRuns
      BY <2>1, <3>1 DEF Entered, DryRuns, TypeOK
    <3>2. CASE dry' = [dry EXCEPT !.pending = @ \ {c}, !.report[c] = Undecided, !.exit = 2]
      <4>1. dry \in DryRuns /\ 2 \in 0..2 /\ dry.pending \ {c} \in SUBSET Conventions
        BY DEF TypeOK, DryRuns
      <4>2. [dry.report EXCEPT ![c] = Undecided] \in [Conventions -> Entries]
        BY <2>2, <4>1 DEF DryRuns
      <4> QED
        BY <3>2, <4>1, <4>2 DEF DryRuns
    <3> QED
      BY <1>3, <2>2, <3>1, <3>2 DEF DryRunRetries
  <2> QED
    <3>1. UNCHANGED <<world, touched, db, sweep, request, sweeps, clients>>
      BY <1>3 DEF DryRunRetries
    <3>2. faults' \in Nat
      BY <1>3, FaultsCounted DEF DryRunRetries
    <3> QED
      BY <2>3, <3>1, <3>2 DEF TypeOK, world, db
<1>4. CASE FetchBaseline
  <2>1. dry' \in DryRuns
    BY <1>4 DEF FetchBaseline, DryRuns, TypeOK
  <2> QED
    BY <1>4, <2>1 DEF FetchBaseline, TypeOK, world, db
<1> QED
  BY <1>1, <1>2, <1>3, <1>4 DEF DryRunStep

LEMMA TypeStep == TypeOK /\ [Next]_vars => TypeOK'
<1> SUFFICES ASSUME TypeOK, [Next]_vars PROVE TypeOK'
  OBVIOUS
<1>1. CASE UNCHANGED vars
  BY <1>1 DEF vars, world, db, TypeOK
<1> QED
  BY <1>1, TypeWorld, TypeSweep, TypeRequest, TypeDryRun DEF Next

LEMMA TypeInit == Init => TypeOK
<1> SUFFICES ASSUME Init PROVE TypeOK
  OBVIOUS
<1>1. main \in [Conventions -> Seq(BOOLEAN) \ {<<>>}]
  BY DEF Init
<1>2. touched \subseteq Conventions /\ type \in Types
  BY DEF Init
<1>3. \A c \in Conventions : Check(c, FALSE, TRUE) \in Verdicts
  <2> TAKE c \in Conventions
  <2>1. main[c] \in Seq(BOOLEAN) /\ main[c] # <<>>
    BY <1>1
  <2>2. Len(main[c]) \in Nat
    BY <2>1
  <2> QED
    BY <2>2 DEF Check, Verdicts
<1>4. rows \in [Conventions -> Verdicts \cup {Absent}] /\ record \in AnyType
  BY <1>2, <1>3, NothingTyped DEF Init, AnyType
<1>5. sweep \in Sweeps /\ sweep.pc # "save" /\ sweep.held = Absent
  BY DEF Init, Resting, Sweeps
<1>6. request \in Requests /\ dry \in DryRuns
  BY NothingTyped DEF Init, Waiting, Unborn, Requests, DryRuns
<1> QED
  BY <1>1, <1>2, <1>4, <1>5, <1>6 DEF Init, TypeOK, AnyType

(* Everything keeps its type, and what a sweep is about to save is a verdict.*)
THEOREM BaselineTyped == Spec => []TypeOK
BY TypeInit, TypeStep, PTL DEF Spec

----------------------------------------------------------------------------
(* Verdicts are true of the past: a row says how the default branch stood,   *)
(* a detail how it stood with what the pull request changes.                 *)
Plain(v, m) == v = Absent \/ (v.of \in 1..Len(m) /\ (v.pass <=> m[v.of]))

Seen(v, m, c, w, h) ==
    v = Absent \/ v = Undecided
    \/ (v.of \in 1..Len(m) /\ (v.pass <=> /\ m[v.of] # (w /\ c \in touched)
                                          /\ c \in NeedsHosts => h))

PlainInv ==
    /\ \A c \in Conventions : /\ Plain(rows[c], main[c])
                              /\ Plain(request.baseline[c], main[c])
                              /\ Plain(dry.baseline[c], main[c])
    /\ sweep.pc = "save" => Plain(sweep.held, main[First(sweep.todo)])

SeenInv ==
    \A c \in Conventions :
        /\ Seen(request.details[c], main[c], c, request.ref, ~request.degraded)
        /\ Seen(dry.report[c], main[c], c, TRUE, TRUE)

Earlier(m, n) == /\ Len(m) \in Nat /\ Len(n) \in Nat /\ Len(m) <= Len(n)
                 /\ \A i \in 1..Len(m) : n[i] = m[i]

LEMMA Appending ==
    ASSUME NEW m \in Seq(BOOLEAN), NEW b \in BOOLEAN
    PROVE  Earlier(m, m) /\ Earlier(m, Append(m, b))
BY DEF Earlier

LEMMA MainGrows ==
    ASSUME TypeOK, [Next]_vars
    PROVE  touched' = touched /\ \A c \in Conventions : Earlier(main[c], main'[c])
<1>1. \A c \in Conventions : main[c] \in Seq(BOOLEAN)
  BY DEF TypeOK
<1>2. CASE \E c \in Conventions : Push(c)
  <2>1. PICK c \in Conventions : Push(c)
    BY <1>2
  <2>2. main[c] \in Seq(BOOLEAN) /\ main[c] # <<>>
    BY DEF TypeOK
  <2>3. main[c][Len(main[c])] \in BOOLEAN
    BY <2>2
  <2>4. main'[c] = Append(main[c], ~main[c][Len(main[c])])
    BY <2>1 DEF Push, TypeOK
  <2>5. \A d \in Conventions \ {c} : main'[d] = main[d]
    BY <2>1 DEF Push, TypeOK
  <2>6. Earlier(main[c], main'[c])
    BY <2>2, <2>3, <2>4, Appending
  <2>7. \A d \in Conventions \ {c} : Earlier(main[d], main'[d])
    BY <1>1, <2>5, Appending
  <2> QED
    BY <2>1, <2>6, <2>7 DEF Push
<1>3. CASE UNCHANGED <<main, touched>>
  BY <1>1, <1>3, Appending
<1>4. CASE SweepStep \/ RequestStep \/ DryRunStep
  BY <1>3, <1>4 DEF SweepStep, SweepBegins, UpsertRepo, SweepChecks, SaveFinding,
       DeleteStaleFindings, RequestStep, AuditBegins, ReadRecords, ReadFindings, AuditFails,
       FetchTypes, FetchTypesFails, AuditChecks, Answer, DryRunStep, DryRunBegins,
       DryRunChecks, DryRunRetries, FetchBaseline, world
<1>5. CASE UNCHANGED vars
  BY <1>3, <1>5 DEF vars, world
<1>6. CASE (\E t \in Types \cup {Unconfigured} : Reclassify(t)) \/ ToggleArchived
  BY <1>3, <1>6 DEF Reclassify, ToggleArchived
<1> QED
  BY <1>2, <1>4, <1>5, <1>6 DEF Next

LEMMA StaysPlain ==
    ASSUME NEW m, NEW n, Earlier(m, n), NEW v, Plain(v, m)
    PROVE  Plain(v, n)
BY DEF Earlier, Plain

LEMMA StaysSeen ==
    ASSUME NEW m, NEW n, Earlier(m, n), NEW v, NEW c, NEW w, NEW h, Seen(v, m, c, w, h)
    PROVE  Seen(v, n, c, w, h)
BY DEF Earlier, Seen

LEMMA LastIn ==
    ASSUME NEW n \in Nat \ {0}
    PROVE  n \in 1..n
OBVIOUS

LEMMA CheckIsPlain ==
    ASSUME TypeOK, NEW c \in Conventions
    PROVE  Plain(Check(c, FALSE, TRUE), main[c])
<1>1. Check(c, FALSE, TRUE).of \in 1..Len(main[c])
  <2>1. FALSE \in BOOLEAN /\ TRUE \in BOOLEAN
    OBVIOUS
  <2>2. Check(c, FALSE, TRUE).of = Len(main[c]) /\ Len(main[c]) \in Nat \ {0}
    BY <2>1, CheckTyped, Zenon
  <2> QED
    BY <2>2, LastIn, Zenon
<1>2. Check(c, FALSE, TRUE).pass <=> main[c][Check(c, FALSE, TRUE).of]
  <2>1. main[c] \in Seq(BOOLEAN) /\ Len(main[c]) \in 1..Len(main[c])
    BY CheckTyped DEF TypeOK
  <2>2. main[c][Len(main[c])] \in BOOLEAN
    BY <2>1
  <2> QED
    BY <2>2, CheckTyped
<1> QED
  BY <1>1, <1>2 DEF Plain

LEMMA CheckIsSeen ==
    ASSUME TypeOK, NEW c \in Conventions, NEW w \in BOOLEAN, NEW h \in BOOLEAN
    PROVE  Seen(Check(c, w, h), main[c], c, w, h)
<1>1. Check(c, w, h).of \in 1..Len(main[c])
  BY CheckTyped
<1> QED
  BY <1>1, CheckTyped DEF Seen

(* Where the verdicts of the next state come from.                           *)
LEMMA RowsFrom ==
    ASSUME TypeOK, [Next]_vars, NEW c \in Conventions
    PROVE  /\ \/ rows'[c] \in {rows[c], Absent}
              \/ sweep.pc = "save" /\ c = First(sweep.todo) /\ rows'[c] = sweep.held
           /\ request'.baseline[c] \in {request.baseline[c], Absent, rows[c]}
           /\ dry'.baseline[c] \in {dry.baseline[c], Absent, rows[c]}
<1>1. \/ rows' = rows /\ request' = request /\ dry' = dry
      \/ SweepStep \/ RequestStep \/ DryRunStep
  BY DEF Next, vars, world, db, Push, Reclassify, ToggleArchived
<1>2. CASE SweepStep
  <2>1. request' = request /\ dry' = dry
    BY <1>2 DEF SweepStep, SweepBegins, UpsertRepo, SweepChecks, SaveFinding, DeleteStaleFindings
  <2>2. rows' = rows \/ SaveFinding \/ DeleteStaleFindings
    BY <1>2 DEF SweepStep, SweepBegins, UpsertRepo, SweepChecks, db
  <2>3. CASE SaveFinding
    BY <2>1, <2>3 DEF SaveFinding, TypeOK
  <2>4. CASE DeleteStaleFindings
    BY <2>1, <2>4 DEF DeleteStaleFindings
  <2> QED
    BY <2>1, <2>2, <2>3, <2>4
<1>3. CASE RequestStep
  <2>1. rows' = rows /\ dry' = dry
    BY <1>3 DEF RequestStep, AuditBegins, ReadRecords, ReadFindings, AuditFails,
         FetchTypes, FetchTypesFails, AuditChecks, Answer, db
  <2>2. request'.baseline \in {request.baseline, Nothing, rows}
    <3>1. request \in Requests
      BY DEF TypeOK
    <3>2. CASE \E ref \in BOOLEAN : AuditBegins(ref)
      BY <3>2 DEF AuditBegins, Waiting
    <3>3. CASE ReadRecords \/ ReadFindings \/ AuditFails
      BY <3>1, <3>3 DEF ReadRecords, ReadFindings, AuditFails, Requests
    <3>4. CASE FetchTypes \/ FetchTypesFails \/ Answer
      BY <3>1, <3>4 DEF FetchTypes, FetchTypesFails, Answer, Requests
    <3>5. CASE AuditChecks
      BY <3>1, <3>5 DEF AuditChecks, Requests
    <3> QED
      BY <1>3, <3>2, <3>3, <3>4, <3>5 DEF RequestStep
  <2> QED
    BY <2>1, <2>2, NothingTyped
<1>4. CASE DryRunStep
  <2>1. rows' = rows /\ request' = request
    BY <1>4 DEF DryRunStep, DryRunBegins, DryRunChecks, DryRunRetries, FetchBaseline, db
  <2>2. dry'.baseline \in {dry.baseline, Nothing, rows}
    <3>1. dry \in DryRuns
      BY DEF TypeOK
    <3>2. CASE DryRunBegins
      BY <3>2 DEF DryRunBegins, Unborn
    <3>3. CASE DryRunChecks
      BY <3>1, <3>3 DEF DryRunChecks, Entered, DryRuns
    <3>4. CASE DryRunRetries
      BY <3>1, <3>4 DEF DryRunRetries, Entered, DryRuns
    <3>5. CASE FetchBaseline
      BY <3>1, <3>5 DEF FetchBaseline, DryRuns
    <3> QED
      BY <1>4, <3>2, <3>3, <3>4, <3>5 DEF DryRunStep
  <2> QED
    BY <2>1, <2>2, NothingTyped
<1> QED
  BY <1>1, <1>2, <1>3, <1>4

LEMMA HeldFrom ==
    ASSUME TypeOK, [Next]_vars, sweep'.pc = "save"
    PROVE  \/ sweep.pc = "save" /\ sweep' = sweep
           \/ /\ main' = main /\ sweep'.todo = sweep.todo /\ First(sweep.todo) \in Conventions
              /\ sweep'.held = Check(First(sweep.todo), FALSE, TRUE)
<1>1. sweep' = sweep \/ SweepStep
  BY DEF Next, vars, Push, Reclassify, ToggleArchived, RequestStep, AuditBegins, ReadRecords,
     ReadFindings, AuditFails, FetchTypes, FetchTypesFails, AuditChecks, Answer, DryRunStep,
     DryRunBegins, DryRunChecks, DryRunRetries, FetchBaseline
<1>2. CASE SweepStep
  <2>1. sweep \in Sweeps
    BY DEF TypeOK
  <2>2. SweepChecks
    <3>1. CASE SweepBegins
      BY <3>1 DEF SweepBegins, Resting
    <3>2. CASE UpsertRepo
      <4>1. sweep'.pc = "checks"
        BY <2>1, <3>2 DEF UpsertRepo, Sweeps
      <4> QED
        BY <4>1
    <3>3. CASE SaveFinding
      <4>1. sweep'.pc = "checks"
        BY <2>1, <3>3 DEF SaveFinding, Sweeps
      <4> QED
        BY <4>1
    <3>4. CASE DeleteStaleFindings
      BY <3>4 DEF DeleteStaleFindings, Resting
    <3> QED
      BY <1>2, <3>1, <3>2, <3>3, <3>4 DEF SweepStep
  <2>3. First(sweep.todo) \in Conventions
    BY <2>1, <2>2, FirstOfTodo DEF SweepChecks, Sweeps
  <2> QED
    BY <2>1, <2>2, <2>3 DEF SweepChecks, Sweeps, world
<1> QED
  BY <1>1, <1>2

LEMMA PlainStep ==
    ASSUME TypeOK, PlainInv, [Next]_vars
    PROVE  PlainInv'
<1>1. \A c \in Conventions : Earlier(main[c], main'[c])
  BY MainGrows
<1>2. \A m, c : c \in Conventions => Plain(Absent, m)
  BY DEF Plain
<1>3. ASSUME NEW c \in Conventions
      PROVE  Plain(rows'[c], main'[c]) /\ Plain(request'.baseline[c], main'[c])
             /\ Plain(dry'.baseline[c], main'[c])
  <2>1. Plain(rows[c], main[c]) /\ Plain(request.baseline[c], main[c])
        /\ Plain(dry.baseline[c], main[c])
    BY DEF PlainInv
  <2>2. sweep.pc = "save" /\ c = First(sweep.todo) => Plain(sweep.held, main[c])
    BY DEF PlainInv
  <2>3. /\ Plain(rows[c], main'[c]) /\ Plain(request.baseline[c], main'[c])
        /\ Plain(dry.baseline[c], main'[c])
        /\ sweep.pc = "save" /\ c = First(sweep.todo) => Plain(sweep.held, main'[c])
    BY <1>1, <2>1, <2>2, StaysPlain
  <2> QED
    BY <1>2, <2>3, RowsFrom
<1>4. ASSUME sweep'.pc = "save"
      PROVE  Plain(sweep'.held, main'[First(sweep'.todo)])
  <2>1. CASE sweep.pc = "save" /\ sweep' = sweep
    <3>1. First(sweep.todo) \in Conventions
      BY <2>1, FirstOfTodo DEF TypeOK, Sweeps
    <3> QED
      BY <1>1, <2>1, <3>1, StaysPlain DEF PlainInv
  <2>2. CASE /\ main' = main /\ sweep'.todo = sweep.todo /\ First(sweep.todo) \in Conventions
             /\ sweep'.held = Check(First(sweep.todo), FALSE, TRUE)
    BY <2>2, CheckIsPlain
  <2> QED
    BY <1>4, <2>1, <2>2, HeldFrom
<1> QED
  BY <1>3, <1>4 DEF PlainInv

LEMMA DetailsFrom ==
    ASSUME TypeOK, [Next]_vars, NEW c \in Conventions
    PROVE  \/ request'.details[c] \in {Absent, Undecided}
           \/ /\ request'.details[c] = request.details[c]
              /\ request'.ref = request.ref
              /\ request'.degraded = request.degraded \/ request.pc = "types"
           \/ /\ main' = main
              /\ request'.details[c] = Check(c, request'.ref, ~request'.degraded)
<1>1. request' = request \/ RequestStep
  BY DEF Next, vars, Push, Reclassify, ToggleArchived, SweepStep, SweepBegins, UpsertRepo,
     SweepChecks, SaveFinding, DeleteStaleFindings, DryRunStep, DryRunBegins, DryRunChecks,
     DryRunRetries, FetchBaseline
<1>2. request \in Requests
  BY DEF TypeOK
<1>3. CASE \E ref \in BOOLEAN : AuditBegins(ref)
  BY <1>3, NothingTyped DEF AuditBegins, Waiting
<1>4. CASE ReadRecords \/ ReadFindings \/ AuditFails
  BY <1>2, <1>4 DEF ReadRecords, ReadFindings, AuditFails, Requests
<1>5. CASE FetchTypes \/ FetchTypesFails \/ Answer
  BY <1>2, <1>5 DEF FetchTypes, FetchTypesFails, Answer, Requests
<1>6. CASE AuditChecks
  <2> DEFINE d == First(request.todo)
  <2>1. d \in Conventions
    BY <1>6, FirstOfTodo DEF AuditChecks, TypeOK, Requests
  <2>2. PICK v : /\ request' = [request EXCEPT !.todo = @ \ {d}, !.details[d] = v]
                 /\ v = Check(d, request.ref, ~request.degraded) \/ v = Undecided
    BY <1>6 DEF AuditChecks
  <2>3. /\ request'.ref = request.ref /\ request'.degraded = request.degraded
        /\ request'.details[c] = IF c = d THEN v ELSE request.details[c]
    BY <1>2, <2>1, <2>2 DEF Requests
  <2> QED
    BY <1>6, <2>2, <2>3 DEF AuditChecks, world
<1> QED
  BY <1>1, <1>3, <1>4, <1>5, <1>6 DEF RequestStep

LEMMA ReportFrom ==
    ASSUME TypeOK, [Next]_vars, NEW c \in Conventions
    PROVE  \/ dry'.report[c] \in {Absent, Undecided}
           \/ dry'.report[c] = dry.report[c]
           \/ main' = main /\ dry'.report[c] = Check(c, TRUE, TRUE)
<1>1. dry' = dry \/ DryRunStep
  BY DEF Next, vars, Push, Reclassify, ToggleArchived, SweepStep, SweepBegins, UpsertRepo,
     SweepChecks, SaveFinding, DeleteStaleFindings, RequestStep, AuditBegins, ReadRecords,
     ReadFindings, AuditFails, FetchTypes, FetchTypesFails, AuditChecks, Answer
<1>2. dry \in DryRuns
  BY DEF TypeOK
<1>3. CASE DryRunBegins
  BY <1>3, NothingTyped DEF DryRunBegins, Unborn
<1>4. CASE DryRunChecks
  <2> DEFINE d == First(dry.todo)
  <2>1. d \in Conventions
    BY <1>4, FirstOfTodo DEF DryRunChecks, TypeOK, DryRuns
  <2>2. CASE dry' = [dry EXCEPT !.todo = @ \ {d}, !.pending = @ \cup {d}]
    BY <1>2, <2>2 DEF DryRuns
  <2>3. CASE dry' = [Entered(d, Check(d, TRUE, TRUE)) EXCEPT !.todo = @ \ {d}]
    <3>1. dry'.report = [dry.report EXCEPT ![d] = Check(d, TRUE, TRUE)]
      BY <1>2, <2>3 DEF DryRuns, Entered
    <3> QED
      BY <1>2, <1>4, <2>1, <3>1 DEF DryRunChecks, DryRuns, world
  <2> QED
    BY <1>4, <2>2, <2>3 DEF DryRunChecks
<1>5. CASE DryRunRetries
  <2> DEFINE d == First(dry.pending)
  <2>1. d \in Conventions
    BY <1>5, FirstOfTodo DEF DryRunRetries, TypeOK, DryRuns
  <2>2. CASE dry' = [dry EXCEPT !.pending = @ \ {d}, !.report[d] = Undecided, !.exit = 2]
    BY <1>2, <2>1, <2>2 DEF DryRuns
  <2>3. CASE dry' = [Entered(d, Check(d, TRUE, TRUE)) EXCEPT !.pending = @ \ {d}]
    <3>1. dry'.report = [dry.report EXCEPT ![d] = Check(d, TRUE, TRUE)]
      BY <1>2, <2>3 DEF DryRuns, Entered
    <3> QED
      BY <1>2, <1>5, <2>1, <3>1 DEF DryRunRetries, DryRuns, world
  <2> QED
    BY <1>5, <2>2, <2>3 DEF DryRunRetries
<1>6. CASE FetchBaseline
  BY <1>2, <1>6 DEF FetchBaseline, DryRuns
<1> QED
  BY <1>1, <1>3, <1>4, <1>5, <1>6 DEF DryRunStep

(* Before its checks, a request has no details.                              *)
NoDetailsYet == request.pc = "types" => request.details = Nothing

LEMMA SeenStep ==
    ASSUME TypeOK, SeenInv, NoDetailsYet, [Next]_vars
    PROVE  SeenInv'
<1>1. touched' = touched /\ \A c \in Conventions : Earlier(main[c], main'[c])
  BY MainGrows
<1>2. ASSUME NEW c \in Conventions
      PROVE  Seen(request'.details[c], main'[c], c, request'.ref, ~request'.degraded)
  <2>1. request'.ref \in BOOLEAN /\ (~request'.degraded) \in BOOLEAN
    BY TypeStep DEF TypeOK, Requests
  <2>2. CASE request'.details[c] \in {Absent, Undecided}
    BY <2>2 DEF Seen
  <2>3. CASE /\ request'.details[c] = request.details[c]
             /\ request'.ref = request.ref
             /\ request'.degraded = request.degraded \/ request.pc = "types"
    <3>1. CASE request.pc = "types"
      BY <2>3, <3>1, NothingTyped DEF NoDetailsYet, Seen
    <3>2. CASE request'.degraded = request.degraded
      BY <1>1, <2>3, <3>2, StaysSeen DEF SeenInv
    <3> QED
      BY <2>3, <3>1, <3>2
  <2>4. CASE main' = main /\ request'.details[c] = Check(c, request'.ref, ~request'.degraded)
    BY <2>1, <2>4, CheckIsSeen
  <2> QED
    BY <2>2, <2>3, <2>4, DetailsFrom
<1>3. ASSUME NEW c \in Conventions
      PROVE  Seen(dry'.report[c], main'[c], c, TRUE, TRUE)
  <2>1. CASE dry'.report[c] \in {Absent, Undecided}
    BY <2>1 DEF Seen
  <2>2. CASE dry'.report[c] = dry.report[c]
    BY <1>1, <2>2, StaysSeen DEF SeenInv
  <2>3. CASE main' = main /\ dry'.report[c] = Check(c, TRUE, TRUE)
    <3>1. TRUE \in BOOLEAN
      OBVIOUS
    <3> QED
      BY <2>3, <3>1, CheckIsSeen
  <2> QED
    BY <2>1, <2>2, <2>3, ReportFrom
<1> QED
  BY <1>1, <1>2, <1>3 DEF SeenInv, Seen

----------------------------------------------------------------------------
(* A request has details for what is in its scope and is not still to do.    *)
ScopeInv ==
    /\ request.pc \in {"records", "findings", "types"} =>
         request.details = Nothing /\ ~request.degraded
    /\ request.pc \in {"checks", "answered"} =>
         /\ request.degraded \/ request.type = request.actual
         /\ \A c \in Conventions :
              /\ c \in request.todo => c \in AuditScope(request.type, request.ref)
              /\ request.details[c] # Absent
                   <=> c \in AuditScope(request.type, request.ref) /\ c \notin request.todo
    /\ request.pc = "answered" => request.todo = {}

LEMMA CheckThere ==
    ASSUME TypeOK, NEW c \in Conventions, NEW w \in BOOLEAN, NEW h \in BOOLEAN
    PROVE  Check(c, w, h) # Absent /\ Check(c, w, h) # Undecided
BY CheckTyped, OutOfTheWay

LEMMA ScopeStep ==
    ASSUME TypeOK, ScopeInv, [Next]_vars
    PROVE  ScopeInv'
<1>1. request' = request \/ RequestStep
  BY DEF Next, vars, Push, Reclassify, ToggleArchived, SweepStep, SweepBegins, UpsertRepo,
     SweepChecks, SaveFinding, DeleteStaleFindings, DryRunStep, DryRunBegins, DryRunChecks,
     DryRunRetries, FetchBaseline
<1>2. request \in Requests
  BY DEF TypeOK
<1>3. CASE request' = request
  BY <1>3 DEF ScopeInv, AuditScope, Applicable
<1>4. CASE \E ref \in BOOLEAN : AuditBegins(ref)
  <2>1. request'.pc = "records" /\ request'.details = Nothing /\ ~request'.degraded
    BY <1>4 DEF AuditBegins, Waiting
  <2> QED
    BY <2>1 DEF ScopeInv
<1>5. CASE ReadRecords
  <2>1. request'.pc = "findings" /\ request'.details = Nothing /\ ~request'.degraded
    BY <1>2, <1>5 DEF ReadRecords, ScopeInv, Requests
  <2> QED
    BY <2>1 DEF ScopeInv
<1>6. CASE ReadFindings \/ AuditFails
  <2>1. \/ request'.pc = "types" /\ request'.details = Nothing /\ ~request'.degraded
        \/ request'.pc = "refused"
    BY <1>2, <1>6 DEF ReadFindings, AuditFails, ScopeInv, Requests
  <2> QED
    BY <2>1 DEF ScopeInv
<1>7. CASE FetchTypes \/ FetchTypesFails
  <2>1. /\ request'.pc = "checks" /\ request'.details = Nothing
        /\ request'.todo = AuditScope(request'.type, request'.ref)
        /\ request'.degraded \/ request'.type = request'.actual
    <3>1. CASE FetchTypes
      BY <1>2, <3>1 DEF FetchTypes, ScopeInv, Requests
    <3>2. CASE FetchTypesFails
      BY <1>2, <3>2 DEF FetchTypesFails, ScopeInv, Requests
    <3> QED
      BY <1>7, <3>1, <3>2
  <2> QED
    BY <2>1, NothingTyped DEF ScopeInv, AuditScope, Applicable
<1>8. CASE AuditChecks
  <2> DEFINE d == First(request.todo)
  <2>1. d \in Conventions /\ d \in request.todo
    BY <1>8, FirstOfTodo DEF AuditChecks, TypeOK, Requests
  <2>2. PICK v : /\ request' = [request EXCEPT !.todo = @ \ {d}, !.details[d] = v]
                 /\ v = Check(d, request.ref, ~request.degraded) \/ v = Undecided
    BY <1>8 DEF AuditChecks
  <2>3. v # Absent
    <3>1. request.ref \in BOOLEAN /\ (~request.degraded) \in BOOLEAN
      BY <1>2 DEF Requests
    <3> QED
      BY <2>1, <2>2, <3>1, CheckThere, OutOfTheWay
  <2>4. /\ request'.pc = request.pc /\ request'.ref = request.ref
        /\ request'.type = request.type /\ request'.actual = request.actual
        /\ request'.degraded = request.degraded /\ request'.todo = request.todo \ {d}
        /\ \A c \in Conventions :
             request'.details[c] = IF c = d THEN v ELSE request.details[c]
    BY <1>2, <2>1, <2>2 DEF Requests
  <2>5. request.pc = "checks"
    BY <1>8 DEF AuditChecks
  <2> QED
    BY <2>1, <2>3, <2>4, <2>5 DEF ScopeInv, AuditScope, Applicable
<1>9. CASE Answer
  <2>1. /\ request.pc = "checks" /\ request.todo = {}
        /\ request' = [request EXCEPT !.pc = "answered"]
    BY <1>9 DEF Answer
  <2>2. /\ request'.pc = "answered" /\ request'.ref = request.ref
        /\ request'.type = request.type /\ request'.actual = request.actual
        /\ request'.degraded = request.degraded /\ request'.todo = {}
        /\ request'.details = request.details
    BY <1>2, <2>1 DEF Requests
  <2> QED
    BY <2>1, <2>2 DEF ScopeInv, AuditScope, Applicable
<1> QED
  BY <1>1, <1>3, <1>4, <1>5, <1>6, <1>7, <1>8, <1>9 DEF RequestStep

(* A dry run that had its lists reports what is in its scope and is neither  *)
(* to do nor put off.                                                        *)
InScope(c) == dry.listed /\ dry.type \in AppliesTo[c]

DryInv ==
    /\ dry.exit = 1 => dry.pc = "over"
    /\ dry.pc \in {"checks", "over"} /\ dry.exit # 1 =>
         /\ \A c \in Conventions :
              /\ c \in dry.todo \cup dry.pending => InScope(c)
              /\ c \in dry.todo => c \notin dry.pending
              /\ dry.report[c] # Absent
                   <=> InScope(c) /\ c \notin dry.todo /\ c \notin dry.pending
              /\ dry.report[c] = Undecided => dry.exit = 2
         /\ dry.compliant <=> \A c \in Conventions : ~Fails(dry.report[c])
    /\ dry.pc = "over" => dry.todo = {} /\ dry.pending = {}

LEMMA FailsOnly ==
    /\ ~Fails(Absent) /\ ~Fails(Undecided)
    /\ \A v \in Verdicts : Fails(v) <=> ~v.pass
BY DEF Fails, Absent, Undecided, Verdicts

LEMMA DryStep ==
    ASSUME TypeOK, DryInv, [Next]_vars
    PROVE  DryInv'
<1>1. dry' = dry \/ DryRunStep
  BY DEF Next, vars, Push, Reclassify, ToggleArchived, SweepStep, SweepBegins, UpsertRepo,
     SweepChecks, SaveFinding, DeleteStaleFindings, RequestStep, AuditBegins, ReadRecords,
     ReadFindings, AuditFails, FetchTypes, FetchTypesFails, AuditChecks, Answer
<1>2. dry \in DryRuns
  BY DEF TypeOK
<1>3. CASE dry' = dry
  BY <1>3 DEF DryInv, InScope, Fails
<1>4. CASE DryRunBegins
  <2>1. CASE dry' = [Unborn EXCEPT !.pc = "over", !.exit = 1]
    BY <2>1 DEF Unborn, DryInv
  <2>2. CASE dry' = IF standing
                    THEN [Unborn EXCEPT !.pc = "checks", !.listed = TRUE, !.type = type,
                                        !.todo = Applicable(type)]
                    ELSE [Unborn EXCEPT !.pc = "checks"]
    <3>1. /\ dry'.pc = "checks" /\ dry'.exit = 0 /\ dry'.compliant /\ dry'.pending = {}
          /\ dry'.report = Nothing
          /\ \A c \in Conventions : c \in dry'.todo <=> dry'.listed /\ dry'.type \in AppliesTo[c]
      BY <2>2 DEF Unborn, Applicable
    <3>2. \A c \in Conventions : dry'.report[c] = Absent /\ ~Fails(dry'.report[c])
      BY <3>1, NothingTyped, FailsOnly
    <3> QED
      BY <3>1, <3>2, OutOfTheWay DEF DryInv, InScope, Fails
  <2> QED
    BY <1>4, <2>1, <2>2 DEF DryRunBegins
<1>5. ASSUME NEW d \in Conventions, NEW v \in Verdicts, dry.pc = "checks",
             InScope(d), d \in dry.todo \cup dry.pending,
             dry'.pc = dry.pc, dry'.listed = dry.listed, dry'.type = dry.type,
             dry'.exit = dry.exit,
             dry'.todo = dry.todo \ {d}, dry'.pending = dry.pending \ {d},
             dry'.compliant <=> dry.compliant /\ v.pass,
             \A c \in Conventions : dry'.report[c] = IF c = d THEN v ELSE dry.report[c]
      PROVE  DryInv'
  <2>1. v # Absent /\ v # Undecided /\ (Fails(v) <=> ~v.pass)
    BY OutOfTheWay, FailsOnly
  <2>2. dry.report[d] = Absent /\ dry.exit # 1
    BY <1>5 DEF DryInv
  <2>3. dry'.compliant <=> \A c \in Conventions : ~Fails(dry'.report[c])
    <3>1. dry.compliant <=> \A c \in Conventions : ~Fails(dry.report[c])
      BY <1>5, <2>2 DEF DryInv
    <3>2. ~Fails(dry.report[d])
      BY <2>2, FailsOnly
    <3> QED
      BY <1>5, <2>1, <3>1, <3>2, Zenon
  <2>4. \A c \in Conventions :
          /\ c \in dry'.todo \cup dry'.pending => InScope(c)'
          /\ c \in dry'.todo => c \notin dry'.pending
          /\ dry'.report[c] # Absent
               <=> InScope(c)' /\ c \notin dry'.todo /\ c \notin dry'.pending
          /\ dry'.report[c] = Undecided => dry'.exit = 2
    BY <1>5, <2>1, <2>2 DEF DryInv, InScope
  <2> QED
    BY <1>5, <2>2, <2>3, <2>4 DEF DryInv, Fails
<1>6. CASE DryRunChecks
  <2> DEFINE d == First(dry.todo)
  <2>1. d \in Conventions /\ d \in dry.todo /\ dry.pc = "checks"
    BY <1>6, FirstOfTodo DEF DryRunChecks, TypeOK, DryRuns
  <2>2. dry.exit # 1 /\ InScope(d) /\ d \notin dry.pending
    BY <2>1 DEF DryInv
  <2>3. CASE dry' = [Entered(d, Check(d, TRUE, TRUE)) EXCEPT !.todo = @ \ {d}]
    <3>1. Check(d, TRUE, TRUE) \in Verdicts
      BY <2>1, CheckTyped
    <3>2. /\ dry'.pc = dry.pc /\ dry'.listed = dry.listed /\ dry'.type = dry.type
          /\ dry'.exit = dry.exit /\ dry'.todo = dry.todo \ {d} /\ dry'.pending = dry.pending
          /\ dry'.report = [dry.report EXCEPT ![d] = Check(d, TRUE, TRUE)]
          /\ dry'.compliant <=> dry.compliant /\ Check(d, TRUE, TRUE).pass
      BY <1>2, <2>3 DEF Entered, DryRuns
    <3>3. dry'.pending = dry.pending \ {d} /\ d \in dry.todo \cup dry.pending
      BY <2>1, <2>2, <3>2
    <3>4. \A c \in Conventions :
            dry'.report[c] = IF c = d THEN Check(d, TRUE, TRUE) ELSE dry.report[c]
      BY <1>2, <2>1, <3>2 DEF DryRuns
    <3> HIDE DEF d
    <3> QED
      BY <1>5, <2>1, <2>2, <3>1, <3>2, <3>3, <3>4
  <2>4. CASE dry' = [dry EXCEPT !.todo = @ \ {d}, !.pending = @ \cup {d}]
    <3>1. /\ dry'.pc = dry.pc /\ dry'.listed = dry.listed /\ dry'.type = dry.type
          /\ dry'.exit = dry.exit /\ dry'.todo = dry.todo \ {d}
          /\ dry'.pending = dry.pending \cup {d} /\ dry'.report = dry.report
          /\ dry'.compliant = dry.compliant
      BY <1>2, <2>4 DEF DryRuns
    <3> QED
      BY <2>1, <2>2, <3>1 DEF DryInv, InScope, Fails
  <2> QED
    BY <1>6, <2>3, <2>4 DEF DryRunChecks
<1>7. CASE DryRunRetries
  <2> DEFINE d == First(dry.pending)
  <2>1. d \in Conventions /\ d \in dry.pending /\ dry.pc = "checks" /\ dry.todo = {}
    BY <1>7, FirstOfTodo DEF DryRunRetries, TypeOK, DryRuns
  <2>2. dry.exit # 1 /\ InScope(d) /\ dry.report[d] = Absent
    BY <2>1 DEF DryInv
  <2>3. CASE dry' = [Entered(d, Check(d, TRUE, TRUE)) EXCEPT !.pending = @ \ {d}]
    <3>1. Check(d, TRUE, TRUE) \in Verdicts
      BY <2>1, CheckTyped
    <3>2. /\ dry'.pc = dry.pc /\ dry'.listed = dry.listed /\ dry'.type = dry.type
          /\ dry'.exit = dry.exit /\ dry'.pending = dry.pending \ {d} /\ dry'.todo = dry.todo
          /\ dry'.report = [dry.report EXCEPT ![d] = Check(d, TRUE, TRUE)]
          /\ dry'.compliant <=> dry.compliant /\ Check(d, TRUE, TRUE).pass
      BY <1>2, <2>3 DEF Entered, DryRuns
    <3>3. dry'.todo = dry.todo \ {d} /\ d \in dry.todo \cup dry.pending
      BY <2>1, <3>2
    <3>4. \A c \in Conventions :
            dry'.report[c] = IF c = d THEN Check(d, TRUE, TRUE) ELSE dry.report[c]
      BY <1>2, <2>1, <3>2 DEF DryRuns
    <3> HIDE DEF d
    <3> QED
      BY <1>5, <2>1, <2>2, <3>1, <3>2, <3>3, <3>4
  <2>4. CASE dry' = [dry EXCEPT !.pending = @ \ {d}, !.report[d] = Undecided, !.exit = 2]
    <3>1. /\ dry'.pc = dry.pc /\ dry'.listed = dry.listed /\ dry'.type = dry.type
          /\ dry'.exit = 2 /\ dry'.todo = {} /\ dry'.pending = dry.pending \ {d}
          /\ dry'.report = [dry.report EXCEPT ![d] = Undecided]
          /\ dry'.compliant = dry.compliant
      BY <1>2, <2>1, <2>4 DEF DryRuns
    <3>2. \A c \in Conventions :
            dry'.report[c] = IF c = d THEN Undecided ELSE dry.report[c]
      BY <1>2, <2>1, <3>1 DEF DryRuns
    <3>3. dry'.compliant <=> \A c \in Conventions : ~Fails(dry'.report[c])
      <4>1. dry.compliant <=> \A c \in Conventions : ~Fails(dry.report[c])
        BY <2>1, <2>2 DEF DryInv
      <4> HIDE DEF d
      <4> QED
        BY <2>1, <2>2, <3>1, <3>2, <4>1, FailsOnly, Zenon
    <3>4. \A c \in Conventions :
            /\ c \in dry'.todo \cup dry'.pending => InScope(c)'
            /\ c \in dry'.todo => c \notin dry'.pending
            /\ dry'.report[c] # Absent
                 <=> InScope(c)' /\ c \notin dry'.todo /\ c \notin dry'.pending
            /\ dry'.report[c] = Undecided => dry'.exit = 2
      BY <2>1, <2>2, <3>1, <3>2, OutOfTheWay DEF DryInv, InScope
    <3> QED
      BY <2>1, <3>1, <3>3, <3>4 DEF DryInv, Fails
  <2> QED
    BY <1>7, <2>3, <2>4 DEF DryRunRetries
<1>8. CASE FetchBaseline
  <2>1. /\ dry.pc = "checks" /\ dry.todo = {} /\ dry.pending = {}
        /\ dry'.pc = "over" /\ dry'.listed = dry.listed /\ dry'.type = dry.type
        /\ dry'.exit = dry.exit /\ dry'.todo = dry.todo /\ dry'.pending = dry.pending
        /\ dry'.report = dry.report /\ dry'.compliant = dry.compliant
    BY <1>2, <1>8 DEF FetchBaseline, DryRuns
  <2> QED
    BY <2>1 DEF DryInv, InScope, Fails
<1> QED
  BY <1>1, <1>3, <1>4, <1>6, <1>7, <1>8 DEF DryRunStep

----------------------------------------------------------------------------
IInv == TypeOK /\ PlainInv /\ SeenInv /\ ScopeInv /\ DryInv

LEMMA InvInit == Init => IInv
<1> SUFFICES ASSUME Init PROVE IInv
  OBVIOUS
<1>1. TypeOK
  BY TypeInit
<1>2. request = Waiting /\ dry = Unborn /\ sweep = Resting
  BY DEF Init
<1>3. \A c \in Conventions : rows[c] = Absent \/ rows[c] = Check(c, FALSE, TRUE)
  BY NothingTyped DEF Init
<1>4. \A c \in Conventions : Plain(rows[c], main[c]) /\ Plain(Absent, main[c])
  <2> TAKE c \in Conventions
  <2>1. Plain(Check(c, FALSE, TRUE), main[c])
    BY <1>1, CheckIsPlain
  <2>2. Plain(Absent, main[c])
    BY DEF Plain
  <2> QED
    BY <1>3, <2>1, <2>2
<1>5. PlainInv
  BY <1>2, <1>4, NothingTyped DEF PlainInv, Waiting, Unborn, Resting
<1>6. SeenInv
  BY <1>2, NothingTyped DEF SeenInv, Seen, Waiting, Unborn
<1>7. ScopeInv /\ DryInv
  BY <1>2 DEF ScopeInv, DryInv, Waiting, Unborn
<1> QED
  BY <1>1, <1>5, <1>6, <1>7 DEF IInv

LEMMA InvStep == IInv /\ [Next]_vars => IInv'
BY TypeStep, PlainStep, SeenStep, ScopeStep, DryStep DEF IInv, ScopeInv, NoDetailsYet

LEMMA InvAlways == Spec => []IInv
BY InvInit, InvStep, PTL DEF Spec

LEMMA Dated ==
    ASSUME NEW v, v.of >= 0
    PROVE  v # Absent /\ v # Undecided
<1>1. v # Absent
  BY DEF Absent
<1>2. v # Undecided
  BY DEF Undecided
<1> QED
  BY <1>1, <1>2

(* Two verdicts on one state of the default branch differ by what the pull   *)
(* request changes.                                                          *)
LEMMA SameState ==
    ASSUME TypeOK, NEW c \in Conventions, NEW b \in Verdicts \cup {Absent}, NEW v \in Entries,
           NEW w \in BOOLEAN, NEW h \in BOOLEAN,
           Plain(b, main[c]), Seen(v, main[c], c, w, h), b.of = v.of, v.of >= 0
    PROVE  v.pass <=> (b.pass # (w /\ c \in touched)) /\ (c \in NeedsHosts => h)
<1>1. b.of >= 0
  OBVIOUS
<1>2. v # Absent /\ v # Undecided /\ b # Absent
  BY <1>1, Dated, Zenon
<1>3. v.of \in 1..Len(main[c]) /\ main[c] \in Seq(BOOLEAN)
  BY <1>2 DEF Seen, TypeOK
<1>4. main[c][v.of] \in BOOLEAN /\ b.pass \in BOOLEAN /\ v.pass \in BOOLEAN
  BY <1>2, <1>3 DEF Verdicts, Entries
<1>5. b.pass <=> main[c][v.of]
  BY <1>2 DEF Plain
<1>6. v.pass <=> (main[c][v.of] # (w /\ c \in touched)) /\ (c \in NeedsHosts => h)
  BY <1>2 DEF Seen
<1> QED
  BY <1>4, <1>5, <1>6

LEMMA RequestVerdicts ==
    ASSUME IInv, NEW c \in Conventions, request.details[c].of >= 0,
           Unmoved(c, request.baseline, request.details)
    PROVE  request.details[c].pass
             <=> /\ request.baseline[c].pass # (request.ref /\ c \in touched)
                 /\ c \in NeedsHosts => ~request.degraded
<1>1. request.baseline[c] \in Verdicts \cup {Absent} /\ request.details[c] \in Entries
  BY DEF IInv, TypeOK, Requests
<1>2. request.ref \in BOOLEAN /\ (~request.degraded) \in BOOLEAN
  BY DEF IInv, TypeOK, Requests
<1>3. /\ Plain(request.baseline[c], main[c])
      /\ Seen(request.details[c], main[c], c, request.ref, ~request.degraded)
  BY DEF IInv, PlainInv, SeenInv
<1>4. TypeOK /\ request.baseline[c].of = request.details[c].of
  BY DEF IInv, Unmoved
<1>5. PICK h \in BOOLEAN : h = (~request.degraded)
  BY <1>2
<1>6. Seen(request.details[c], main[c], c, request.ref, h)
  BY <1>3, <1>5
<1>7. request.details[c].pass
        <=> /\ request.baseline[c].pass # (request.ref /\ c \in touched)
            /\ c \in NeedsHosts => h
  BY <1>1, <1>2, <1>3, <1>4, <1>6, SameState
<1> QED
  BY <1>5, <1>7

LEMMA DryVerdicts ==
    ASSUME IInv, NEW c \in Conventions, dry.report[c].of >= 0,
           Unmoved(c, dry.baseline, dry.report)
    PROVE  /\ dry.report[c].pass <=> (dry.baseline[c].pass # (c \in touched))
           /\ dry.report[c] \in Verdicts /\ dry.baseline[c] \in Verdicts
           /\ dry.report[c] # Absent /\ dry.baseline[c] # Absent
<1>1. dry.baseline[c] \in Verdicts \cup {Absent} /\ dry.report[c] \in Entries
  BY DEF IInv, TypeOK, DryRuns
<1>2. TRUE \in BOOLEAN
  OBVIOUS
<1>3. Plain(dry.baseline[c], main[c]) /\ Seen(dry.report[c], main[c], c, TRUE, TRUE)
  BY DEF IInv, PlainInv, SeenInv
<1>4. dry.report[c].pass <=> (dry.baseline[c].pass # (TRUE /\ c \in touched))
                             /\ (c \in NeedsHosts => TRUE)
  BY <1>1, <1>2, <1>3, SameState DEF IInv, Unmoved
<1>5. dry.baseline[c].of >= 0
  BY DEF Unmoved
<1>6. dry.report[c] \in Verdicts /\ dry.baseline[c] \in Verdicts
  BY <1>1, <1>5, Dated, Zenon DEF Entries
<1> QED
  BY <1>4, <1>6, OutOfTheWay

(* For every history of pushes, sweeps and failing calls, a regression that  *)
(* an answer reports is the branch's own doing, or the default branch has    *)
(* changed or the hosts could not be had (newAuditHandler).                  *)
THEOREM BlameIsDeserved == Spec => []RegressionsReal
<1>1. ASSUME IInv PROVE RegressionsReal
  <2> SUFFICES ASSUME request.pc = "answered", NEW c \in Conventions,
                      Passes(request.baseline[c]), Fails(request.details[c])
               PROVE  /\ request.details[c] # Undecided
                      /\ \/ request.ref /\ c \in touched
                         \/ ~Unmoved(c, request.baseline, request.details)
                         \/ request.degraded /\ c \in NeedsHosts
                      /\ request.actual \in AppliesTo[c] \/ request.degraded
    BY DEF RegressionsReal, Regressions
  <2>1. request.details[c] # Undecided /\ request.details[c] # Absent
    BY DEF Fails, Undecided, Absent
  <2>2. ASSUME Unmoved(c, request.baseline, request.details)
        PROVE  (request.ref /\ c \in touched) \/ (request.degraded /\ c \in NeedsHosts)
    <3>1. request.details[c].of >= 0 /\ ~request.details[c].pass /\ request.baseline[c].pass
      BY DEF Fails, Passes
    <3>2. request.details[c].pass
             <=> /\ request.baseline[c].pass # (request.ref /\ c \in touched)
                 /\ c \in NeedsHosts => ~request.degraded
      BY <1>1, <2>2, <3>1, RequestVerdicts
    <3>3. /\ request.ref \in BOOLEAN /\ request.degraded \in BOOLEAN
          /\ request.baseline[c] \in Verdicts \cup {Absent}
      BY <1>1 DEF IInv, TypeOK, Requests
    <3>4. request.baseline[c].pass \in BOOLEAN
      <4>1. request.baseline[c] # Absent
        BY Dated DEF Passes
      <4> QED
        BY <3>3, <4>1 DEF Verdicts
    <3> QED
      BY <3>1, <3>2, <3>3, <3>4
  <2>3. request.actual \in AppliesTo[c] \/ request.degraded
    BY <1>1, <2>1 DEF IInv, ScopeInv, AuditScope, Applicable
  <2> QED
    BY <2>1, <2>2, <2>3
<1> QED
  BY <1>1, InvAlways, PTL

(* And what a branch breaks is found, for every history, unless its check    *)
(* stays undecided or the default branch has changed.                        *)
THEOREM BreakageIsFound == Spec => []RegressionsFound
<1>1. ASSUME IInv PROVE RegressionsFound
  <2> SUFFICES ASSUME request.pc = "answered", request.ref, NEW c \in touched \ ScheduledOnly,
                      Passes(request.baseline[c]), request.actual \in AppliesTo[c],
                      ~request.degraded \/ request.type = request.actual
               PROVE  /\ request.details[c] # Absent
                      /\ \/ c \in Regressions \/ request.details[c] = Undecided
                         \/ ~Unmoved(c, request.baseline, request.details)
    BY DEF RegressionsFound
  <2>1. c \in Conventions
    BY <1>1 DEF IInv, TypeOK
  <2>2. request.details[c] # Absent
    BY <1>1, <2>1 DEF IInv, ScopeInv, AuditScope, Applicable
  <2>3. ASSUME Unmoved(c, request.baseline, request.details), request.details[c] # Undecided
        PROVE  c \in Regressions
    <3>1. request.details[c] \in Verdicts
      BY <1>1, <2>1, <2>2, <2>3 DEF IInv, TypeOK, Requests, Entries
    <3>2. request.details[c].of >= 0
      BY <3>1 DEF Verdicts
    <3>3. request.details[c].pass => request.baseline[c].pass # (request.ref /\ c \in touched)
      BY <1>1, <2>1, <2>3, <3>2, RequestVerdicts
    <3>4. ~request.details[c].pass
      <4>1. request.baseline[c] \in Verdicts \cup {Absent} /\ request.baseline[c].pass
        BY <1>1, <2>1 DEF IInv, TypeOK, Requests, Passes
      <4>2. request.baseline[c].pass \in BOOLEAN
        BY <4>1 DEF Verdicts, Absent
      <4> QED
        BY <3>3, <4>1, <4>2
    <3> QED
      BY <2>1, <3>2, <3>4 DEF Regressions, Fails
  <2> QED
    BY <2>2, <2>3
<1> QED
  BY <1>1, InvAlways, PTL

(* A dry run that exits with 0 has decided every convention in its scope.    *)
THEOREM DryRunIsComplete == Spec => []DryRunComplete
<1>1. ASSUME IInv PROVE DryRunComplete
  <2> SUFFICES ASSUME dry.pc = "over", dry.exit = 0
               PROVE  /\ \A c \in Conventions :
                           dry.report[c].of >= 0 <=> dry.listed /\ dry.type \in AppliesTo[c]
                      /\ dry.compliant <=> \A c \in Conventions : ~Fails(dry.report[c])
    BY DEF DryRunComplete
  <2>1. dry.todo = {} /\ dry.pending = {}
    BY <1>1 DEF IInv, DryInv
  <2>2. ASSUME NEW c \in Conventions
        PROVE  dry.report[c].of >= 0 <=> dry.listed /\ dry.type \in AppliesTo[c]
    <3>1. dry.report[c] # Absent <=> InScope(c)
      BY <1>1, <2>1 DEF IInv, DryInv
    <3>2. dry.report[c] # Undecided
      BY <1>1 DEF IInv, DryInv
    <3>3. dry.report[c] \in Verdicts \cup {Absent}
      BY <1>1, <3>2 DEF IInv, TypeOK, DryRuns, Entries
    <3>4. dry.report[c] # Absent => dry.report[c].of >= 0
      BY <3>3 DEF Verdicts
    <3>5. dry.report[c] = Absent => ~(dry.report[c].of >= 0)
      BY DEF Absent
    <3> QED
      BY <3>1, <3>4, <3>5 DEF InScope
  <2>3. dry.compliant <=> \A c \in Conventions : ~Fails(dry.report[c])
    BY <1>1 DEF IInv, DryInv
  <2> QED
    BY <2>2, <2>3
<1> QED
  BY <1>1, InvAlways, PTL

(* The diff is what the pull request changes and no more (ComputeAuditDiff). *)
THEOREM DiffIsExact == Spec => []DiffExact
<1>1. ASSUME IInv PROVE DiffExact
  <2> SUFFICES ASSUME NEW c \in Conventions
               PROVE  /\ dry.report[c] = Undecided => c \notin NewFailures \cup ResolvedFailures
                      /\ dry.report[c].of >= 0 /\ Unmoved(c, dry.baseline, dry.report) =>
                           /\ c \in NewFailures <=> c \in touched /\ dry.baseline[c].pass
                           /\ c \in ResolvedFailures <=> c \in touched /\ ~dry.baseline[c].pass
    BY DEF DiffExact
  <2>1. dry.report[c] = Undecided => c \notin NewFailures \cup ResolvedFailures
    BY DEF NewFailures, ResolvedFailures, Fails, Passes, Undecided, Absent
  <2>2. ASSUME dry.report[c].of >= 0, Unmoved(c, dry.baseline, dry.report)
        PROVE  /\ c \in NewFailures <=> c \in touched /\ dry.baseline[c].pass
               /\ c \in ResolvedFailures <=> c \in touched /\ ~dry.baseline[c].pass
    <3>1. /\ dry.report[c].pass <=> (dry.baseline[c].pass # (c \in touched))
          /\ dry.report[c] \in Verdicts /\ dry.baseline[c] \in Verdicts
          /\ dry.report[c] # Absent /\ dry.baseline[c] # Absent
      BY <1>1, <2>2, DryVerdicts
    <3>2. dry.report[c].pass \in BOOLEAN /\ dry.baseline[c].pass \in BOOLEAN
      BY <3>1 DEF Verdicts
    <3>3. /\ c \in NewFailures <=> dry.baseline[c].pass /\ ~dry.report[c].pass
          /\ c \in ResolvedFailures <=> ~dry.baseline[c].pass /\ dry.report[c].pass
      BY <2>2, <3>1 DEF NewFailures, ResolvedFailures, WasPassing, Fails, Passes
    <3> QED
      BY <3>1, <3>2, <3>3
  <2> QED
    BY <2>1, <2>2
<1> QED
  BY <1>1, InvAlways, PTL
============================================================================
