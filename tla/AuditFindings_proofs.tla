------------------------ MODULE AuditFindings_proofs ------------------------
(***************************************************************************)
(* Theorems about AuditFindings, for every set of repositories,            *)
(* conventions, types and rerun requests and for all bounds.               *)
(***************************************************************************)
EXTENDS AuditFindings, TLAPS

-----------------------------------------------------------------------------
(* Lemmas about the helpers.                                               *)

\* A row written by SaveFinding keeps the table well formed.
LEMMA SaveFindingType ==
  ASSUME DOMAIN findings \subseteq Checks, findings \in [DOMAIN findings -> Row],
         NEW k \in Checks, NEW pass \in BOOLEAN, NEW url \in Nat,
         SaveFinding(k, pass, url)
  PROVE  /\ DOMAIN findings' = DOMAIN findings \cup {k}
         /\ DOMAIN findings' \subseteq Checks
         /\ findings' \in [DOMAIN findings' -> Row]
  BY DEF SaveFinding, Row

\* Whatever ends a sweep leaves a well-typed idle sweeper.
LEMMA SweepForgottenType ==
  ASSUME SweepForgotten
  PROVE  SweeperTypeOK' /\ InHandOK'
<1>1. seenType' \in [Repos -> Types \cup {NoType}]
  BY DEF SweepForgotten
<1>2. InHandOK'
  BY DEF SweepForgotten, InHandOK
<1> QED BY <1>1, <1>2 DEF SweepForgotten, SweeperTypeOK, PCs

\* A failed call stays within its bound.
LEMMA FaultBound ==
  ASSUME BoundsOK, Fault, UNCHANGED events
  PROVE  BoundsOK'
  BY ConstantsAssumption DEF BoundsOK, Fault

\* People and rerun requests never exceed the bound on events.
LEMMA EventBound ==
  ASSUME BoundsOK, Event, UNCHANGED faults
  PROVE  BoundsOK'
  BY ConstantsAssumption DEF BoundsOK, Event

-----------------------------------------------------------------------------
(* Type correctness.                                                       *)

\* A first start is well typed.
LEMMA TypeInit == Init => TypeOK
<1> SUFFICES ASSUME Init PROVE TypeOK
  OBVIOUS
<1> USE DEF Init, SweepAtRest
<1>1. WorldTypeOK
  BY DEF WorldTypeOK, IssueStates
<1>2. DatabaseTypeOK
  BY DEF DatabaseTypeOK, Row
<1>3. SweeperTypeOK
  BY DEF SweeperTypeOK, PCs
<1>4. InHandOK
  BY DEF InHandOK
<1>5. RerunTypeOK
  BY DEF RerunTypeOK, Request, NoRequest
<1>6. BoundsOK
  BY ConstantsAssumption DEF BoundsOK
<1> QED BY <1>1, <1>2, <1>3, <1>4, <1>5, <1>6 DEF TypeOK

\* EnsureIssueExists: the numbers it handles are issue numbers.
LEMMA TypeEnsure ==
  ASSUME TypeOK, FindOpenIssue \/ FindOpenIssueFails \/ CreateIssue \/ CreateIssueFails
  PROVE  TypeOK'
<1>1. WorldTypeOK /\ DatabaseTypeOK /\ SweeperTypeOK /\ InHandOK /\ RerunTypeOK /\ BoundsOK
  BY DEF TypeOK
<1> USE DEF world, database
<1>2. cur \in Checks /\ issues[cur] \in Seq(IssueStates) /\ "open" \in IssueStates
  BY <1>1 DEF FindOpenIssue, FindOpenIssueFails, CreateIssue, CreateIssueFails,
              WorldTypeOK, InHandOK, IssueStates
<1>3. ASSUME Raised PROVE issues' \in [Checks -> Seq(IssueStates)]
  <2>1. Append(issues[cur], "open") \in Seq(IssueStates)
    BY <1>2
  <2> QED BY <1>1, <1>3, <2>1 DEF WorldTypeOK, Raised
<1>4. Len(issues[cur]) \in Nat /\ DOMAIN issues[cur] \subseteq Nat
  BY <1>2
<1>5. WorldTypeOK'
  BY <1>1, <1>3 DEF FindOpenIssue, FindOpenIssueFails, CreateIssue, CreateIssueFails,
                    WorldTypeOK
<1>6. skipped' \in BOOLEAN
  BY <1>1 DEF FindOpenIssue, FindOpenIssueFails, CreateIssue, CreateIssueFails,
              SweeperTypeOK
<1>7. issue' \in Nat
  <2>1. issue \in Nat /\ OpenIssues(cur) \subseteq Nat
    BY <1>1, <1>4 DEF SweeperTypeOK, OpenIssues
  <2>2. FindOpenIssue => issue' \in {0, issue} \cup OpenIssues(cur)
    BY DEF FindOpenIssue, ProceedToSave
  <2>3. FindOpenIssueFails \/ CreateIssueFails => issue' = 0
    BY DEF FindOpenIssueFails, CreateIssueFails, ProceedToSave
  <2>4. CreateIssue => issue' \in {0, Len(issues[cur]) + 1}
    BY DEF CreateIssue, ProceedToSave
  <2> QED BY <1>4, <2>1, <2>2, <2>3, <2>4
<1>8. pc' \in {"save", "create"} /\ UNCHANGED <<listed, seenType, todo, batch, pending,
                                               tail, cur, verdict>>
  BY DEF FindOpenIssue, FindOpenIssueFails, CreateIssue, CreateIssueFails, ProceedToSave
<1>12. pc' = "create" => issue' = 0
  BY <1>1 DEF FindOpenIssue, FindOpenIssueFails, CreateIssue, CreateIssueFails,
              ProceedToSave, InHandOK
<1>9. SweeperTypeOK' /\ InHandOK'
  BY <1>1, <1>2, <1>6, <1>7, <1>8, <1>12 DEF SweeperTypeOK, InHandOK, PCs
<1>10. BoundsOK'
  BY <1>1, FaultBound DEF FindOpenIssue, FindOpenIssueFails, CreateIssue,
                          CreateIssueFails, BoundsOK
<1>11. DatabaseTypeOK' /\ RerunTypeOK'
  BY <1>1 DEF FindOpenIssue, FindOpenIssueFails, CreateIssue, CreateIssueFails,
              DatabaseTypeOK, RerunTypeOK
<1> QED BY <1>5, <1>9, <1>10, <1>11 DEF TypeOK

\* CloseIssueIfOpen: it closes an issue of the check in hand.
LEMMA TypeClose ==
  ASSUME TypeOK, FindIssueToClose \/ FindIssueToCloseFails \/ CloseIssue \/ CloseIssueFails
  PROVE  TypeOK'
<1>1. WorldTypeOK /\ DatabaseTypeOK /\ SweeperTypeOK /\ InHandOK /\ RerunTypeOK /\ BoundsOK
  BY DEF TypeOK
<1> USE DEF world, database
<1>2. cur \in Checks /\ issues[cur] \in Seq(IssueStates) /\ "closed" \in IssueStates
  BY <1>1 DEF FindIssueToClose, FindIssueToCloseFails, CloseIssue, CloseIssueFails,
              WorldTypeOK, InHandOK, IssueStates
<1>3. ASSUME Closed(issue), pc = "unneeded", issue # 0
      PROVE  issues' \in [Checks -> Seq(IssueStates)]
  <2>1. issue \in 1..Len(issues[cur])
    BY <1>1, <1>2, <1>3 DEF InHandOK
  <2>2. [issues[cur] EXCEPT ![issue] = "closed"] \in Seq(IssueStates)
    BY <1>2, <2>1
  <2> QED BY <1>1, <1>3, <2>2 DEF WorldTypeOK, Closed
<1>4. DOMAIN issues[cur] \subseteq Nat
  BY <1>2
<1>5. WorldTypeOK'
  BY <1>1, <1>3 DEF FindIssueToClose, FindIssueToCloseFails, CloseIssue, CloseIssueFails,
                    WorldTypeOK
<1>6. issue' \in Nat /\ (pc' = "unneeded" => issues' = issues /\ issue' \in DOMAIN issues[cur])
  BY <1>1, <1>4 DEF FindIssueToClose, FindIssueToCloseFails, CloseIssue, CloseIssueFails,
              SweeperTypeOK, OpenIssues, ProceedToSave
<1>7. pc' \in {"save", "unneeded"} /\ UNCHANGED <<listed, seenType, todo, batch, pending,
                                               tail, skipped, cur, verdict>>
  BY DEF FindIssueToClose, FindIssueToCloseFails, CloseIssue, CloseIssueFails, ProceedToSave
<1>8. SweeperTypeOK' /\ InHandOK'
  BY <1>1, <1>2, <1>6, <1>7 DEF SweeperTypeOK, InHandOK, PCs
<1>9. BoundsOK'
  BY <1>1, FaultBound DEF FindIssueToClose, FindIssueToCloseFails, CloseIssue,
                          CloseIssueFails, BoundsOK
<1>10. DatabaseTypeOK' /\ RerunTypeOK'
  BY <1>1 DEF FindIssueToClose, FindIssueToCloseFails, CloseIssue, CloseIssueFails,
              DatabaseTypeOK, RerunTypeOK
<1> QED BY <1>5, <1>8, <1>9, <1>10 DEF TypeOK

\* The steps of the sweep touch GitHub and the table as their types allow.
LEMMA TypeSweep == TypeOK /\ SweepStep => TypeOK'
<1> SUFFICES ASSUME TypeOK, SweepStep PROVE TypeOK'
  OBVIOUS
<1>1. WorldTypeOK /\ DatabaseTypeOK /\ SweeperTypeOK /\ InHandOK /\ RerunTypeOK /\ BoundsOK
  BY DEF TypeOK
<1> USE DEF world, database
<1>2. CASE StartSweep
  <2>1. DatabaseTypeOK'
    BY <1>1, <1>2 DEF StartSweep, DatabaseTypeOK, Row
  <2>2. SweeperTypeOK' /\ InHandOK'
    BY <1>1, <1>2 DEF StartSweep, SweeperTypeOK, InHandOK, PCs
  <2>3. WorldTypeOK' /\ RerunTypeOK' /\ BoundsOK'
    BY <1>1, <1>2 DEF StartSweep, WorldTypeOK, RerunTypeOK, BoundsOK
  <2> QED BY <2>1, <2>2, <2>3 DEF TypeOK
<1>3. CASE FetchRepos \/ FetchTypes \/ EndBatch \/ EndLoop
  <2>1. SweeperTypeOK' /\ InHandOK'
    BY <1>1, <1>3 DEF FetchRepos, FetchTypes, EndBatch, EndLoop, SweeperTypeOK,
                      InHandOK, PCs, WorldTypeOK
  <2>2. WorldTypeOK' /\ DatabaseTypeOK' /\ RerunTypeOK' /\ BoundsOK'
    BY <1>1, <1>3 DEF FetchRepos, FetchTypes, EndBatch, EndLoop, WorldTypeOK,
                      DatabaseTypeOK, RerunTypeOK, BoundsOK
  <2> QED BY <2>1, <2>2 DEF TypeOK
<1>4. CASE AbortSweep \/ EndIncomplete \/ EndComplete
  <2>1. SweeperTypeOK' /\ InHandOK'
    BY <1>4, SweepForgottenType DEF AbortSweep, EndIncomplete, EndComplete
  <2>2. WorldTypeOK' /\ DatabaseTypeOK' /\ RerunTypeOK'
    BY <1>1, <1>4 DEF AbortSweep, EndIncomplete, EndComplete, WorldTypeOK,
                      DatabaseTypeOK, RerunTypeOK
  <2>3. BoundsOK'
    BY <1>1, <1>4, FaultBound DEF AbortSweep, EndIncomplete, EndComplete, BoundsOK
  <2> QED BY <2>1, <2>2, <2>3 DEF TypeOK
<1>5. ASSUME NEW r \in Repos, BeginRepo(r) PROVE TypeOK'
  <2>1. SweeperTypeOK' /\ InHandOK'
    BY <1>1, <1>5 DEF BeginRepo, SweeperTypeOK, InHandOK, PCs, Scope, InScope
  <2>2. DatabaseTypeOK'
    BY <1>1, <1>5 DEF BeginRepo, DatabaseTypeOK, SweeperTypeOK
  <2>3. WorldTypeOK' /\ RerunTypeOK' /\ BoundsOK'
    BY <1>1, <1>5 DEF BeginRepo, WorldTypeOK, RerunTypeOK, BoundsOK
  <2> QED BY <2>1, <2>2, <2>3 DEF TypeOK
<1>6. ASSUME NEW r \in Repos, BeginRepoFails(r) PROVE TypeOK'
  <2>1. SweeperTypeOK' /\ InHandOK'
    BY <1>1, <1>6 DEF BeginRepoFails, SweeperTypeOK, InHandOK, PCs
  <2>2. WorldTypeOK' /\ DatabaseTypeOK' /\ RerunTypeOK'
    BY <1>1, <1>6 DEF BeginRepoFails, WorldTypeOK, DatabaseTypeOK, RerunTypeOK
  <2>3. BoundsOK'
    BY <1>1, <1>6, FaultBound DEF BeginRepoFails, DbFault
  <2> QED BY <2>1, <2>2, <2>3 DEF TypeOK
<1>7. ASSUME NEW k \in Checks, CheckDecides(k) PROVE TypeOK'
  <2>0. verdict' \in BOOLEAN
    BY <1>7 DEF CheckDecides
  <2>1. SweeperTypeOK' /\ InHandOK'
    <3>1. batch' \subseteq Checks /\ cur' \in Checks /\ issue = 0 /\ issue' = 0
      BY <1>1, <1>7 DEF CheckDecides, SweeperTypeOK, InHandOK
    <3>2. pc' \in {"save", "unneeded", "ensure"}
      BY <1>7 DEF CheckDecides
    <3>3. UNCHANGED <<listed, seenType, todo, pending, tail, skipped>>
      BY <1>7 DEF CheckDecides
    <3> QED BY <1>1, <2>0, <3>1, <3>2, <3>3 DEF SweeperTypeOK, InHandOK, PCs
  <2>2. WorldTypeOK' /\ DatabaseTypeOK' /\ RerunTypeOK' /\ BoundsOK'
    BY <1>1, <1>7 DEF CheckDecides, WorldTypeOK, DatabaseTypeOK, RerunTypeOK, BoundsOK
  <2> QED BY <2>1, <2>2 DEF TypeOK
<1>8. ASSUME NEW k \in Checks, CheckUndecided(k) PROVE TypeOK'
  <2>0. skipped' \in BOOLEAN
    BY <1>8 DEF CheckUndecided
  <2>1. SweeperTypeOK' /\ InHandOK'
    <3>1. batch' \subseteq Checks /\ pending' \subseteq Checks
      BY <1>1, <1>8 DEF CheckUndecided, SweeperTypeOK
    <3>2. UNCHANGED <<pc, listed, seenType, todo, tail, cur, verdict, issue, issues>>
      BY <1>8 DEF CheckUndecided
    <3>3. SweeperTypeOK'
      BY <1>1, <2>0, <3>1, <3>2 DEF SweeperTypeOK
    <3>4. InHandOK'
      BY <1>1, <3>2 DEF InHandOK
    <3> QED BY <3>3, <3>4
  <2>2. WorldTypeOK' /\ DatabaseTypeOK' /\ RerunTypeOK'
    BY <1>1, <1>8 DEF CheckUndecided, WorldTypeOK, DatabaseTypeOK, RerunTypeOK
  <2>3. BoundsOK'
    BY <1>1, <1>8, FaultBound DEF CheckUndecided
  <2> QED BY <2>1, <2>2, <2>3 DEF TypeOK
<1>12. CASE SaveResult
  <2>1. verdict \in BOOLEAN /\ issue \in Nat /\ cur \in Checks
    BY <1>1, <1>12 DEF SaveResult, SweeperTypeOK, InHandOK
  <2>2. DatabaseTypeOK'
    BY <1>1, <1>12, <2>1, SaveFindingType DEF SaveResult, DatabaseTypeOK
  <2>3. SweeperTypeOK' /\ InHandOK'
    BY <1>1, <1>12 DEF SaveResult, ResultProcessed, SweeperTypeOK, InHandOK, PCs
  <2>4. WorldTypeOK' /\ RerunTypeOK' /\ BoundsOK'
    BY <1>1, <1>12 DEF SaveResult, WorldTypeOK, RerunTypeOK, BoundsOK
  <2> QED BY <2>2, <2>3, <2>4 DEF TypeOK
<1>13. CASE SaveResultFails \/ CleanUpFails
  <2>1. SweeperTypeOK' /\ InHandOK'
    <3>1. CASE SaveResultFails
      BY <1>1, <3>1 DEF SaveResultFails, ResultProcessed, SweeperTypeOK, InHandOK, PCs
    <3>2. CASE CleanUpFails
      BY <1>1, <3>2 DEF CleanUpFails, SweeperTypeOK, InHandOK, PCs
    <3> QED BY <1>13, <3>1, <3>2
  <2>2. WorldTypeOK' /\ DatabaseTypeOK' /\ RerunTypeOK'
    BY <1>1, <1>13 DEF SaveResultFails, CleanUpFails, WorldTypeOK, DatabaseTypeOK,
                       RerunTypeOK
  <2>3. BoundsOK'
    BY <1>1, <1>13, FaultBound DEF SaveResultFails, CleanUpFails, DbFault
  <2> QED BY <2>1, <2>2, <2>3 DEF TypeOK
<1>14. CASE CleanUp
  <2>1. DatabaseTypeOK'
    BY <1>1, <1>14 DEF CleanUp, DeleteStaleFindings, DatabaseTypeOK
  <2>2. SweeperTypeOK' /\ InHandOK'
    BY <1>1, <1>14 DEF CleanUp, SweeperTypeOK, InHandOK, PCs
  <2>3. WorldTypeOK' /\ RerunTypeOK' /\ BoundsOK'
    BY <1>1, <1>14 DEF CleanUp, WorldTypeOK, RerunTypeOK, BoundsOK
  <2> QED BY <2>1, <2>2, <2>3 DEF TypeOK
<1>10. CASE FindOpenIssue \/ FindOpenIssueFails \/ CreateIssue \/ CreateIssueFails
  BY <1>1, <1>10, TypeEnsure DEF TypeOK
<1>11. CASE FindIssueToClose \/ FindIssueToCloseFails \/ CloseIssue \/ CloseIssueFails
  BY <1>1, <1>11, TypeClose DEF TypeOK
<1> QED
  BY <1>2, <1>3, <1>4, <1>5, <1>6, <1>7, <1>8, <1>10, <1>11, <1>12, <1>13, <1>14
  DEF SweepStep

\* The rerun requests write rows and nothing else that is shared.
LEMMA TypeRerun == TypeOK /\ RerunStep => TypeOK'
<1> SUFFICES ASSUME TypeOK, NEW h \in Handlers,
                    \/ \E wanted \in RerunRequests : RerunBegins(h, wanted)
                    \/ RerunTypes(h) \/ RerunSave(h) \/ RerunEnds(h)
                    \/ \E k \in Checks : RerunCheck(h, k) \/ RerunCheckUndecided(h, k)
             PROVE  TypeOK'
  BY DEF RerunStep
<1>1. WorldTypeOK /\ DatabaseTypeOK /\ SweeperTypeOK /\ InHandOK /\ RerunTypeOK /\ BoundsOK
  BY DEF TypeOK
<1> USE DEF world, database, sweeper
<1>2. rerun[h] \in Request
  BY <1>1 DEF RerunTypeOK
<1>3. ASSUME NEW q \in Request, rerun' = [rerun EXCEPT ![h] = q],
             q.pc = "save" => q.cur \in Checks
      PROVE  RerunTypeOK'
  BY <1>1, <1>3 DEF RerunTypeOK
<1>4. ASSUME NEW wanted \in RerunRequests, RerunBegins(h, wanted) PROVE TypeOK'
  <2> DEFINE asked == {k \in wanted : k[1] \in ReportedRepos}
             q == [pc |-> "types", urls |-> ReportedUrls, types |-> dbType, todo |-> asked,
                   cur |-> NoPair, pass |-> TRUE]
  <2>1. ReportedUrls \in [Checks -> Nat]
    BY <1>1 DEF DatabaseTypeOK, Row, ReportedUrls
  <2>2. asked \subseteq Checks
    BY <1>4 DEF RerunRequests, Checks
  <2>3. q \in Request
    BY <1>1, <2>1, <2>2 DEF Request, DatabaseTypeOK
  <2>4. rerun' = [rerun EXCEPT ![h] = q]
    BY <1>4 DEF RerunBegins
  <2>5. RerunTypeOK'
    BY <1>3, <2>3, <2>4
  <2>6. WorldTypeOK' /\ DatabaseTypeOK' /\ SweeperTypeOK' /\ InHandOK'
    BY <1>1, <1>4 DEF RerunBegins, WorldTypeOK, DatabaseTypeOK, SweeperTypeOK, InHandOK
  <2>7. BoundsOK'
    BY <1>1, <1>4, EventBound DEF RerunBegins
  <2> QED BY <2>5, <2>6, <2>7 DEF TypeOK
<1>5. CASE RerunTypes(h)
  <2>1. PICK S \in SUBSET Checks :
          rerun' = [rerun EXCEPT ![h] = [rerun[h] EXCEPT !.pc = "checks", !.todo = S]]
    BY <1>1, <1>2, <1>5 DEF RerunTypes, RerunTypeOK, Request
  <2>2. RerunTypeOK'
    BY <1>2, <1>3, <2>1 DEF Request
  <2>3. WorldTypeOK' /\ DatabaseTypeOK' /\ SweeperTypeOK' /\ InHandOK'
    BY <1>1, <1>5 DEF RerunTypes, WorldTypeOK, DatabaseTypeOK, SweeperTypeOK, InHandOK
  <2>4. BoundsOK'
    BY <1>1, <1>5, FaultBound DEF RerunTypes, BoundsOK
  <2> QED BY <2>2, <2>3, <2>4 DEF TypeOK
<1>6. ASSUME NEW k \in Checks, RerunCheck(h, k) PROVE TypeOK'
  <2>0. (k \in compliant) \in BOOLEAN
    OBVIOUS
  <2>1. PICK pass \in BOOLEAN :
          rerun' = [rerun EXCEPT ![h] = [rerun[h] EXCEPT !.pc = "save", !.todo = @ \ {k},
                                                         !.cur = k, !.pass = pass]]
    BY <1>1, <1>2, <1>6, <2>0 DEF RerunCheck, RerunTypeOK
  <2>2. RerunTypeOK'
    BY <1>2, <1>3, <2>1 DEF Request
  <2> QED
    BY <1>1, <1>6, <2>2 DEF RerunCheck, TypeOK, WorldTypeOK, DatabaseTypeOK,
                            SweeperTypeOK, InHandOK, BoundsOK
<1>7. ASSUME NEW k \in Checks, RerunCheckUndecided(h, k) PROVE TypeOK'
  <2>1. rerun' = [rerun EXCEPT ![h] = [rerun[h] EXCEPT !.todo = @ \ {k}]]
    BY <1>1, <1>7 DEF RerunCheckUndecided, RerunTypeOK
  <2>2. RerunTypeOK'
    BY <1>2, <1>3, <1>7, <2>1 DEF Request, RerunCheckUndecided
  <2>3. WorldTypeOK' /\ DatabaseTypeOK' /\ SweeperTypeOK' /\ InHandOK'
    BY <1>1, <1>7 DEF RerunCheckUndecided, WorldTypeOK, DatabaseTypeOK, SweeperTypeOK,
                      InHandOK
  <2>4. BoundsOK'
    BY <1>1, <1>7, FaultBound DEF RerunCheckUndecided
  <2> QED BY <2>2, <2>3, <2>4 DEF TypeOK
<1>8. CASE RerunSave(h)
  <2>1. rerun[h].cur \in Checks /\ rerun[h].pass \in BOOLEAN /\ RerunUrl(h) \in Nat
    BY <1>1, <1>2, <1>8 DEF RerunSave, RerunUrl, RerunTypeOK, Request
  <2>2. DatabaseTypeOK'
    BY <1>1, <1>8, <2>1, SaveFindingType DEF RerunSave, DatabaseTypeOK
  <2>3. rerun' = [rerun EXCEPT ![h] = [rerun[h] EXCEPT !.pc = "checks", !.cur = NoPair,
                                                       !.pass = TRUE]]
    BY <1>1, <1>8 DEF RerunSave, RerunTypeOK
  <2>4. RerunTypeOK'
    BY <1>2, <1>3, <2>3 DEF Request
  <2>5. WorldTypeOK' /\ SweeperTypeOK' /\ InHandOK'
    BY <1>1, <1>8 DEF RerunSave, WorldTypeOK, SweeperTypeOK, InHandOK
  <2>6. BoundsOK'
    BY <1>1, <1>8, FaultBound DEF RerunSave, DbFault, BoundsOK
  <2> QED BY <2>2, <2>4, <2>5, <2>6 DEF TypeOK
<1>9. CASE RerunEnds(h)
  <2>1. NoRequest \in Request /\ NoRequest.pc # "save"
    BY DEF NoRequest, Request
  <2>2. RerunTypeOK'
    BY <1>3, <1>9, <2>1 DEF RerunEnds
  <2>3. WorldTypeOK' /\ DatabaseTypeOK' /\ SweeperTypeOK' /\ InHandOK'
    BY <1>1, <1>9 DEF RerunEnds, WorldTypeOK, DatabaseTypeOK, SweeperTypeOK, InHandOK
  <2>4. BoundsOK'
    BY <1>1, <1>9, FaultBound DEF RerunEnds, BoundsOK
  <2> QED BY <2>2, <2>3, <2>4 DEF TypeOK
<1> QED BY <1>4, <1>5, <1>6, <1>7, <1>8, <1>9

\* Changes in the world and crashes preserve types.
LEMMA TypeWorld == TypeOK /\ (WorldStep \/ Crash) => TypeOK'
<1> SUFFICES ASSUME TypeOK, WorldStep \/ Crash PROVE TypeOK'
  OBVIOUS
<1>1. WorldTypeOK /\ DatabaseTypeOK /\ SweeperTypeOK /\ InHandOK /\ RerunTypeOK /\ BoundsOK
  BY DEF TypeOK
<1> USE DEF world, database, sweeper
<1>2. ASSUME NEW k \in Checks, Flip(k) PROVE TypeOK'
  <2>1. WorldTypeOK'
    BY <1>1, <1>2 DEF Flip, WorldTypeOK
  <2>2. DatabaseTypeOK' /\ SweeperTypeOK' /\ InHandOK' /\ RerunTypeOK'
    BY <1>1, <1>2 DEF Flip, DatabaseTypeOK, SweeperTypeOK, InHandOK, RerunTypeOK
  <2> QED BY <1>1, <1>2, <2>1, <2>2, EventBound DEF Flip, TypeOK
<1>3. ASSUME NEW k \in Checks, NEW n \in DOMAIN issues[k], PersonTogglesIssue(k, n)
      PROVE TypeOK'
  <2>1. PICK st \in IssueStates :
          issues' = [issues EXCEPT ![k] = [issues[k] EXCEPT ![n] = st]]
    BY <1>1, <1>3 DEF PersonTogglesIssue, WorldTypeOK, IssueStates
  <2>2. /\ [issues[k] EXCEPT ![n] = st] \in Seq(IssueStates)
        /\ DOMAIN [issues[k] EXCEPT ![n] = st] = DOMAIN issues[k]
    BY <1>1 DEF WorldTypeOK
  <2>3. WorldTypeOK'
    BY <1>1, <1>3, <2>1, <2>2 DEF PersonTogglesIssue, WorldTypeOK
  <2>4. InHandOK'
    BY <1>1, <1>3, <2>1, <2>2 DEF PersonTogglesIssue, WorldTypeOK, InHandOK
  <2>5. DatabaseTypeOK' /\ SweeperTypeOK' /\ RerunTypeOK'
    BY <1>1, <1>3 DEF PersonTogglesIssue, DatabaseTypeOK, SweeperTypeOK, RerunTypeOK
  <2> QED BY <1>1, <1>3, <2>3, <2>4, <2>5, EventBound DEF PersonTogglesIssue, TypeOK
<1>4. ASSUME NEW r \in Repos, ToggleArchived(r) PROVE TypeOK'
  <2>1. WorldTypeOK'
    BY <1>1, <1>4 DEF ToggleArchived, WorldTypeOK
  <2>2. DatabaseTypeOK' /\ SweeperTypeOK' /\ InHandOK' /\ RerunTypeOK'
    BY <1>1, <1>4 DEF ToggleArchived, DatabaseTypeOK, SweeperTypeOK, InHandOK, RerunTypeOK
  <2> QED BY <1>1, <1>4, <2>1, <2>2, EventBound DEF ToggleArchived, TypeOK
<1>5. ASSUME NEW r \in Repos, NEW t \in Types, Reclassify(r, t) PROVE TypeOK'
  <2>1. WorldTypeOK'
    BY <1>1, <1>5 DEF Reclassify, WorldTypeOK
  <2>2. DatabaseTypeOK' /\ SweeperTypeOK' /\ InHandOK' /\ RerunTypeOK'
    BY <1>1, <1>5 DEF Reclassify, DatabaseTypeOK, SweeperTypeOK, InHandOK, RerunTypeOK
  <2> QED BY <1>1, <1>5, <2>1, <2>2, EventBound DEF Reclassify, TypeOK
<1>6. CASE Crash
  <2>1. NoRequest \in Request /\ NoRequest.pc # "save"
    BY DEF NoRequest, Request
  <2>2. RerunTypeOK'
    BY <1>6, <2>1 DEF Crash, RerunTypeOK
  <2>3. SweeperTypeOK' /\ InHandOK'
    BY <1>6, SweepForgottenType DEF Crash
  <2>4. WorldTypeOK' /\ DatabaseTypeOK'
    BY <1>1, <1>6 DEF Crash, WorldTypeOK, DatabaseTypeOK
  <2> QED BY <1>1, <1>6, <2>2, <2>3, <2>4, FaultBound DEF Crash, TypeOK
<1> QED BY <1>2, <1>3, <1>4, <1>5, <1>6 DEF WorldStep

\* So does a step that changes nothing.
LEMMA TypeStutter == TypeOK /\ UNCHANGED vars => TypeOK'
  BY DEF vars, world, database, sweeper, TypeOK, WorldTypeOK, DatabaseTypeOK,
         SweeperTypeOK, InHandOK, RerunTypeOK, BoundsOK

\* Every variable keeps its type in every behaviour of the specification.
THEOREM TypeCorrect == Spec => []TypeOK
<1>1. TypeOK /\ [Next]_vars => TypeOK'
  BY TypeSweep, TypeRerun, TypeWorld, TypeStutter DEF Next
<1> QED BY TypeInit, <1>1, PTL DEF Spec

-----------------------------------------------------------------------------
(* At most one issue stands open.                                          *)

\* The inductive invariant of AtMostOneOpenIssue.
IssueInv == AtMostOneOpenIssue /\ CreatesAlone

\* Raising an issue for a check that has none open leaves it with one.
LEMMA RaiseKeepsOne ==
  ASSUME TypeOK, AtMostOneOpenIssue, CreatesAlone, pc = "create", Raised
  PROVE  AtMostOneOpenIssue'
<1>1. cur \in Checks /\ issues \in [Checks -> Seq(IssueStates)]
  BY DEF TypeOK, InHandOK, WorldTypeOK
<1>2. \A n \in DOMAIN issues[cur] : issues[cur][n] # "open"
  BY DEF CreatesAlone
<1>3. SUFFICES ASSUME NEW k \in Checks, NEW m \in DOMAIN issues'[k],
                      NEW n \in DOMAIN issues'[k],
                      issues'[k][m] = "open", issues'[k][n] = "open"
               PROVE  m = n
  BY DEF AtMostOneOpenIssue
<1>4. CASE k # cur
  BY <1>1, <1>3, <1>4 DEF Raised, AtMostOneOpenIssue
<1>5. CASE k = cur
  <2>1. issues[k] \in Seq(IssueStates) /\ issues'[k] = Append(issues[k], "open")
    BY <1>1, <1>5 DEF Raised
  <2>2. \A j \in DOMAIN issues'[k] :
          issues'[k][j] = "open" => j = Len(issues[k]) + 1
    BY <1>2, <1>5, <2>1
  <2> QED BY <1>3, <2>2
<1> QED BY <1>4, <1>5

\* Closing an issue, or reopening it by hand, adds no open one.
LEMMA ToggleKeepsOne ==
  ASSUME TypeOK, AtMostOneOpenIssue, NEW k \in Checks, NEW n \in DOMAIN issues[k],
         NEW st \in {"closed", "reopened"},
         issues' = [issues EXCEPT ![k] = [@ EXCEPT ![n] = st]]
  PROVE  AtMostOneOpenIssue'
<1>1. issues \in [Checks -> Seq(IssueStates)]
  BY DEF TypeOK, WorldTypeOK
<1>2. \A j \in Checks : DOMAIN issues'[j] = DOMAIN issues[j]
  BY <1>1
<1>3. \A j \in Checks : \A m \in DOMAIN issues[j] :
        issues'[j][m] = "open" => issues[j][m] = "open"
  BY <1>1
<1> QED BY <1>2, <1>3 DEF AtMostOneOpenIssue

\* No step leaves two issues of a check open as the audit raised them: only
\* createIssue adds one, and CreatesAlone says that none was open before.
LEMMA IssueStep == TypeOK /\ IssueInv /\ [Next]_vars => IssueInv'
<1> SUFFICES ASSUME TypeOK, IssueInv, [Next]_vars PROVE IssueInv'
  OBVIOUS
<1>1. AtMostOneOpenIssue /\ CreatesAlone
  BY DEF IssueInv
<1>2. ASSUME UNCHANGED issues, pc' # "create" \/ UNCHANGED <<pc, cur>> PROVE IssueInv'
  BY <1>1, <1>2 DEF IssueInv, AtMostOneOpenIssue, CreatesAlone
<1>3. CASE CreateIssue \/ CreateIssueFails
  <2>1. pc = "create" /\ pc' = "save" /\ (Raised \/ UNCHANGED issues)
    BY <1>3 DEF CreateIssue, CreateIssueFails, ProceedToSave
  <2>2. AtMostOneOpenIssue'
    BY <1>1, <2>1, RaiseKeepsOne DEF AtMostOneOpenIssue
  <2> QED BY <2>1, <2>2 DEF IssueInv, CreatesAlone
<1>4. CASE CloseIssue \/ CloseIssueFails
  <2>1. pc' = "save" /\ (Closed(issue) \/ UNCHANGED issues)
        /\ cur \in Checks /\ issue \in DOMAIN issues[cur]
    BY <1>4 DEF CloseIssue, CloseIssueFails, ProceedToSave, TypeOK, InHandOK
  <2>2. AtMostOneOpenIssue'
    BY <1>1, <2>1, ToggleKeepsOne DEF AtMostOneOpenIssue, Closed
  <2> QED BY <2>1, <2>2 DEF IssueInv, CreatesAlone
<1>5. ASSUME NEW k \in Checks, NEW n \in DOMAIN issues[k], PersonTogglesIssue(k, n)
      PROVE  IssueInv'
  <2>1. PICK st \in {"closed", "reopened"} :
          issues' = [issues EXCEPT ![k] = [@ EXCEPT ![n] = st]]
    BY <1>5 DEF PersonTogglesIssue, TypeOK, WorldTypeOK
  <2>2. AtMostOneOpenIssue'
    BY <1>1, <2>1, ToggleKeepsOne
  <2>3. CreatesAlone'
    BY <1>1, <1>5, <2>1 DEF CreatesAlone, PersonTogglesIssue, sweeper, TypeOK, WorldTypeOK,
                            InHandOK
  <2> QED BY <2>2, <2>3 DEF IssueInv
<1>6. CASE FindOpenIssue
  <2>1. pc' = "create" => OpenIssues(cur) = {} /\ UNCHANGED <<cur, issues>>
    BY <1>6 DEF FindOpenIssue, ProceedToSave
  <2>2. CreatesAlone'
    BY <2>1 DEF CreatesAlone, OpenIssues
  <2> QED BY <1>1, <1>6, <2>2 DEF IssueInv, AtMostOneOpenIssue, FindOpenIssue
<1>7. CASE SweepStep /\ ~(CreateIssue \/ CreateIssueFails \/ CloseIssue \/ CloseIssueFails
                          \/ FindOpenIssue)
  BY <1>2, <1>7, ZenonT(60) DEF SweepStep, StartSweep, FetchRepos, FetchTypes, AbortSweep, BeginRepo,
       BeginRepoFails, CheckDecides, CheckUndecided, EndBatch, EndLoop, FindOpenIssueFails,
       FindIssueToClose, FindIssueToCloseFails, SaveResult, SaveResultFails, EndIncomplete,
       CleanUp, CleanUpFails, EndComplete, SweepForgotten, ProceedToSave, ResultProcessed
<1>8. CASE RerunStep
  BY <1>2, <1>8 DEF RerunStep, RerunBegins, RerunTypes, RerunCheck, RerunCheckUndecided,
       RerunSave, RerunEnds, sweeper
<1>9. ASSUME \/ \E k \in Checks : Flip(k)
             \/ \E r \in Repos : ToggleArchived(r) \/ \E t \in Types : Reclassify(r, t)
             \/ Crash
             \/ UNCHANGED vars
      PROVE  IssueInv'
  BY <1>2, <1>9 DEF Flip, ToggleArchived, Reclassify, Crash, SweepForgotten, vars, sweeper
<1> QED BY <1>3, <1>4, <1>5, <1>6, <1>7, <1>8, <1>9 DEF Next, WorldStep

\* For any number of repositories, conventions, rerun requests, crashes and lost
\* replies, the audit never has two issues of its own open for one check.
THEOREM OneOpenIssue == Spec => []AtMostOneOpenIssue
<1>1. Init => IssueInv
  BY DEF Init, SweepAtRest, IssueInv, AtMostOneOpenIssue, CreatesAlone
<1>2. TypeOK /\ IssueInv /\ [Next]_vars => IssueInv'
  BY IssueStep
<1>3. IssueInv => AtMostOneOpenIssue
  BY DEF IssueInv
<1> QED BY TypeCorrect, <1>1, <1>2, <1>3, PTL DEF Spec

-----------------------------------------------------------------------------
(* Failed calls never turn into verdicts.                                  *)

\* The inductive invariant of NoFalseVerdict.
VerdictInv == NoFalseVerdict /\ ResultsInHandTrue

\* No step records or raises what a check did not find: results on their way to
\* the table are true, unless the check flipped meanwhile.
LEMMA VerdictStep == TypeOK /\ VerdictInv /\ [Next]_vars => VerdictInv'
<1> SUFFICES ASSUME TypeOK, VerdictInv, [Next]_vars PROVE VerdictInv'
  OBVIOUS
<1>1. /\ NoFalseVerdict /\ ResultsInHandTrue
      /\ WorldTypeOK /\ DatabaseTypeOK /\ SweeperTypeOK /\ InHandOK /\ RerunTypeOK
  BY DEF VerdictInv, TypeOK
<1> USE DEF world, database, sweeper
<1>2. ASSUME UNCHANGED <<compliant, flipped, issues, findings>>
      PROVE  NoFalseVerdict'
  BY <1>1, <1>2 DEF NoFalseVerdict
<1>3. ASSUME UNCHANGED <<compliant, flipped, rerun>>,
             \/ pc' \notin {"ensure", "create", "save", "unneeded"}
             \/ /\ UNCHANGED <<cur, verdict>>
                /\ pc \in {"ensure", "create", "save", "unneeded"}
                /\ pc' \in {"ensure", "create"} => pc \in {"ensure", "create"}
      PROVE  ResultsInHandTrue'
  BY <1>1, <1>3 DEF ResultsInHandTrue
<1>4. ASSUME NEW k \in Checks, NEW pass \in BOOLEAN, NEW url \in Nat,
             k \notin flipped => pass = (k \in compliant),
             SaveFinding(k, pass, url), UNCHANGED <<compliant, flipped, issues>>
      PROVE  NoFalseVerdict'
  BY <1>1, <1>4 DEF NoFalseVerdict, SaveFinding
<1>5. ASSUME NEW k \in Checks, k \notin flipped => k \notin compliant,
             \A j \in Checks \ {k} : issues'[j] = issues[j],
             UNCHANGED <<compliant, flipped, findings>>
      PROVE  NoFalseVerdict'
  BY <1>1, <1>5 DEF NoFalseVerdict
<1>6. CASE StartSweep
  <2>1. NoFalseVerdict'
    BY <1>1, <1>6 DEF StartSweep, NoFalseVerdict, DatabaseTypeOK, Row
  <2>2. ResultsInHandTrue'
    BY <1>3, <1>6 DEF StartSweep
  <2> QED BY <2>1, <2>2 DEF VerdictInv
<1>7. ASSUME NEW k \in Checks, CheckDecides(k) PROVE VerdictInv'
  <2>1. NoFalseVerdict'
    BY <1>2, <1>7 DEF CheckDecides
  <2>2. /\ cur' = k /\ verdict' = (k \in compliant)
        /\ pc' \in {"ensure", "create"} => k \notin compliant
        /\ UNCHANGED <<compliant, flipped, rerun>>
    BY <1>7 DEF CheckDecides
  <2>3. ResultsInHandTrue'
    BY <1>1, <2>2 DEF ResultsInHandTrue
  <2> QED BY <2>1, <2>3 DEF VerdictInv
<1>8. CASE FindOpenIssue \/ FindOpenIssueFails \/ FindIssueToClose \/ FindIssueToCloseFails
  <2>1. NoFalseVerdict'
    BY <1>2, <1>8 DEF FindOpenIssue, FindOpenIssueFails, FindIssueToClose,
                      FindIssueToCloseFails
  <2>2. ResultsInHandTrue'
    BY <1>3, <1>8 DEF FindOpenIssue, FindOpenIssueFails, FindIssueToClose,
                      FindIssueToCloseFails, ProceedToSave
  <2> QED BY <2>1, <2>2 DEF VerdictInv
<1>9. CASE CreateIssue \/ CreateIssueFails
  <2>1. /\ pc = "create" /\ pc' = "save"
        /\ UNCHANGED <<compliant, flipped, findings, cur, verdict, rerun>>
        /\ Raised \/ UNCHANGED issues
    BY <1>9 DEF CreateIssue, CreateIssueFails, ProceedToSave
  <2>2. cur \in Checks /\ (cur \notin flipped => cur \notin compliant)
    BY <1>1, <2>1 DEF ResultsInHandTrue, InHandOK
  <2>3. \A j \in Checks \ {cur} : issues'[j] = issues[j]
    BY <1>1, <2>1 DEF Raised, WorldTypeOK
  <2>4. NoFalseVerdict'
    BY <1>5, <2>1, <2>2, <2>3
  <2>5. ResultsInHandTrue'
    BY <1>3, <2>1
  <2> QED BY <2>4, <2>5 DEF VerdictInv
<1>10. CASE CloseIssue \/ CloseIssueFails
  <2>1. /\ pc = "unneeded" /\ pc' = "save" /\ issue # 0
        /\ UNCHANGED <<compliant, flipped, findings, cur, verdict, rerun>>
        /\ Closed(issue) \/ UNCHANGED issues
    BY <1>10 DEF CloseIssue, CloseIssueFails, ProceedToSave
  <2>2. cur \in Checks /\ issue \in DOMAIN issues[cur] /\ issues[cur] # <<>>
    BY <1>1, <2>1 DEF InHandOK, WorldTypeOK
  <2>3. cur \notin flipped => cur \notin compliant
    BY <1>1, <2>2 DEF NoFalseVerdict
  <2>4. \A j \in Checks \ {cur} : issues'[j] = issues[j]
    BY <1>1, <2>1 DEF Closed, WorldTypeOK
  <2>5. NoFalseVerdict'
    BY <1>5, <2>1, <2>2, <2>3, <2>4
  <2>6. ResultsInHandTrue'
    BY <1>3, <2>1
  <2> QED BY <2>5, <2>6 DEF VerdictInv
<1>11. CASE SaveResult
  <2>1. cur \in Checks /\ verdict \in BOOLEAN /\ issue \in Nat
        /\ (cur \notin flipped => verdict = (cur \in compliant))
    BY <1>1, <1>11 DEF SaveResult, InHandOK, SweeperTypeOK, ResultsInHandTrue
  <2>2. NoFalseVerdict'
    BY <1>4, <1>11, <2>1 DEF SaveResult
  <2>3. ResultsInHandTrue'
    BY <1>3, <1>11 DEF SaveResult, ResultProcessed
  <2> QED BY <2>2, <2>3 DEF VerdictInv
<1>12. CASE CleanUp
  <2>1. NoFalseVerdict'
    BY <1>1, <1>12 DEF CleanUp, DeleteStaleFindings, NoFalseVerdict
  <2>2. ResultsInHandTrue'
    BY <1>3, <1>12 DEF CleanUp
  <2> QED BY <2>1, <2>2 DEF VerdictInv
<1>13. CASE \/ FetchRepos \/ FetchTypes \/ AbortSweep \/ EndBatch \/ EndLoop
            \/ SaveResultFails \/ EndIncomplete \/ CleanUpFails \/ EndComplete
            \/ \E r \in Repos : BeginRepo(r) \/ BeginRepoFails(r)
            \/ \E k \in Checks : CheckUndecided(k)
  <2>1. UNCHANGED <<compliant, flipped, issues, findings, rerun>>
        /\ pc' \notin {"ensure", "create", "save", "unneeded"}
    BY <1>13 DEF FetchRepos, FetchTypes, AbortSweep, EndBatch, EndLoop, SaveResultFails,
         EndIncomplete, CleanUpFails, EndComplete, BeginRepo, BeginRepoFails,
         CheckUndecided, SweepForgotten, ResultProcessed
  <2> QED BY <1>2, <1>3, <2>1 DEF VerdictInv
<1>14. ASSUME NEW h \in Handlers, RerunSave(h) PROVE VerdictInv'
  <2>1. /\ rerun[h].cur \in Checks /\ rerun[h].pass \in BOOLEAN /\ RerunUrl(h) \in Nat
        /\ rerun[h].cur \notin flipped => rerun[h].pass = (rerun[h].cur \in compliant)
    BY <1>1, <1>14 DEF RerunSave, RerunUrl, RerunTypeOK, Request, ResultsInHandTrue
  <2>2. NoFalseVerdict'
    BY <1>2, <1>4, <1>14, <2>1 DEF RerunSave
  <2>3. \A g \in Handlers : rerun'[g].pc = "save" => rerun'[g] = rerun[g]
    BY <1>1, <1>14 DEF RerunSave, RerunTypeOK, Request
  <2>4. UNCHANGED <<pc, cur, verdict, compliant, flipped>>
    BY <1>14 DEF RerunSave
  <2>5. ResultsInHandTrue'
    BY <1>1, <2>3, <2>4 DEF ResultsInHandTrue
  <2> QED BY <2>2, <2>5 DEF VerdictInv
<1>15. ASSUME NEW h \in Handlers, NEW k \in Checks, RerunCheck(h, k) PROVE VerdictInv'
  <2>1. NoFalseVerdict'
    BY <1>2, <1>15 DEF RerunCheck
  <2>2. /\ \A g \in Handlers \ {h} : rerun'[g] = rerun[g]
        /\ rerun'[h].cur = k /\ rerun'[h].pass = (k \in compliant)
    BY <1>1, <1>15 DEF RerunCheck, RerunTypeOK, Request
  <2>3. UNCHANGED <<pc, cur, verdict, compliant, flipped>>
    BY <1>15 DEF RerunCheck
  <2>4. \A g \in Handlers : rerun'[g].pc = "save" /\ rerun'[g].cur \notin flipped =>
          rerun'[g].pass = (rerun'[g].cur \in compliant)
    BY <1>1, <2>2 DEF ResultsInHandTrue
  <2>5. ResultsInHandTrue'
    BY <1>1, <2>3, <2>4 DEF ResultsInHandTrue
  <2> QED BY <2>1, <2>5 DEF VerdictInv
<1>16. ASSUME NEW h \in Handlers,
              \/ \E wanted \in RerunRequests : RerunBegins(h, wanted)
              \/ RerunTypes(h) \/ RerunEnds(h)
              \/ \E k \in Checks : RerunCheckUndecided(h, k)
       PROVE  VerdictInv'
  <2>1. NoFalseVerdict'
    BY <1>2, <1>16 DEF RerunBegins, RerunTypes, RerunEnds, RerunCheckUndecided
  <2>2. \A g \in Handlers : rerun'[g].pc = "save" => rerun'[g] = rerun[g]
    BY <1>1, <1>16 DEF RerunBegins, RerunTypes, RerunEnds, RerunCheckUndecided,
                       NoRequest, RerunTypeOK, Request
  <2>3. UNCHANGED <<pc, cur, verdict, compliant, flipped>>
    BY <1>16 DEF RerunBegins, RerunTypes, RerunEnds, RerunCheckUndecided
  <2>4. ResultsInHandTrue'
    BY <1>1, <2>2, <2>3 DEF ResultsInHandTrue
  <2> QED BY <2>1, <2>4 DEF VerdictInv
<1>17. ASSUME NEW k \in Checks, Flip(k) PROVE VerdictInv'
  <2>1. /\ flipped' = flipped \cup {k} /\ UNCHANGED <<issues, findings, sweeper, rerun>>
        /\ \A j \in Checks \ {k} : (j \in compliant') = (j \in compliant)
    BY <1>17 DEF Flip
  <2>2. NoFalseVerdict'
    BY <1>1, <2>1 DEF NoFalseVerdict
  <2>3. ResultsInHandTrue'
    BY <1>1, <2>1 DEF ResultsInHandTrue, InHandOK, RerunTypeOK
  <2> QED BY <2>2, <2>3 DEF VerdictInv
<1>18. ASSUME NEW k \in Checks, NEW n \in DOMAIN issues[k], PersonTogglesIssue(k, n)
       PROVE  VerdictInv'
  <2>1. issues[k] # <<>> /\ \A j \in Checks \ {k} : issues'[j] = issues[j]
    BY <1>1, <1>18 DEF PersonTogglesIssue, WorldTypeOK
  <2>2. k \notin flipped => k \notin compliant
    BY <1>1, <2>1 DEF NoFalseVerdict
  <2>3. NoFalseVerdict'
    BY <1>5, <1>18, <2>1, <2>2 DEF PersonTogglesIssue
  <2>4. ResultsInHandTrue'
    BY <1>1, <1>18 DEF PersonTogglesIssue, ResultsInHandTrue
  <2> QED BY <2>3, <2>4 DEF VerdictInv
<1>19. ASSUME \/ \E r \in Repos : ToggleArchived(r) \/ \E t \in Types : Reclassify(r, t)
              \/ UNCHANGED vars
       PROVE  VerdictInv'
  BY <1>1, <1>19 DEF ToggleArchived, Reclassify, vars, VerdictInv, NoFalseVerdict,
                     ResultsInHandTrue
<1>20. CASE Crash
  BY <1>2, <1>20 DEF Crash, SweepForgotten, NoRequest, VerdictInv, ResultsInHandTrue
<1> QED BY <1>6, <1>7, <1>8, <1>9, <1>10, <1>11, <1>12, <1>13, <1>14, <1>15, <1>16, <1>17,
           <1>18, <1>19, <1>20 DEF Next, SweepStep, RerunStep, WorldStep

\* No sequence of failed calls, crashes and reruns makes the audit report, or
\* raise an issue about, something that was never so.
THEOREM VerdictsTrue == Spec => []NoFalseVerdict
<1>1. Init => VerdictInv
  BY DEF Init, SweepAtRest, VerdictInv, NoFalseVerdict, ResultsInHandTrue, NoRequest
<1>2. TypeOK /\ VerdictInv /\ [Next]_vars => VerdictInv'
  BY VerdictStep
<1>3. VerdictInv => NoFalseVerdict
  BY DEF VerdictInv
<1> QED BY TypeCorrect, <1>1, <1>2, <1>3, PTL DEF Spec

-----------------------------------------------------------------------------
(* Nothing in scope is deleted, as long as database writes succeed.        *)

\* The inductive invariant of NoCheckForgotten.
ScopeInv == SweepShape /\ NoCheckForgotten

\* Steps of other actors, and of the sweep while it processes one result.
LEMMA ScopeBystander ==
  ASSUME ScopeInv, UNCHANGED <<pc, listed, seenType, todo, batch, pending, tail, skipped, cur>>,
         \A k \in DOMAIN findings : k \in DOMAIN findings' /\
           (findings[k].fresh => findings'[k].fresh)
  PROVE  ScopeInv'
<1>1. Scope' = Scope /\ Unsettled' = Unsettled
  BY DEF Scope, InScope, Unsettled
<1>2. SweepShape'
  BY DEF ScopeInv, SweepShape
<1>3. NoCheckForgotten'
  BY <1>1 DEF ScopeInv, NoCheckForgotten
<1> QED BY <1>2, <1>3 DEF ScopeInv

\* SaveFinding makes one row fresh and leaves the others as they are.
LEMMA SaveFindingFresh ==
  ASSUME NEW k, NEW pass, NEW url, SaveFinding(k, pass, url)
  PROVE  /\ k \in DOMAIN findings' /\ findings'[k].fresh
         /\ \A j \in DOMAIN findings : j \in DOMAIN findings' /\
              (findings[j].fresh => findings'[j].fresh)
  BY DEF SaveFinding

\* Every step of the sweep accounts for the checks that it takes off its lists.
LEMMA ScopeSweep == ~DbWritesFail /\ TypeOK /\ ScopeInv /\ SweepStep => ScopeInv'
<1> SUFFICES ASSUME ~DbWritesFail, TypeOK, ScopeInv, SweepStep PROVE ScopeInv'
  OBVIOUS
<1>1. SweepShape /\ NoCheckForgotten
  BY DEF ScopeInv
<1> USE DEF world, database
<1>2. CASE StartSweep \/ FetchRepos
  BY <1>1, <1>2 DEF StartSweep, FetchRepos, ScopeInv, SweepShape, NoCheckForgotten
<1>3. CASE FetchTypes
  <2>1. SweepShape'
    BY <1>1, <1>3 DEF FetchTypes, SweepShape
  <2>2. \A k \in Scope' : k \in Unsettled'
    BY <1>1, <1>3, <2>1 DEF FetchTypes, SweepShape, Scope, InScope, Unsettled
  <2> QED BY <2>1, <2>2 DEF ScopeInv, NoCheckForgotten
<1>4. CASE AbortSweep \/ EndIncomplete \/ EndComplete
  BY <1>4 DEF AbortSweep, EndIncomplete, EndComplete, SweepForgotten, ScopeInv, SweepShape,
              NoCheckForgotten
<1>5. ASSUME pc \notin {"idle", "listing", "typing"},
             UNCHANGED <<listed, seenType, findings>>,
             skipped => skipped',
             ~skipped' => \A k \in Scope : k \in Unsettled => k \in Unsettled'
      PROVE  NoCheckForgotten'
  <2>1. Scope' = Scope
    BY <1>5 DEF Scope, InScope
  <2> QED BY <1>1, <1>5, <2>1 DEF NoCheckForgotten
<1>6. ASSUME NEW r \in Repos, BeginRepo(r) PROVE ScopeInv'
  <2>1. SweepShape'
    BY <1>1, <1>6 DEF BeginRepo, SweepShape
  <2>2. \A k \in Scope : k \in Unsettled => k \in Unsettled'
    BY <1>1, <1>6 DEF BeginRepo, SweepShape, Unsettled, Scope, InScope
  <2> QED BY <1>5, <1>6, <2>1, <2>2 DEF BeginRepo, ScopeInv
<1>7. ASSUME NEW k \in Checks, CheckDecides(k) PROVE ScopeInv'
  <2>1. SweepShape'
    BY <1>1, <1>7 DEF CheckDecides, SweepShape
  <2>2. NoPair \notin Checks /\ Scope \subseteq Checks
    BY ConstantsAssumption DEF Scope, InScope
  <2>3. cur = NoPair /\ cur' = k /\ batch' = batch \ {k}
        /\ UNCHANGED <<todo, pending, listed, seenType, findings, skipped>>
    BY <1>1, <1>7 DEF CheckDecides, SweepShape
  <2>4. \A j \in Scope : j \in Unsettled => j \in Unsettled'
    BY <2>2, <2>3 DEF Unsettled, Scope, InScope
  <2> QED BY <1>5, <1>7, <2>1, <2>3, <2>4 DEF CheckDecides, ScopeInv
<1>8. ASSUME NEW k \in Checks, CheckUndecided(k) PROVE ScopeInv'
  <2>1. SweepShape'
    BY <1>1, <1>8 DEF CheckUndecided, SweepShape
  <2>2. CASE tail
    <3>1. skipped'
      BY <1>8, <2>2 DEF CheckUndecided
    <3> QED BY <2>1, <3>1 DEF ScopeInv, NoCheckForgotten
  <2>3. CASE ~tail
    <3>1. pending' = pending \cup {k} /\ batch' = batch \ {k}
          /\ UNCHANGED <<todo, cur, listed, seenType, findings>>
      BY <1>8, <2>3 DEF CheckUndecided
    <3>2. skipped => skipped'
      BY <1>8 DEF CheckUndecided
    <3>3. \A j \in Scope : j \in Unsettled => j \in Unsettled'
      BY <3>1 DEF Unsettled, Scope, InScope
    <3>4. NoCheckForgotten'
      BY <1>5, <1>8, <3>1, <3>2, <3>3 DEF CheckUndecided
    <3> QED BY <2>1, <3>4 DEF ScopeInv
  <2> QED BY <2>2, <2>3
<1>9. CASE EndBatch \/ EndLoop
  <2>1. SweepShape'
    BY <1>1, <1>9 DEF EndBatch, EndLoop, SweepShape
  <2>2. \A k \in Scope : k \in Unsettled => k \in Unsettled'
    BY <1>1, <1>9 DEF EndBatch, EndLoop, SweepShape, Unsettled, Scope, InScope
  <2> QED BY <1>5, <1>9, <2>1, <2>2 DEF EndBatch, EndLoop, ScopeInv
<1>10. CASE \/ FindOpenIssue \/ FindOpenIssueFails \/ CreateIssue \/ CreateIssueFails
            \/ FindIssueToClose \/ FindIssueToCloseFails \/ CloseIssue \/ CloseIssueFails
  <2>1. /\ pc \in {"ensure", "create", "unneeded"} /\ pc' \in {"create", "unneeded", "save"}
        /\ UNCHANGED <<listed, seenType, findings, todo, batch, pending, tail, cur>>
    BY <1>10 DEF FindOpenIssue, FindOpenIssueFails, CreateIssue, CreateIssueFails,
         FindIssueToClose, FindIssueToCloseFails, CloseIssue, CloseIssueFails, ProceedToSave
  <2>2. SweepShape'
    BY <1>1, <2>1 DEF SweepShape
  <2>3. \A k \in Scope : k \in Unsettled => k \in Unsettled'
    BY <2>1 DEF Unsettled, Scope, InScope
  <2>4. skipped' = skipped \/ skipped' = TRUE
    BY <1>10 DEF FindOpenIssue, FindOpenIssueFails, CreateIssue, CreateIssueFails,
         FindIssueToClose, FindIssueToCloseFails, CloseIssue, CloseIssueFails
  <2>5. skipped => skipped'
    BY <2>4
  <2> QED BY <1>5, <2>1, <2>2, <2>3, <2>5 DEF ScopeInv
<1>11. CASE SaveResult
  <2>1. /\ pc = "save" /\ pc' = "checks" /\ cur' = NoPair
        /\ UNCHANGED <<listed, seenType, todo, batch, pending, tail, skipped>>
        /\ SaveFinding(cur, verdict, issue)
    BY <1>11 DEF SaveResult, ResultProcessed
  <2>2. SweepShape'
    BY <1>1, <2>1 DEF SweepShape
  <2>3. Scope' = Scope /\ \A k \in Unsettled : k \in Unsettled' \/ k = cur
    BY <2>1 DEF Unsettled, Scope, InScope
  <2>4. NoCheckForgotten'
    BY <1>1, <2>1, <2>3, SaveFindingFresh DEF NoCheckForgotten
  <2> QED BY <2>2, <2>4 DEF ScopeInv
<1>12. CASE CleanUp
  <2>1. SweepShape'
    BY <1>1, <1>12 DEF CleanUp, SweepShape
  <2>2. Scope' = Scope /\ Unsettled' = Unsettled /\ skipped' = skipped
    BY <1>12 DEF CleanUp, Unsettled, Scope, InScope
  <2>3. NoCheckForgotten'
    BY <1>1, <1>12, <2>2 DEF CleanUp, DeleteStaleFindings, NoCheckForgotten
  <2> QED BY <2>1, <2>3 DEF ScopeInv
<1>13. CASE (\E r \in Repos : BeginRepoFails(r)) \/ SaveResultFails \/ CleanUpFails
  BY <1>13 DEF BeginRepoFails, SaveResultFails, CleanUpFails, DbFault
<1> QED BY <1>2, <1>3, <1>4, <1>6, <1>7, <1>8, <1>9, <1>10, <1>11, <1>12, <1>13 DEF SweepStep

\* So does every step: rerun requests only add fresh rows.
LEMMA ScopeStep == ~DbWritesFail /\ TypeOK /\ ScopeInv /\ [Next]_vars => ScopeInv'
<1> SUFFICES ASSUME ~DbWritesFail, TypeOK, ScopeInv, [Next]_vars PROVE ScopeInv'
  OBVIOUS
<1> USE DEF world, database, sweeper
<1>1. CASE SweepStep
  BY <1>1, ScopeSweep
<1>2. CASE RerunStep
  <2>1. PICK h \in Handlers :
          \/ \E wanted \in RerunRequests : RerunBegins(h, wanted)
          \/ RerunTypes(h) \/ RerunSave(h) \/ RerunEnds(h)
          \/ \E k \in Checks : RerunCheck(h, k) \/ RerunCheckUndecided(h, k)
    BY <1>2 DEF RerunStep
  <2>2. CASE RerunSave(h)
    BY <2>2, SaveFindingFresh, ScopeBystander DEF RerunSave
  <2>3. CASE ~RerunSave(h)
    BY <2>1, <2>3, ScopeBystander DEF RerunBegins, RerunTypes, RerunEnds, RerunCheck,
                                     RerunCheckUndecided
  <2> QED BY <2>2, <2>3
<1>3. CASE WorldStep \/ UNCHANGED vars
  BY <1>3, ScopeBystander DEF WorldStep, Flip, PersonTogglesIssue, ToggleArchived, Reclassify,
                              vars
<1>4. CASE Crash
  BY <1>4 DEF Crash, SweepForgotten, ScopeInv, SweepShape, NoCheckForgotten
<1> QED BY <1>1, <1>2, <1>3, <1>4 DEF Next

\* With a database that accepts every write, and whatever else fails, a sweep
\* settles every check of its scope before it may be called successful.
THEOREM NothingForgotten == ~DbWritesFail /\ Spec => []NoCheckForgotten
<1> SUFFICES ASSUME ~DbWritesFail PROVE Spec => []NoCheckForgotten
  OBVIOUS
<1>1. Init => ScopeInv
  BY DEF Init, SweepAtRest, ScopeInv, SweepShape, NoCheckForgotten
<1>2. TypeOK /\ ScopeInv /\ [Next]_vars => ScopeInv'
  BY ScopeStep
<1>3. ScopeInv => NoCheckForgotten
  BY DEF ScopeInv
<1> QED BY TypeCorrect, <1>1, <1>2, <1>3, PTL DEF Spec

\* Nor does its clean-up then remove a finding that is in scope.
THEOREM ScopeKept == ~DbWritesFail /\ Spec => OnlyOutOfScopeDeleted
<1> SUFFICES ASSUME ~DbWritesFail PROVE Spec => OnlyOutOfScopeDeleted
  OBVIOUS
<1> DEFINE Kept == \A k \in DOMAIN findings \ DOMAIN findings' : k \notin Scope
<1>1. Init => ScopeInv
  BY DEF Init, SweepAtRest, ScopeInv, SweepShape, NoCheckForgotten
<1>2. TypeOK /\ ScopeInv /\ [Next]_vars => ScopeInv'
  BY ScopeStep
<1>3. TypeOK /\ ScopeInv /\ [Next]_vars => [Kept]_vars
  <2> SUFFICES ASSUME TypeOK, ScopeInv, Next PROVE Kept
    OBVIOUS
  <2> USE DEF world, database, sweeper
  <2>1. CASE CleanUp
    <3>1. Unsettled = {NoPair} /\ ~skipped /\ Scope \subseteq Checks /\ NoPair \notin Checks
      BY <2>1, ConstantsAssumption DEF CleanUp, ScopeInv, SweepShape, Unsettled, Scope, InScope
    <3>2. \A k \in Scope : k \in DOMAIN findings /\ findings[k].fresh
      BY <2>1, <3>1 DEF CleanUp, ScopeInv, NoCheckForgotten
    <3> QED BY <2>1, <3>2 DEF CleanUp, DeleteStaleFindings
  <2>2. CASE SaveResult \/ \E h \in Handlers : RerunSave(h)
    BY <2>2, ZenonT(60) DEF SaveResult, RerunSave, SaveFinding
  <2>3. CASE SweepStep /\ ~CleanUp /\ ~SaveResult
    <3>1. DOMAIN findings' = DOMAIN findings
      BY <2>3 DEF SweepStep, StartSweep, FetchRepos, FetchTypes, AbortSweep, BeginRepo,
           BeginRepoFails, CheckDecides, CheckUndecided, EndBatch, EndLoop, FindOpenIssue,
           FindOpenIssueFails, CreateIssue, CreateIssueFails, FindIssueToClose,
           FindIssueToCloseFails, CloseIssue, CloseIssueFails, SaveResultFails,
           EndIncomplete, CleanUpFails, EndComplete
    <3> QED BY <3>1
  <2>4. CASE (RerunStep /\ ~\E h \in Handlers : RerunSave(h)) \/ WorldStep \/ Crash
    BY <2>4 DEF RerunStep, RerunBegins, RerunTypes, RerunCheck, RerunCheckUndecided, RerunEnds,
                WorldStep, Flip, PersonTogglesIssue, ToggleArchived, Reclassify, Crash
  <2> QED BY <2>1, <2>2, <2>3, <2>4 DEF Next
<1> QED BY TypeCorrect, <1>1, <1>2, <1>3, PTL DEF Spec, OnlyOutOfScopeDeleted

-----------------------------------------------------------------------------
(* Every finding has its repository.                                       *)

\* The inductive invariant of FindingsHaveRepo.
RepoInv == FindingsHaveRepo /\ WorkHasRepo

\* No step writes a finding for a repository without a row in the repos table.
LEMMA RepoStep == TypeOK /\ RepoInv /\ [Next]_vars => RepoInv'
<1> SUFFICES ASSUME TypeOK, RepoInv, [Next]_vars PROVE RepoInv'
  OBVIOUS
<1>1. /\ FindingsHaveRepo /\ WorkHasRepo
      /\ WorldTypeOK /\ DatabaseTypeOK /\ SweeperTypeOK /\ InHandOK /\ RerunTypeOK
  BY DEF RepoInv, TypeOK
<1> USE DEF world, database, sweeper
\* Whatever the sweep's lists become, they keep to checks of known repositories.
<1>2. ASSUME UNCHANGED <<dbType, rerun>>,
             batch' \cup pending' \cup ({cur'} \ {NoPair})
               \subseteq batch \cup pending \cup ({cur} \ {NoPair}),
             pc' \in {"idle", "listing", "typing"} \/
               (pc \notin {"idle", "listing", "typing"} /\ UNCHANGED seenType)
      PROVE  WorkHasRepo'
  BY <1>1, <1>2 DEF WorkHasRepo
<1>3. ASSUME UNCHANGED dbType, DOMAIN findings' \subseteq DOMAIN findings
      PROVE  FindingsHaveRepo'
  BY <1>1, <1>3 DEF FindingsHaveRepo
<1>4. ASSUME UNCHANGED <<dbType, pc, seenType, batch, pending, cur>>,
             \A h \in Handlers :
               rerun'[h].todo \cup ({rerun'[h].cur} \ {NoPair})
                 \subseteq {k \in Checks : dbType[k[1]] # NoType}
      PROVE  WorkHasRepo'
  BY <1>1, <1>4 DEF WorkHasRepo
<1>5. CASE StartSweep \/ FetchRepos \/ EndBatch \/ EndLoop \/ CleanUp \/ CleanUpFails
           \/ SaveResultFails \/ AbortSweep \/ EndIncomplete \/ EndComplete
  <2>1. UNCHANGED dbType /\ DOMAIN findings' \subseteq DOMAIN findings
    BY <1>5 DEF StartSweep, FetchRepos, EndBatch, EndLoop, CleanUp, CleanUpFails,
         SaveResultFails, AbortSweep, EndIncomplete, EndComplete, DeleteStaleFindings
  <2>2. WorkHasRepo'
    BY <1>2, <1>5 DEF StartSweep, FetchRepos, EndBatch, EndLoop, CleanUp, CleanUpFails,
         SaveResultFails, AbortSweep, EndIncomplete, EndComplete, SweepForgotten,
         ResultProcessed
  <2> QED BY <1>3, <2>1, <2>2 DEF RepoInv
<1>6. CASE FetchTypes
  <2>1. FindingsHaveRepo'
    BY <1>3, <1>6 DEF FetchTypes
  <2>2. WorkHasRepo'
    BY <1>1, <1>6 DEF FetchTypes, WorkHasRepo, WorldTypeOK
  <2> QED BY <2>1, <2>2 DEF RepoInv
<1>7. ASSUME NEW r \in Repos, BeginRepo(r) PROVE RepoInv'
  <2>1. seenType \in [Repos -> Types] /\ seenType[r] # NoType
    BY <1>1, <1>7, ConstantsAssumption DEF BeginRepo, WorkHasRepo
  <2>2. \A q \in Repos : dbType[q] # NoType => dbType'[q] # NoType
    BY <1>1, <1>7, <2>1 DEF BeginRepo, DatabaseTypeOK
  <2>3. dbType'[r] # NoType
    BY <1>1, <1>7, <2>1 DEF BeginRepo, DatabaseTypeOK
  <2>4. FindingsHaveRepo'
    BY <1>1, <1>7, <2>2 DEF BeginRepo, FindingsHaveRepo, DatabaseTypeOK, Checks
  <2>5. \A k \in batch' \cup pending' \cup ({cur'} \ {NoPair}) : dbType'[k[1]] # NoType
    BY <1>1, <1>7, <2>2, <2>3 DEF BeginRepo, WorkHasRepo, SweeperTypeOK, Checks
  <2>6. \A h \in Handlers : \A k \in rerun'[h].todo \cup ({rerun'[h].cur} \ {NoPair}) :
          dbType'[k[1]] # NoType
    BY <1>1, <1>7, <2>2 DEF BeginRepo, WorkHasRepo, RerunTypeOK, Request, Checks
  <2>7. seenType' = seenType
    BY <1>7 DEF BeginRepo
  <2> QED BY <2>1, <2>4, <2>5, <2>6, <2>7 DEF RepoInv, WorkHasRepo
<1>8. CASE \/ FindOpenIssue \/ FindOpenIssueFails \/ CreateIssue \/ CreateIssueFails
           \/ FindIssueToClose \/ FindIssueToCloseFails \/ CloseIssue \/ CloseIssueFails
           \/ (\E r \in Repos : BeginRepoFails(r))
           \/ (\E k \in Checks : CheckDecides(k) \/ CheckUndecided(k))
  <2>1. UNCHANGED <<database, rerun, seenType>> /\ pc \notin {"idle", "listing", "typing"}
        /\ batch' \cup pending' \cup ({cur'} \ {NoPair})
               \subseteq batch \cup pending \cup ({cur} \ {NoPair})
    BY <1>8 DEF FindOpenIssue, FindOpenIssueFails, CreateIssue, CreateIssueFails,
         FindIssueToClose, FindIssueToCloseFails, CloseIssue, CloseIssueFails,
         BeginRepoFails, CheckDecides, CheckUndecided
  <2> QED BY <1>2, <1>3, <2>1 DEF RepoInv
<1>9. CASE SaveResult
  <2>1. dbType[cur[1]] # NoType
    BY <1>1, <1>9, ConstantsAssumption DEF SaveResult, WorkHasRepo, InHandOK
  <2>2. FindingsHaveRepo'
    BY <1>1, <1>9, <2>1 DEF SaveResult, SaveFinding, FindingsHaveRepo
  <2>3. WorkHasRepo'
    BY <1>2, <1>9 DEF SaveResult, ResultProcessed
  <2> QED BY <2>2, <2>3 DEF RepoInv
<1>10. ASSUME NEW h \in Handlers,
              \/ \E wanted \in RerunRequests : RerunBegins(h, wanted)
              \/ RerunTypes(h) \/ RerunSave(h) \/ RerunEnds(h)
              \/ \E k \in Checks : RerunCheck(h, k) \/ RerunCheckUndecided(h, k)
       PROVE  RepoInv'
  <2> DEFINE Known == {k \in Checks : dbType[k[1]] # NoType}
  <2>1. /\ \A g \in Handlers \ {h} : rerun'[g] = rerun[g]
        /\ UNCHANGED <<dbType, pc, seenType, batch, pending, cur>>
    BY <1>1, <1>10 DEF RerunBegins, RerunTypes, RerunSave, RerunEnds, RerunCheck,
                       RerunCheckUndecided, RerunTypeOK
  <2>2. \A g \in Handlers : rerun[g].todo \cup ({rerun[g].cur} \ {NoPair}) \subseteq Known
    BY <1>1 DEF WorkHasRepo, RerunTypeOK, Request
  <2>3. rerun'[h].todo \cup ({rerun'[h].cur} \ {NoPair}) \subseteq Known
    <3>1. ASSUME NEW wanted \in RerunRequests, RerunBegins(h, wanted)
          PROVE  rerun'[h].todo \subseteq Known /\ rerun'[h].cur = NoPair
      <4>1. rerun'[h].todo = {k \in wanted : k[1] \in {j[1] : j \in DOMAIN findings}}
            /\ rerun'[h].cur = NoPair
        BY <1>1, <3>1 DEF RerunBegins, RerunTypeOK, ReportedRepos
      <4>2. wanted \subseteq Checks
        BY DEF RerunRequests, Checks
      <4>3. \A j \in DOMAIN findings : dbType[j[1]] # NoType
        BY <1>1 DEF FindingsHaveRepo
      <4> QED BY <4>1, <4>2, <4>3
    <3>2. CASE RerunEnds(h)
      BY <1>1, <3>2 DEF RerunEnds, NoRequest, RerunTypeOK
    <3>3. CASE \/ RerunTypes(h) \/ RerunSave(h)
               \/ \E k \in Checks : RerunCheck(h, k) \/ RerunCheckUndecided(h, k)
      <4>1. rerun'[h].todo \cup ({rerun'[h].cur} \ {NoPair})
              \subseteq rerun[h].todo \cup ({rerun[h].cur} \ {NoPair})
        <5>1. rerun[h] \in Request
          BY <1>1 DEF RerunTypeOK
        <5>2. CASE RerunTypes(h)
          BY <1>1, <5>1, <5>2 DEF RerunTypes, RerunTypeOK, Request
        <5>3. CASE RerunSave(h)
          BY <1>1, <5>1, <5>3 DEF RerunSave, RerunTypeOK, Request
        <5>4. ASSUME NEW k \in Checks, RerunCheck(h, k) PROVE rerun'[h].todo \cup ({rerun'[h].cur} \ {NoPair})
                \subseteq rerun[h].todo \cup ({rerun[h].cur} \ {NoPair})
          BY <1>1, <5>1, <5>4 DEF RerunCheck, RerunTypeOK, Request
        <5>5. ASSUME NEW k \in Checks, RerunCheckUndecided(h, k) PROVE rerun'[h].todo \cup ({rerun'[h].cur} \ {NoPair})
                \subseteq rerun[h].todo \cup ({rerun[h].cur} \ {NoPair})
          BY <1>1, <5>1, <5>5 DEF RerunCheckUndecided, RerunTypeOK, Request
        <5> QED BY <3>3, <5>2, <5>3, <5>4, <5>5
      <4> QED BY <2>2, <4>1
    <3> QED BY <1>10, <3>1, <3>2, <3>3
  <2>4. WorkHasRepo'
    BY <1>4, <2>1, <2>2, <2>3
  <2>5. FindingsHaveRepo'
    <3>1. CASE RerunSave(h)
      <4>1. dbType[rerun[h].cur[1]] # NoType
        BY <1>1, <2>2, <3>1, ConstantsAssumption DEF RerunSave, RerunTypeOK
      <4> QED BY <1>1, <3>1, <4>1 DEF RerunSave, SaveFinding, FindingsHaveRepo
    <3>2. CASE ~RerunSave(h)
      BY <1>3, <1>10, <3>2 DEF RerunBegins, RerunTypes, RerunEnds, RerunCheck,
                               RerunCheckUndecided
    <3> QED BY <3>1, <3>2
  <2> QED BY <2>4, <2>5 DEF RepoInv
<1>11. CASE WorldStep \/ UNCHANGED vars
  <2>1. UNCHANGED <<database, sweeper, rerun>>
    BY <1>11 DEF WorldStep, Flip, PersonTogglesIssue, ToggleArchived, Reclassify, vars
  <2> QED BY <1>1, <2>1 DEF RepoInv, FindingsHaveRepo, WorkHasRepo
<1>12. CASE Crash
  BY <1>1, <1>12 DEF Crash, SweepForgotten, NoRequest, RepoInv, FindingsHaveRepo, WorkHasRepo
<1> QED BY <1>5, <1>6, <1>7, <1>8, <1>9, <1>10, <1>11, <1>12
        DEF Next, SweepStep, RerunStep

\* The foreign key that SQLite is not asked to enforce holds all the same, even
\* when UpsertRepo or SaveFinding fails.
THEOREM ForeignKeyHolds == Spec => []FindingsHaveRepo
<1>1. Init => RepoInv
  BY DEF Init, SweepAtRest, RepoInv, FindingsHaveRepo, WorkHasRepo, NoRequest
<1>2. TypeOK /\ RepoInv /\ [Next]_vars => RepoInv'
  BY RepoStep
<1>3. RepoInv => FindingsHaveRepo
  BY DEF RepoInv
<1> QED BY TypeCorrect, <1>1, <1>2, <1>3, PTL DEF Spec

-----------------------------------------------------------------------------
(* A completed sweep leaves rows of its scope only, unless somebody reruns  *)
(* checks.                                                                  *)

\* What the sweep has in hand or on its lists.
Work == batch \cup pending \cup ({cur} \ {NoPair})

\* Once the types are fetched the scope stands, and the lists only shrink.
LEMMA WorkShrinks ==
  ASSUME WorkInScope, UNCHANGED <<listed, seenType>>, Work' \subseteq Work,
         pc' \notin {"idle", "listing", "typing"}
  PROVE  WorkInScope'
BY DEF WorkInScope, Work, Scope, InScope

LEMMA WorkSweep == WorkInScope /\ SweepStep => WorkInScope'
<1> SUFFICES ASSUME WorkInScope, SweepStep PROVE WorkInScope'
  OBVIOUS
<1> USE DEF world, database
<1>1. CASE StartSweep \/ FetchRepos \/ FetchTypes
  <2>1. /\ batch' = {} /\ pending' = {} /\ cur' = NoPair
        /\ pc' \in {"listing", "typing"} => seenType' = [r \in Repos |-> NoType]
        /\ pc' \in {"listing", "typing", "repos"}
    BY <1>1 DEF StartSweep, FetchRepos, FetchTypes, WorkInScope
  <2> QED BY <2>1 DEF WorkInScope
<1>2. CASE AbortSweep \/ EndIncomplete \/ EndComplete
  BY <1>2 DEF AbortSweep, EndIncomplete, EndComplete, SweepForgotten, WorkInScope
<1>3. ASSUME NEW r \in Repos, BeginRepo(r) PROVE WorkInScope'
  <2>1. /\ batch' \subseteq Scope /\ UNCHANGED <<pending, cur, listed, seenType>>
        /\ pc' = "checks"
    BY <1>3 DEF BeginRepo
  <2>2. Scope' = Scope
    BY <2>1 DEF Scope, InScope
  <2> QED BY <2>1, <2>2 DEF WorkInScope
<1>4. ASSUME NEW r \in Repos, BeginRepoFails(r) PROVE WorkInScope'
  BY <1>4, WorkShrinks DEF BeginRepoFails, Work
<1>5. ASSUME NEW k \in Checks, CheckDecides(k) PROVE WorkInScope'
  BY <1>5, WorkShrinks DEF CheckDecides, Work
<1>6. ASSUME NEW k \in Checks, CheckUndecided(k) PROVE WorkInScope'
  BY <1>6, WorkShrinks DEF CheckUndecided, Work
<1>7. CASE EndBatch \/ EndLoop
  BY <1>7, WorkShrinks DEF EndBatch, EndLoop, Work
<1>8. CASE \/ FindOpenIssue \/ FindOpenIssueFails \/ CreateIssue \/ CreateIssueFails
           \/ FindIssueToClose \/ FindIssueToCloseFails \/ CloseIssue \/ CloseIssueFails
  <2>1. /\ UNCHANGED <<listed, seenType, batch, pending, cur>>
        /\ pc' \in {"create", "unneeded", "save"}
    BY <1>8 DEF FindOpenIssue, FindOpenIssueFails, CreateIssue, CreateIssueFails,
         FindIssueToClose, FindIssueToCloseFails, CloseIssue, CloseIssueFails, ProceedToSave
  <2> QED BY <2>1, WorkShrinks DEF Work
<1>9. CASE SaveResult \/ SaveResultFails
  BY <1>9, WorkShrinks DEF SaveResult, SaveResultFails, ResultProcessed, Work
<1>10. CASE CleanUp \/ CleanUpFails
  BY <1>10, WorkShrinks DEF CleanUp, CleanUpFails, Work
<1> QED BY <1>1, <1>2, <1>3, <1>4, <1>5, <1>6, <1>7, <1>8, <1>9, <1>10 DEF SweepStep

\* Whatever happens outside the sweep leaves its lists alone, but for a crash.
LEMMA SweeperUntouched ==
  ASSUME RerunStep \/ WorldStep \/ UNCHANGED vars
  PROVE  UNCHANGED sweeper
BY DEF RerunStep, RerunBegins, RerunTypes, RerunSave, RerunEnds, RerunCheck,
       RerunCheckUndecided, WorldStep, Flip, PersonTogglesIssue, ToggleArchived,
       Reclassify, vars

LEMMA WorkStep == WorkInScope /\ [Next]_vars => WorkInScope'
<1> SUFFICES ASSUME WorkInScope, [Next]_vars PROVE WorkInScope'
  OBVIOUS
<1>1. CASE SweepStep
  BY <1>1, WorkSweep
<1>2. CASE RerunStep \/ WorldStep \/ UNCHANGED vars
  BY <1>2, SweeperUntouched DEF sweeper, WorkInScope, Scope, InScope
<1>3. CASE Crash
  BY <1>3 DEF Crash, SweepForgotten, WorkInScope
<1> QED BY <1>1, <1>2, <1>3 DEF Next

\* The sweep writes what it has in hand, and that is in its scope.
FreshInv == WorkInScope /\ FreshInScope

LEMMA FreshStep == Handlers = {} /\ TypeOK /\ FreshInv /\ [Next]_vars => FreshInv'
<1> SUFFICES ASSUME Handlers = {}, TypeOK, FreshInv, [Next]_vars PROVE FreshInScope'
  BY WorkStep DEF FreshInv
<1> USE DEF world, database
<1>1. WorkInScope /\ FreshInScope
  BY DEF FreshInv
<1>2. CASE StartSweep
  BY <1>2 DEF StartSweep, FreshInScope, TypeOK, DatabaseTypeOK, Row
<1>3. CASE FetchRepos \/ FetchTypes
  <2>1. Scope = {}
    BY <1>1, <1>3, ConstantsAssumption
    DEF FetchRepos, FetchTypes, WorkInScope, Scope, InScope, Checks
  <2>2. pc # "idle" /\ findings' = findings
    BY <1>3 DEF FetchRepos, FetchTypes
  <2> QED BY <1>1, <2>1, <2>2 DEF FreshInScope
<1>4. CASE AbortSweep \/ EndIncomplete \/ EndComplete \/ Crash
  BY <1>4 DEF AbortSweep, EndIncomplete, EndComplete, Crash, SweepForgotten, FreshInScope
<1>5. ASSUME UNCHANGED <<listed, seenType, findings>>, pc # "idle"
      PROVE  FreshInScope'
  <2>1. Scope' = Scope
    BY <1>5 DEF Scope, InScope
  <2> QED BY <1>1, <1>5, <2>1 DEF FreshInScope
<1>6. CASE \/ FindOpenIssue \/ FindOpenIssueFails \/ CreateIssue \/ CreateIssueFails
           \/ FindIssueToClose \/ FindIssueToCloseFails \/ CloseIssue \/ CloseIssueFails
           \/ EndBatch \/ EndLoop \/ SaveResultFails \/ CleanUpFails
           \/ (\E r \in Repos : BeginRepo(r) \/ BeginRepoFails(r))
           \/ (\E k \in Checks : CheckDecides(k) \/ CheckUndecided(k))
  <2>1. UNCHANGED <<listed, seenType, findings>> /\ pc # "idle"
    BY <1>6 DEF FindOpenIssue, FindOpenIssueFails, CreateIssue, CreateIssueFails,
         FindIssueToClose, FindIssueToCloseFails, CloseIssue, CloseIssueFails,
         EndBatch, EndLoop, SaveResultFails, CleanUpFails, BeginRepo, BeginRepoFails,
         CheckDecides, CheckUndecided
  <2> QED BY <1>5, <2>1
<1>7. CASE SaveResult
  <2>1. cur \in Scope
    BY <1>1, <1>7, ConstantsAssumption
    DEF SaveResult, WorkInScope, TypeOK, InHandOK
  <2>2. Scope' = Scope /\ pc # "idle"
    BY <1>7 DEF SaveResult, Scope, InScope
  <2>3. \A k \in DOMAIN findings' : k = cur \/ (k \in DOMAIN findings /\ findings'[k] = findings[k])
    BY <1>7 DEF SaveResult, SaveFinding
  <2> QED BY <1>1, <2>1, <2>2, <2>3 DEF FreshInScope
<1>8. CASE CleanUp
  <2>1. Scope' = Scope /\ pc # "idle"
    BY <1>8 DEF CleanUp, Scope, InScope
  <2>2. \A k \in DOMAIN findings' : k \in DOMAIN findings /\ findings'[k] = findings[k]
    BY <1>8 DEF CleanUp, DeleteStaleFindings
  <2> QED BY <1>1, <2>1, <2>2 DEF FreshInScope
<1>9. CASE RerunStep
  BY <1>9 DEF RerunStep
<1>10. CASE WorldStep \/ UNCHANGED vars
  <2>1. UNCHANGED <<findings, sweeper>>
    BY <1>10, SweeperUntouched
    DEF WorldStep, Flip, PersonTogglesIssue, ToggleArchived, Reclassify, vars
  <2> QED BY <1>1, <2>1 DEF sweeper, FreshInScope, Scope, InScope
<1> QED BY <1>2, <1>3, <1>4, <1>6, <1>7, <1>8, <1>9, <1>10 DEF Next, SweepStep

LEMMA WorkInit == Init => FreshInv
BY DEF Init, SweepAtRest, FreshInv, WorkInScope, FreshInScope

\* Where nobody uses the rerun endpoint, a successful sweep leaves no row of a
\* check that is out of its scope, whatever failed before it and whatever the
\* database refused.
THEOREM ScopeSurvives == Handlers = {} /\ Spec => OnlyScopeSurvives
<1> SUFFICES ASSUME Handlers = {} PROVE Spec => OnlyScopeSurvives
  OBVIOUS
<1>1. TypeOK /\ FreshInv /\ [Next]_vars => FreshInv'
  BY FreshStep
<1>2. FreshInv => [CleanUp => DOMAIN findings' \subseteq Scope]_vars
  BY DEF FreshInv, FreshInScope, CleanUp, DeleteStaleFindings
<1> QED BY TypeCorrect, WorkInit, <1>1, <1>2, PTL DEF Spec, OnlyScopeSurvives

-----------------------------------------------------------------------------
(* The sweep, the rerun handler and the database implement FindingsTable.   *)

\* What FindingsTable sees does not change when neither the table nor the scope
\* does, and the sweep stays in the same phase.
LEMMA TableStutter ==
  ASSUME UNCHANGED <<findings, listed, seenType>>, SweepSeen' = SweepSeen
  PROVE  UNCHANGED Table!vars
<1>1. Scope' = Scope
  BY DEF Scope, InScope
<1>2. TableSeen' = TableSeen /\ Recorded' = Recorded
  BY DEF TableSeen, Recorded
<1> QED BY <1>1, <1>2 DEF Table!vars

\* SaveFinding records one check anew.
LEMMA SaveRecords ==
  ASSUME NEW k, NEW pass, NEW url, SaveFinding(k, pass, url)
  PROVE  /\ DOMAIN TableSeen' = DOMAIN TableSeen \cup {k}
         /\ \A j \in DOMAIN TableSeen \ {k} : TableSeen'[j] = TableSeen[j]
         /\ Recorded' = Recorded \cup {k}
<1>1. /\ DOMAIN findings' = DOMAIN findings \cup {k}
      /\ findings'[k].fresh
      /\ \A j \in DOMAIN findings \ {k} : findings'[j] = findings[j]
  BY DEF SaveFinding
<1>2. /\ DOMAIN TableSeen = DOMAIN findings /\ DOMAIN TableSeen' = DOMAIN findings'
      /\ \A j \in DOMAIN findings :
           TableSeen[j] = [pass |-> findings[j].pass, url |-> findings[j].url]
      /\ \A j \in DOMAIN findings' :
           TableSeen'[j] = [pass |-> findings'[j].pass, url |-> findings'[j].url]
  BY DEF TableSeen
<1>3. Recorded' = Recorded \cup {k}
  BY <1>1 DEF Recorded
<1> QED BY <1>1, <1>2, <1>3

LEMMA StartImplements == TypeOK /\ WorkInScope /\ StartSweep => Table!Begin
<1> SUFFICES ASSUME TypeOK, WorkInScope, StartSweep PROVE Table!Begin
  OBVIOUS
<1>1. SweepSeen = "idle" /\ SweepSeen' = "begun"
  BY DEF StartSweep, SweepSeen
<1>2. /\ DOMAIN findings' = DOMAIN findings
      /\ \A k \in DOMAIN findings : /\ ~findings'[k].fresh
                                    /\ findings'[k].pass = findings[k].pass
                                    /\ findings'[k].url = findings[k].url
  BY DEF StartSweep, TypeOK, DatabaseTypeOK, Row
<1>3. TableSeen' = TableSeen /\ Recorded' = {}
  BY <1>2 DEF TableSeen, Recorded
<1>4. Scope' = Scope
  BY DEF StartSweep, Scope, InScope
<1> QED BY <1>1, <1>3, <1>4 DEF Table!Begin

LEMMA TypesImplement == FetchTypes => Table!SetScope
<1> SUFFICES ASSUME FetchTypes PROVE Table!SetScope
  OBVIOUS
<1>1. SweepSeen = "begun" /\ SweepSeen' = "running"
  BY DEF FetchTypes, SweepSeen
<1>2. TableSeen' = TableSeen /\ Recorded' = Recorded
  BY DEF FetchTypes, TableSeen, Recorded, database
<1>3. Scope' \in SUBSET Checks
  BY DEF Scope, InScope
<1> QED BY <1>1, <1>2, <1>3 DEF Table!SetScope

\* The scope is empty while the lists are fetched.
LEMMA FetchImplements == WorkInScope /\ FetchRepos => UNCHANGED Table!vars
<1> SUFFICES ASSUME WorkInScope, FetchRepos PROVE UNCHANGED Table!vars
  OBVIOUS
<1>1. SweepSeen' = SweepSeen
  BY DEF FetchRepos, SweepSeen
<1>2. Scope = {} /\ Scope' = {}
  BY ConstantsAssumption DEF FetchRepos, WorkInScope, Scope, InScope, Checks
<1>3. TableSeen' = TableSeen /\ Recorded' = Recorded
  BY DEF FetchRepos, TableSeen, Recorded, database
<1> QED BY <1>1, <1>2, <1>3 DEF Table!vars

\* The sweep is over, or the process has died.
LEMMA EndImplements ==
  ASSUME SweepForgotten, UNCHANGED findings, WorkInScope
  PROVE  Table!End \/ UNCHANGED Table!vars
<1>1. SweepSeen' = "idle" /\ pc' = "idle"
  BY DEF SweepForgotten, SweepSeen
<1>2. Scope' = {}
  BY ConstantsAssumption DEF SweepForgotten, Scope, InScope, Checks
<1>3. TableSeen' = TableSeen /\ Recorded' = Recorded
  BY DEF TableSeen, Recorded
<1>4. CASE pc = "idle"
  <2>1. SweepSeen = "idle"
    BY <1>4 DEF SweepSeen
  <2>2. Scope = {}
    BY <1>4, ConstantsAssumption DEF WorkInScope, Scope, InScope, Checks
  <2> QED BY <1>1, <1>2, <1>3, <2>1, <2>2 DEF Table!vars
<1>5. CASE pc # "idle"
  <2>1. SweepSeen # "idle"
    BY <1>5 DEF SweepSeen
  <2> QED BY <1>1, <1>2, <1>3, <2>1 DEF Table!End
<1> QED BY <1>4, <1>5

\* The clean-up comes when every check of the scope has been recorded.
LEMMA CleanUpImplements == ScopeInv /\ CleanUp => Table!Complete
<1> SUFFICES ASSUME ScopeInv, CleanUp PROVE Table!Complete
  OBVIOUS
<1>1. SweepSeen = "running" /\ SweepSeen' = "done"
  BY DEF CleanUp, SweepSeen
<1>2. Unsettled = {NoPair} /\ ~skipped /\ Scope \subseteq Checks /\ NoPair \notin Checks
  BY ConstantsAssumption DEF CleanUp, ScopeInv, SweepShape, Unsettled, Scope, InScope
<1>3. Scope \subseteq Recorded
  BY <1>2 DEF CleanUp, ScopeInv, NoCheckForgotten, Recorded
<1>4. findings' = [k \in Recorded |-> findings[k]]
  BY DEF CleanUp, DeleteStaleFindings, Recorded
<1>5. Recorded' = Recorded
  BY <1>4 DEF Recorded
<1>6. TableSeen' = [k \in DOMAIN TableSeen \cap Recorded |-> TableSeen[k]]
  <2>1. DOMAIN TableSeen \cap Recorded = Recorded
    BY DEF TableSeen, Recorded
  <2>2. TableSeen' = [k \in Recorded |-> [pass |-> findings[k].pass, url |-> findings[k].url]]
    BY <1>4 DEF TableSeen
  <2>3. \A k \in Recorded : TableSeen[k] = [pass |-> findings[k].pass, url |-> findings[k].url]
    BY DEF TableSeen, Recorded
  <2> QED BY <2>1, <2>2, <2>3
<1>7. Scope' = Scope
  BY DEF CleanUp, Scope, InScope
<1> QED BY <1>1, <1>3, <1>5, <1>6, <1>7 DEF Table!Complete

\* The sweep records checks of its scope.
LEMMA SaveImplements == TypeOK /\ WorkInScope /\ SaveResult => \E k \in Checks : Table!Record(k)
<1> SUFFICES ASSUME TypeOK, WorkInScope, SaveResult PROVE \E k \in Checks : Table!Record(k)
  OBVIOUS
<1>1. SweepSeen = "running" /\ SweepSeen' = "running"
  BY DEF SaveResult, ResultProcessed, SweepSeen
<1>2. cur \in Scope /\ cur \in Checks
  BY ConstantsAssumption DEF SaveResult, WorkInScope, TypeOK, InHandOK
<1>3. Scope' = Scope
  BY DEF SaveResult, Scope, InScope
<1>4. SaveFinding(cur, verdict, issue)
  BY DEF SaveResult
<1>5. Table!Record(cur)
  BY <1>1, <1>2, <1>3, <1>4, SaveRecords DEF Table!Record
<1> QED BY <1>2, <1>5

\* A rerun records whatever it was asked for.
LEMMA RerunImplements ==
  ASSUME TypeOK, RerunStep
  PROVE  (\E k \in Checks : Table!Record(k)) \/ UNCHANGED Table!vars
<1>1. UNCHANGED <<pc, listed, seenType>> /\ SweepSeen' = SweepSeen /\ Scope' = Scope
  BY SweeperUntouched DEF sweeper, SweepSeen, Scope, InScope
<1>2. CASE findings' = findings
  BY <1>1, <1>2, TableStutter
<1>3. CASE findings' # findings
  <2>1. PICK h \in Handlers : RerunSave(h)
    BY <1>3 DEF RerunStep, RerunBegins, RerunTypes, RerunEnds, RerunCheck,
                RerunCheckUndecided, database
  <2>2. rerun[h].cur \in Checks
    BY <2>1 DEF RerunSave, TypeOK, RerunTypeOK
  <2>3. SaveFinding(rerun[h].cur, rerun[h].pass, RerunUrl(h))
    BY <1>3, <2>1 DEF RerunSave
  <2>4. Handlers # {}
    BY <2>1
  <2>5. Table!Record(rerun[h].cur)
    BY <1>1, <2>3, <2>4, SaveRecords DEF Table!Record
  <2> QED BY <2>2, <2>5
<1> QED BY <1>2, <1>3

\* Everything else the sweep does, the table's readers do not notice.
LEMMA OtherImplements ==
  ASSUME \/ FindOpenIssue \/ FindOpenIssueFails \/ CreateIssue \/ CreateIssueFails
         \/ FindIssueToClose \/ FindIssueToCloseFails \/ CloseIssue \/ CloseIssueFails
         \/ EndBatch \/ EndLoop
         \/ (\E r \in Repos : BeginRepo(r))
         \/ (\E k \in Checks : CheckDecides(k) \/ CheckUndecided(k))
  PROVE  UNCHANGED Table!vars
<1> DEFINE Middle == {"repos", "checks", "ensure", "create", "unneeded", "save", "wrapup"}
<1>1. UNCHANGED <<findings, listed, seenType>> /\ pc \in Middle /\ pc' \in Middle
  BY DEF FindOpenIssue, FindOpenIssueFails, CreateIssue, CreateIssueFails,
         FindIssueToClose, FindIssueToCloseFails, CloseIssue, CloseIssueFails,
         EndBatch, EndLoop, BeginRepo, CheckDecides, CheckUndecided, ProceedToSave, database
<1>2. SweepSeen = "running" /\ SweepSeen' = "running"
  BY <1>1 DEF SweepSeen
<1> QED BY <1>1, <1>2, TableStutter

LEMMA SweepImplements ==
  ASSUME ~DbWritesFail, TypeOK, ScopeInv, WorkInScope, SweepStep
  PROVE  Table!Next \/ UNCHANGED Table!vars
<1>1. CASE AbortSweep \/ EndIncomplete \/ EndComplete
  <2>1. SweepForgotten /\ UNCHANGED findings
    BY <1>1 DEF AbortSweep, EndIncomplete, EndComplete, database
  <2> QED BY <2>1, EndImplements DEF Table!Next
<1>2. CASE (\E r \in Repos : BeginRepoFails(r)) \/ SaveResultFails \/ CleanUpFails
  BY <1>2 DEF BeginRepoFails, SaveResultFails, CleanUpFails, DbFault
<1> QED BY <1>1, <1>2, StartImplements, TypesImplement, FetchImplements, CleanUpImplements,
           SaveImplements, OtherImplements
        DEF SweepStep, Table!Next

LEMMA TableStep ==
  ~DbWritesFail /\ TypeOK /\ ScopeInv /\ WorkInScope /\ [Next]_vars => [Table!Next]_(Table!vars)
<1> SUFFICES ASSUME ~DbWritesFail, TypeOK, ScopeInv, WorkInScope, [Next]_vars
             PROVE  Table!Next \/ UNCHANGED Table!vars
  OBVIOUS
<1>1. CASE SweepStep
  BY <1>1, SweepImplements
<1>2. CASE RerunStep
  BY <1>2, RerunImplements DEF Table!Next
<1>3. CASE WorldStep \/ UNCHANGED vars
  <2>1. UNCHANGED <<findings, sweeper>>
    BY <1>3, SweeperUntouched
    DEF WorldStep, Flip, PersonTogglesIssue, ToggleArchived, Reclassify, vars, database
  <2>2. UNCHANGED <<listed, seenType>> /\ SweepSeen' = SweepSeen
    BY <2>1 DEF sweeper, SweepSeen
  <2> QED BY <2>1, <2>2, TableStutter
<1>4. CASE Crash
  <2>1. SweepForgotten /\ UNCHANGED findings
    BY <1>4 DEF Crash, database
  <2> QED BY <2>1, EndImplements DEF Table!Next
<1> QED BY <1>1, <1>2, <1>3, <1>4 DEF Next

LEMMA TableInit == Init => Table!Init
<1> SUFFICES ASSUME Init PROVE Table!Init
  OBVIOUS
<1>1. Scope = {}
  BY DEF Init, SweepAtRest, Scope, InScope
<1>2. SweepSeen = "idle"
  BY DEF Init, SweepAtRest, SweepSeen
<1>3. findings = <<>> /\ DOMAIN findings = {}
  BY DEF Init
<1>4. TableSeen = <<>> /\ Recorded = {}
  BY <1>3 DEF TableSeen, Recorded
<1> QED BY <1>1, <1>2, <1>4 DEF Table!Init

\* The audit keeps the promise of FindingsTable with any number of repositories,
\* conventions and rerun requests, and whatever calls fail or crashes happen, as
\* long as the database accepts what is written.
THEOREM TableIsRefined == ~DbWritesFail /\ Spec => TableRefined
<1> SUFFICES ASSUME ~DbWritesFail PROVE Spec => TableRefined
  OBVIOUS
<1>1. Init => ScopeInv /\ WorkInScope
  BY WorkInit
  DEF Init, SweepAtRest, ScopeInv, SweepShape, NoCheckForgotten, FreshInv
<1>2. TypeOK /\ ScopeInv /\ [Next]_vars => ScopeInv'
  BY ScopeStep
<1>3. TypeOK /\ ScopeInv /\ WorkInScope /\ [Next]_vars => [Table!Next]_(Table!vars)
  BY TableStep
<1> QED BY TypeCorrect, TableInit, WorkStep, <1>1, <1>2, <1>3, PTL
        DEF Spec, TableRefined, Table!Spec
=============================================================================
