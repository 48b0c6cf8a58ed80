--------------------------- MODULE C4Model_proofs ---------------------------
(***************************************************************************)
(* For any systems, names and dependencies: a run whose reads were not     *)
(* overtaken by a change and did not fail raises and closes the issues of  *)
(* the estate as it is, and if it reports success, the artifacts show it.  *)
(* Neither property says anything about the steps before: ReadsTrue says   *)
(* what the model must be after each read, BatchTrue what the issues in    *)
(* hand are, and Written which artifacts are up to date.                   *)
(***************************************************************************)
EXTENDS C4Model, TLAPS

(* The model after the first two reads.                                     *)
Drafted ==
    [systems |-> configy, async |-> AsyncEdges(configy), prod |-> {}, sync |-> {},
     divs |-> WebhookDivergences(configy), unreachable |-> {}]

(* The model when the systems in S have been probed.                        *)
Probed(S) ==
    [systems |-> configy, async |-> AsyncEdges(configy), prod |-> Observed \cap Known,
     sync    |-> UNION {SyncEdges(s) : s \in S},
     divs    |-> WebhookDivergences(configy)
                   \cup {<<"producer", p>> : p \in Observed \ Known}
                   \cup UNION {NameDivergences(s) : s \in S},
     unreachable |-> {}]

(* As long as nothing changes and no read fails, the model is true of the   *)
(* estate, as far as it goes.                                               *)
ReadsTrue ==
    /\ pc = "systems" => model = Empty
    /\ pc = "probe" => todo \subseteq model.systems \cap Public
    /\ ~changed /\ ~blind =>
         /\ pc = "webhooks" =>
              model = [Empty EXCEPT !.systems = configy] /\ valid = configy
         /\ pc = "component" => model = Drafted /\ valid = configy
         /\ pc = "script" => model = Drafted /\ valid = configy \cup others["component"]
         /\ pc = "producers" => model = Drafted /\ valid = Known
         /\ pc = "probe" => model = Probed((configy \cap Public) \ todo)
         /\ pc \in {"repo", "ensure", "close", "fetch", "put"} => model = Truth

(* The issues in hand are those of the model's divergences while they are   *)
(* ensured, and of others while they are closed.                            *)
BatchTrue ==
    /\ pc = "ensure" => batch \subseteq model.divs
    /\ pc = "close" => batch \cap model.divs = {}

(* Unless there was an error, the artifacts that were done are as they      *)
(* should be.                                                               *)
Written ==
    ~changed /\ ~writeErr /\ pc \in {"fetch", "put"} =>
        \A a \in Artifacts \ todo :
            (pc = "put" /\ a = file[1]) \/ out[a] = Rendered(model)[a]

(* Edges of the model start at its systems, or lead to them from loganne.   *)
ModelClosed ==
    model.async \subseteq model.systems /\ \A e \in model.sync : e[1] \in model.systems

IInv == TypeOK /\ ReadsTrue /\ Written /\ SuccessIsFresh

-----------------------------------------------------------------------------
(* What the reads find has the right type.                                  *)
LEMMA ReadsTyped ==
    ASSUME TypeOK
    PROVE  /\ \A S \in SUBSET Systems :
                AsyncEdges(S) \in SUBSET Systems
                /\ WebhookDivergences(S) \in SUBSET Divergences
           /\ \A S \in SUBSET Names :
                ProducerEdges(S) \in SUBSET Names
                /\ ProducerDivergences(S) \in SUBSET Divergences
           /\ \A s \in Systems :
                SyncEdges(s) \in SUBSET (Systems \X Names)
                /\ NameDivergences(s) \in SUBSET Divergences
<1>1. \A S \in SUBSET Systems :
        AsyncEdges(S) \in SUBSET Systems /\ WebhookDivergences(S) \in SUBSET Divergences
  BY DEF TypeOK, AsyncEdges, WebhookDivergences, Divergences
<1>2. \A S \in SUBSET Names :
        ProducerEdges(S) \in SUBSET Names /\ ProducerDivergences(S) \in SUBSET Divergences
  BY DEF TypeOK, ProducerEdges, ProducerDivergences, Divergences
<1>3. \A s \in Systems :
        SyncEdges(s) \in SUBSET (Systems \X Names)
        /\ NameDivergences(s) \in SUBSET Divergences
  BY ConstantsAssumption DEF TypeOK, SyncEdges, NameDivergences, Divergences
<1> QED
  BY <1>1, <1>2, <1>3

(* What is rendered from a model has the right type.                        *)
LEMMA RenderedTyped ==
    ASSUME NEW m \in Models
    PROVE  Rendered(m) \in [Artifacts -> Diagrams \cup Reports]
<1>1. DrawnSync(m) \in SUBSET (Systems \X Names)
  BY DEF Models, DrawnSync
<1>2. Connected(m) \in SUBSET Names
  <2>1. {e[1] : e \in DrawnSync(m)} \subseteq Names /\ {e[2] : e \in DrawnSync(m)} \subseteq Names
    BY <1>1, ConstantsAssumption
  <2>2. m.async \subseteq Names /\ m.prod \subseteq Names /\ Loganne \in Names
    BY ConstantsAssumption DEF Models
  <2> QED
    BY <2>1, <2>2 DEF Connected
<1>3. \A nodes \in SUBSET Names : Diagram(nodes, m) \in Diagrams
  BY <1>1 DEF Diagram, Diagrams, Models
<1>4. m.systems \cup m.prod \in SUBSET Names
  BY ConstantsAssumption DEF Models
<1>5. [divergences |-> m.divs, unreachable |-> m.unreachable] \in Reports
  BY DEF Reports, Models
<1> QED
  BY <1>2, <1>3, <1>4, <1>5 DEF Rendered

(* The variables keep their types.                                          *)
LEMMA TypeInit == Init => TypeOK
<1> SUFFICES ASSUME Init PROVE TypeOK
  OBVIOUS
<1>1. Empty \in Models
  BY DEF Empty, Models
<1>2. events \in 0..MaxEvents /\ faults \in 0..MaxFaults
  BY ConstantsAssumption DEF Init
<1>3. file \in Artifacts \X Contents /\ out \in [Artifacts -> Contents]
  BY DEF Init, Artifacts, Contents
<1> QED
  BY <1>1, <1>2, <1>3, ConstantsAssumption DEF Init, TypeOK, Lists

LEMMA TypeStep == TypeOK /\ [Next]_vars => TypeOK'
<1> SUFFICES ASSUME TypeOK, [Next]_vars PROVE TypeOK'
  OBVIOUS
<1> USE DEF Outside, sources, reading, routing, writing, history, Goto, End
<1>f. ASSUME Fault
      PROVE  faults' \in 0..MaxFaults /\ UNCHANGED <<changed, blind, events>>
  BY <1>f, ConstantsAssumption DEF Fault, TypeOK
<1>g. ASSUME faults < MaxFaults, faults' = faults + 1 PROVE faults' \in 0..MaxFaults
  BY <1>g, ConstantsAssumption DEF TypeOK
<1>h. ASSUME Edit
      PROVE  /\ events' \in 0..MaxEvents /\ changed' = TRUE
             /\ UNCHANGED <<pc, model, valid, todo, repo, batch, file, writeErr,
                            outcome, blind, faults>>
  BY <1>h, ConstantsAssumption DEF Edit, TypeOK
<1>1. CASE Start
  <2>1. Empty \in Models
    BY DEF Empty, Models
  <2> QED
    BY <1>1, <2>1 DEF Start, TypeOK
<1>2. CASE ReadFails
  BY <1>2, <1>f DEF ReadFails, TypeOK
<1>3. CASE FetchSystems
  <2>1. model' \in Models /\ valid' \in SUBSET Names
    BY <1>3, ConstantsAssumption DEF FetchSystems, TypeOK, Models
  <2> QED
    BY <1>3, <2>1 DEF FetchSystems, TypeOK
<1>4. CASE FetchWebhooks
  <2>1. model.systems \in SUBSET Systems
    BY DEF TypeOK, Models
  <2>2. /\ AsyncEdges(model.systems) \in SUBSET Systems
        /\ WebhookDivergences(model.systems) \in SUBSET Divergences
    BY <2>1, ReadsTyped
  <2>3. model' \in Models
    BY <1>4, <2>2 DEF FetchWebhooks, TypeOK, Models
  <2> QED
    BY <1>4, <2>3 DEF FetchWebhooks, TypeOK
<1>5. CASE FetchList
  <2>1. valid' \in SUBSET Names
    BY <1>5 DEF FetchList, TypeOK
  <2>2. pc' \in {"script", "producers"} /\ blind' \in BOOLEAN /\ UNCHANGED <<changed, events>>
    BY <1>5 DEF FetchList, TypeOK
  <2>3. faults' \in 0..MaxFaults
    BY <1>5, <1>g DEF FetchList, TypeOK
  <2> QED
    BY <1>5, <2>1, <2>2, <2>3 DEF FetchList, TypeOK
<1>6. CASE ProbeProducers
  <2>1. /\ ProducerEdges(valid) \in SUBSET Names
        /\ ProducerDivergences(valid) \in SUBSET Divergences
    BY ReadsTyped DEF TypeOK
  <2>2. model' \in Models
    BY <1>6, <2>1, ZenonT(60) DEF ProbeProducers, TypeOK, Models
  <2>3. faults' \in 0..MaxFaults /\ blind' \in BOOLEAN /\ UNCHANGED <<changed, events>>
    BY <1>6, <1>g DEF ProbeProducers, TypeOK
  <2>4. todo' \in SUBSET (Systems \cup Artifacts)
    BY <1>6 DEF ProbeProducers, TypeOK, Models
  <2> QED
    BY <1>6, <2>2, <2>3, <2>4 DEF ProbeProducers, TypeOK
<1>7. ASSUME NEW s \in Systems, ProbeInfo(s) PROVE TypeOK'
  <2>1. /\ SyncEdges(s) \in SUBSET (Systems \X Names)
        /\ NameDivergences(s) \in SUBSET Divergences
    BY ReadsTyped
  <2>2. model' \in Models
    <3>1. model \in Models
      BY DEF TypeOK
    <3>2. CASE model' = [model EXCEPT !.sync = @ \cup SyncEdges(s),
                                      !.divs = @ \cup NameDivergences(s)]
      BY <2>1, <3>1, <3>2 DEF Models
    <3>3. CASE model' = [model EXCEPT !.unreachable = @ \cup {s}]
      BY <3>1, <3>3 DEF Models
    <3> QED
      BY <1>7, <3>2, <3>3 DEF ProbeInfo
  <2>3. faults' \in 0..MaxFaults /\ blind' \in BOOLEAN /\ UNCHANGED <<changed, events>>
    BY <1>7, <1>g DEF ProbeInfo, TypeOK
  <2> QED
    BY <1>7, <2>2, <2>3 DEF ProbeInfo, TypeOK
<1>8. CASE Reconcile
  <2>1. todo' \in SUBSET (Systems \cup Artifacts)
    BY <1>8, ConstantsAssumption DEF Reconcile, TypeOK, Models
  <2> QED
    BY <1>8, <2>1 DEF Reconcile, TypeOK
<1>9. ASSUME NEW r \in Systems, NextRepo(r) PROVE TypeOK'
  <2>1. batch' \in SUBSET Divergences /\ \A d \in batch' : RepoOf(d) = repo'
    BY <1>9 DEF NextRepo, TypeOK, Models
  <2> QED
    BY <1>9, <2>1 DEF NextRepo, TypeOK
<1>10. ASSUME NEW d \in Divergences, EnsureIssueExists(d) PROVE TypeOK'
  <2>1. issues' \in SUBSET Divergences
    BY <1>10 DEF EnsureIssueExists, TypeOK
  <2>2. faults' \in 0..MaxFaults /\ UNCHANGED <<changed, blind, events>>
    BY <1>10, <1>f DEF EnsureIssueExists, TypeOK
  <2> QED
    BY <1>10, <2>1, <2>2 DEF EnsureIssueExists, TypeOK
<1>11. CASE ListOpen
  <2>1. faults' \in 0..MaxFaults /\ UNCHANGED <<changed, blind, events>>
    BY <1>11, <1>f DEF ListOpen, TypeOK
  <2>2. /\ batch' \in SUBSET Divergences
        /\ pc' \in {"ensure", "close"} => \A d \in batch' : RepoOf(d) = repo
    BY <1>11 DEF ListOpen, TypeOK
  <2> QED
    BY <1>11, <2>1, <2>2 DEF ListOpen, TypeOK
<1>12. ASSUME NEW d \in Divergences, CloseIssueIfOpen(d) PROVE TypeOK'
  <2>1. issues' \in SUBSET Divergences
    BY <1>12 DEF CloseIssueIfOpen, TypeOK
  <2>2. faults' \in 0..MaxFaults /\ UNCHANGED <<changed, blind, events>>
    BY <1>12, <1>f DEF CloseIssueIfOpen, TypeOK
  <2> QED
    BY <1>12, <2>1, <2>2 DEF CloseIssueIfOpen, TypeOK
<1>13. CASE RepoDone
  BY <1>13 DEF RepoDone, TypeOK
<1>14. CASE Authorise
  <2>1. faults' \in 0..MaxFaults /\ UNCHANGED <<changed, blind, events>>
    BY <1>14, <1>f DEF Authorise, TypeOK
  <2>2. todo' \in SUBSET (Systems \cup Artifacts)
    BY <1>14 DEF Authorise, TypeOK
  <2>3. pc' \in {"fetch", "idle"} /\ outcome' \in {"none", "success", "error"}
    BY <1>14 DEF Authorise, TypeOK
  <2> QED
    BY <1>14, <2>1, <2>2, <2>3 DEF Authorise, TypeOK
<1>15. ASSUME NEW a \in Artifacts, FetchFile(a) PROVE TypeOK'
  <2>1. faults' \in 0..MaxFaults /\ UNCHANGED <<changed, blind, events>>
    <3>1. \/ changed' = changed /\ blind' = blind /\ events' = events /\ faults' = faults
          \/ Fault
      BY <1>15 DEF FetchFile
    <3>2. faults \in 0..MaxFaults
      BY DEF TypeOK
    <3> QED
      BY <3>1, <3>2, <1>f
  <2>2. file' \in Artifacts \X Contents /\ writeErr' \in BOOLEAN
    <3>1. <<a, out[a]>> \in Artifacts \X Contents
      BY DEF TypeOK
    <3>2. /\ file' = <<a, out[a]>> \/ file' = file
          /\ writeErr' = TRUE \/ writeErr' = writeErr
      BY <1>15 DEF FetchFile
    <3> QED
      BY <3>1, <3>2 DEF TypeOK
  <2>3. pc' \in {"fetch", "put"} /\ outcome' = outcome
    BY <1>15 DEF FetchFile, TypeOK
  <2> QED
    BY <1>15, <2>1, <2>2, <2>3 DEF FetchFile, TypeOK
<1>16. CASE PutFile
  <2>1. faults' \in 0..MaxFaults /\ UNCHANGED <<changed, blind, events>>
    BY <1>16, <1>f DEF PutFile, TypeOK
  <2>2. Rendered(model)[file[1]] \in Contents
    BY RenderedTyped DEF TypeOK, Contents
  <2>3. out' \in [Artifacts -> Contents] /\ writeErr' \in BOOLEAN
    BY <1>16, <2>2 DEF PutFile, TypeOK
  <2> QED
    BY <1>16, <2>1, <2>3 DEF PutFile, TypeOK
<1>17. CASE Finish
  BY <1>17 DEF Finish, TypeOK
<1>18. CASE Crash
  BY <1>18, <1>f DEF Crash, TypeOK
<1>19. CASE ConfigyChanges
  <2>1. configy' \in SUBSET Systems /\ others' \in [Lists -> SUBSET Names]
    BY <1>19 DEF ConfigyChanges, TypeOK, Toggle
  <2> QED
    BY <1>19, <1>h, <2>1 DEF ConfigyChanges, TypeOK
<1>20. CASE SystemChanges
  <2>1. /\ misnamed' \in SUBSET Systems /\ hooks' \in SUBSET Systems
        /\ broken' \in BOOLEAN /\ producers' \in SUBSET Names
    BY <1>20 DEF SystemChanges, TypeOK, Toggle
  <2> QED
    BY <1>20, <1>h, <2>1 DEF SystemChanges, TypeOK
<1>21. CASE GitHubEdited
  <2>1. issues' \in SUBSET Divergences /\ out' \in [Artifacts -> Contents]
    BY <1>21 DEF GitHubEdited, TypeOK, Contents
  <2> QED
    BY <1>21, <1>h, <2>1 DEF GitHubEdited, TypeOK
<1>22. CASE UNCHANGED vars
  BY <1>22 DEF vars, TypeOK
<1> QED
  BY <1>1, <1>2, <1>3, <1>4, <1>5, <1>6, <1>7, <1>8, <1>9, <1>10, <1>11, <1>12,
     <1>13, <1>14, <1>15, <1>16, <1>17, <1>18, <1>19, <1>20, <1>21, <1>22
     DEF Next, Run, Read, Route, Write

(* TypeOK, of generateAndCommitC4 and routeC4DivergencesToIssues: types,    *)
(* and only issues of the repository in hand are touched.                   *)
THEOREM C4Typed == Spec => []TypeOK
BY TypeInit, TypeStep, PTL DEF Spec
-----------------------------------------------------------------------------
(* Probing all systems with a domain completes the model.                   *)
LEMMA ProbedAll == ASSUME TypeOK PROVE Probed(configy \cap Public) = Truth
BY DEF Probed, Truth

(* A member more adds itself to the union.                                  *)
LEMMA UnionMore == ASSUME NEW B, NEW x PROVE UNION (B \cup {x}) = (UNION B) \cup x
OBVIOUS

(* ... one by one.                                                          *)
LEMMA ProbedMore ==
    ASSUME NEW S, NEW s
    PROVE  Probed(S \cup {s}) = [Probed(S) EXCEPT !.sync = @ \cup SyncEdges(s),
                                                 !.divs = @ \cup NameDivergences(s)]
<1>1. UNION {SyncEdges(t) : t \in S \cup {s}}
        = (UNION {SyncEdges(t) : t \in S}) \cup SyncEdges(s)
  <2>1. {SyncEdges(t) : t \in S \cup {s}} = {SyncEdges(t) : t \in S} \cup {SyncEdges(s)}
    BY Zenon
  <2> QED
    BY <2>1, UnionMore
<1>2. UNION {NameDivergences(t) : t \in S \cup {s}}
        = (UNION {NameDivergences(t) : t \in S}) \cup NameDivergences(s)
  <2>1. {NameDivergences(t) : t \in S \cup {s}}
          = {NameDivergences(t) : t \in S} \cup {NameDivergences(s)}
    BY Zenon
  <2> QED
    BY <2>1, UnionMore
<1> DEFINE U == UNION {NameDivergences(t) : t \in S}
           P == {<<"producer", p>> : p \in Observed \ Known}
           V == UNION {SyncEdges(t) : t \in S}
<1>3. Probed(S) = [systems |-> configy, async |-> AsyncEdges(configy),
                   prod |-> Observed \cap Known, sync |-> V,
                   divs |-> (WebhookDivergences(configy) \cup P) \cup U, unreachable |-> {}]
  BY DEF Probed
<1>4. Probed(S \cup {s}) =
        [systems |-> configy, async |-> AsyncEdges(configy),
         prod |-> Observed \cap Known, sync |-> V \cup SyncEdges(s),
         divs |-> (WebhookDivergences(configy) \cup P) \cup (U \cup NameDivergences(s)),
         unreachable |-> {}]
  BY <1>1, <1>2 DEF Probed
<1> HIDE DEF U, P, V
<1>5. (WebhookDivergences(configy) \cup P) \cup (U \cup NameDivergences(s))
        = ((WebhookDivergences(configy) \cup P) \cup U) \cup NameDivergences(s)
  OBVIOUS
<1> DEFINE W == (WebhookDivergences(configy) \cup P) \cup U
<1>6. [Probed(S) EXCEPT !.sync = @ \cup SyncEdges(s), !.divs = @ \cup NameDivergences(s)]
        = [systems |-> configy, async |-> AsyncEdges(configy),
           prod |-> Observed \cap Known, sync |-> V \cup SyncEdges(s),
           divs |-> W \cup NameDivergences(s), unreachable |-> {}]
  <2> HIDE DEF W
  <2>1. Probed(S) = [systems |-> configy, async |-> AsyncEdges(configy),
                     prod |-> Observed \cap Known, sync |-> V, divs |-> W,
                     unreachable |-> {}]
    BY <1>3 DEF W
  <2>2. Probed(S).sync = V /\ Probed(S).divs = W
    BY <2>1
  <2> DEFINE n == [Probed(S) EXCEPT !.sync = V \cup SyncEdges(s),
                                     !.divs = W \cup NameDivergences(s)]
  <2>3. /\ n.sync = V \cup SyncEdges(s) /\ n.divs = W \cup NameDivergences(s)
        /\ n.systems = configy /\ n.async = AsyncEdges(configy)
        /\ n.prod = Observed \cap Known /\ n.unreachable = {}
    BY <2>1
  <2>4. DOMAIN n = {"systems", "async", "prod", "sync", "divs", "unreachable"}
    BY <2>1
  <2>5. n = [systems |-> configy, async |-> AsyncEdges(configy),
             prod |-> Observed \cap Known, sync |-> V \cup SyncEdges(s),
             divs |-> W \cup NameDivergences(s), unreachable |-> {}]
    <3>1. n = [x \in DOMAIN n |-> n[x]]
      OBVIOUS
    <3> HIDE DEF n
    <3> QED
      BY <3>1, <2>3, <2>4
  <2> QED
    BY <2>2, <2>5
<1> QED
  BY <1>4, <1>5, <1>6

(* ReadsTrue survives a step of the environment: it makes no claim after a  *)
(* change except of where the run stands.                                   *)
LEMMA ReadsChanged ==
    ASSUME ReadsTrue, changed', UNCHANGED <<pc, model, todo>>
    PROVE  ReadsTrue'
BY DEF ReadsTrue

LEMMA ReadsStep == TypeOK /\ ReadsTrue /\ [Next]_vars => ReadsTrue'
<1> SUFFICES ASSUME TypeOK, ReadsTrue, [Next]_vars PROVE ReadsTrue'
  OBVIOUS
<1> USE DEF Outside, sources, reading, routing, writing, history, Goto, End
<1>e. ASSUME pc' \in {"idle"} PROVE ReadsTrue'
  BY <1>e DEF ReadsTrue
<1>r. ASSUME pc \in {"repo", "ensure", "close", "fetch", "put"},
             pc' \in {"repo", "ensure", "close", "fetch", "put"},
             UNCHANGED <<sources, model, changed, blind>>
      PROVE  ReadsTrue'
  BY <1>r DEF ReadsTrue, Truth, AsyncEdges, WebhookDivergences, Observed, Known,
              SyncEdges, NameDivergences
<1>1. CASE Start
  BY <1>1 DEF Start, ReadsTrue
<1>2. CASE ReadFails
  BY <1>2, <1>e DEF ReadFails
<1>3. CASE FetchSystems
  BY <1>3 DEF FetchSystems, ReadsTrue, Empty
<1>4. CASE FetchWebhooks
  <2>1. pc' = "component"
    BY <1>4 DEF FetchWebhooks
  <2>2. ASSUME ~changed, ~blind PROVE model' = Drafted' /\ valid' = configy'
    <3>1. model = [Empty EXCEPT !.systems = configy] /\ valid = configy
      BY <1>4, <2>2 DEF FetchWebhooks, ReadsTrue
    <3>2. model.systems = configy
      BY <3>1 DEF Empty
    <3>3. model' = [model EXCEPT !.async = AsyncEdges(configy),
                                 !.divs = WebhookDivergences(configy)]
      BY <1>4, <3>2 DEF FetchWebhooks
    <3>4. model' = Drafted
      BY <3>1, <3>3 DEF Drafted, Empty
    <3>5. Drafted' = Drafted
      BY <1>4 DEF FetchWebhooks, Drafted, AsyncEdges, WebhookDivergences
    <3> QED
      BY <1>4, <3>1, <3>4, <3>5 DEF FetchWebhooks
  <2> QED
    BY <1>4, <2>1, <2>2 DEF FetchWebhooks, ReadsTrue
<1>5. CASE FetchList
  <2>1. Drafted' = Drafted /\ Known' = Known /\ UNCHANGED <<configy, others, model>>
    BY <1>5 DEF FetchList, Drafted, AsyncEdges, WebhookDivergences, Known
  <2>2. ASSUME ~changed', ~blind'
        PROVE  valid' = valid \cup others[pc] /\ ~changed /\ ~blind
    BY <1>5, <2>2 DEF FetchList
  <2>3. CASE pc = "component"
    BY <1>5, <2>1, <2>2, <2>3 DEF FetchList, ReadsTrue
  <2>4. CASE pc = "script"
    BY <1>5, <2>1, <2>2, <2>4 DEF FetchList, ReadsTrue, Known
  <2> QED
    BY <1>5, <2>3, <2>4 DEF FetchList, Lists
<1>6. CASE ProbeProducers
  <2>1. pc' = "probe" /\ todo' = model'.systems \cap Public
    BY <1>6 DEF ProbeProducers, TypeOK, Models
  <2>2. ASSUME ~changed', ~blind'
        PROVE  model' = Probed({})
    <3>1. ~changed /\ ~blind /\ model = Drafted /\ valid = Known
      BY <1>6, <2>2 DEF ProbeProducers, ReadsTrue
    <3>2. model.systems = configy
      BY <3>1 DEF Drafted, Empty
    <3>3. Probed({}) = [systems |-> configy, async |-> AsyncEdges(configy),
                        prod |-> Observed \cap Known, sync |-> {},
                        divs |-> WebhookDivergences(configy)
                                   \cup {<<"producer", p>> : p \in Observed \ Known},
                        unreachable |-> {}]
      BY DEF Probed, Truth
    <3>4. CASE Loganne \in configy \cap Public
      <4>1. model' = [model EXCEPT !.prod = ProducerEdges(valid),
                                   !.divs = @ \cup ProducerDivergences(valid)]
        BY <1>6, <2>2, <3>1, <3>2, <3>4 DEF ProbeProducers
      <4> DEFINE P == {<<"producer", p>> : p \in Observed \ Known}
      <4>2. Observed = producers
        BY <3>4 DEF Observed
      <4>3. ProducerEdges(valid) = Observed \cap Known /\ ProducerDivergences(valid) = P
        BY <3>1, <4>2 DEF ProducerEdges, ProducerDivergences
      <4>4. Probed({}) = [systems |-> configy, async |-> AsyncEdges(configy),
                          prod |-> Observed \cap Known, sync |-> {},
                          divs |-> WebhookDivergences(configy) \cup P,
                          unreachable |-> {}]
        BY <3>3
      <4> HIDE DEF P
      <4>5. model = [systems |-> configy, async |-> AsyncEdges(configy), prod |-> {},
                     sync |-> {}, divs |-> WebhookDivergences(configy),
                     unreachable |-> {}]
        BY <3>1 DEF Drafted
      <4>6. model' = [model EXCEPT !.prod = Observed \cap Known,
                                   !.divs = WebhookDivergences(configy) \cup P]
        BY <4>1, <4>3, <4>5
      <4>7. /\ model'.prod = Observed \cap Known
            /\ model'.divs = WebhookDivergences(configy) \cup P
            /\ model'.systems = configy /\ model'.async = AsyncEdges(configy)
            /\ model'.sync = {} /\ model'.unreachable = {}
        BY <4>5, <4>6
      <4>8. DOMAIN model' = {"systems", "async", "prod", "sync", "divs", "unreachable"}
        BY <4>5, <4>6
      <4>9. model' = [x \in DOMAIN model' |-> model'[x]]
        BY <4>6
      <4> QED
        BY <4>4, <4>7, <4>8, <4>9
    <3>5. CASE Loganne \notin configy \cap Public
      <4>1. model' = model
        BY <1>6, <3>2, <3>5 DEF ProbeProducers
      <4> QED
        BY <4>1, <3>1, <3>3, <3>5 DEF Drafted, Empty, Observed
    <3> QED
      BY <3>4, <3>5
  <2>3. ASSUME ~changed', ~blind'
        PROVE  model' = Probed((configy \cap Public) \ todo')
    <3>1. model'.systems = configy
      BY <2>2, <2>3 DEF Probed, Truth
    <3> QED
      BY <2>1, <2>2, <2>3, <3>1
  <2>4. \A S : Probed(S)' = Probed(S)
    BY <1>6 DEF ProbeProducers, Probed, Truth, AsyncEdges, WebhookDivergences,
                Observed, Known, SyncEdges, NameDivergences
  <2>5. configy' = configy
    BY <1>6 DEF ProbeProducers
  <2>6. ASSUME ~changed', ~blind'
        PROVE  model' = Probed((configy \cap Public) \ todo)'
    BY <2>3, <2>4, <2>5, <2>6
  <2> QED
    BY <2>1, <2>6 DEF ReadsTrue
<1>18. CASE Crash
  BY <1>18, <1>e DEF Crash
<1>19. CASE ConfigyChanges
  BY <1>19, ReadsChanged DEF ConfigyChanges, Edit
<1>20. CASE SystemChanges
  BY <1>20, ReadsChanged DEF SystemChanges, Edit
<1>21. CASE GitHubEdited
  BY <1>21, ReadsChanged DEF GitHubEdited, Edit
<1>8. CASE Reconcile
  <2>1. ASSUME ~changed, ~blind PROVE model = Truth
    <3>1. (configy \cap Public) \ todo = configy \cap Public
      BY <1>8 DEF Reconcile
    <3> QED
      BY <1>8, <2>1, <3>1, ProbedAll DEF Reconcile, ReadsTrue
  <2>2. Truth' = Truth
    BY <1>8 DEF Reconcile, Truth, AsyncEdges, WebhookDivergences, Observed, Known,
                SyncEdges, NameDivergences
  <2> QED
    BY <1>8, <2>1, <2>2 DEF Reconcile, ReadsTrue
<1>9. ASSUME NEW r \in Systems, NextRepo(r) PROVE ReadsTrue'
  BY <1>9, <1>r DEF NextRepo
<1>10. ASSUME NEW d \in Divergences, EnsureIssueExists(d) PROVE ReadsTrue'
  BY <1>10, <1>r DEF EnsureIssueExists, Fault
<1>11. CASE ListOpen
  BY <1>11, <1>r DEF ListOpen, Fault
<1>12. ASSUME NEW d \in Divergences, CloseIssueIfOpen(d) PROVE ReadsTrue'
  BY <1>12, <1>r DEF CloseIssueIfOpen, Fault
<1>13. CASE RepoDone
  BY <1>13, <1>r DEF RepoDone
<1>14. CASE Authorise
  BY <1>14, <1>r, <1>e DEF Authorise, Fault
<1>15. ASSUME NEW a \in Artifacts, FetchFile(a) PROVE ReadsTrue'
  <2>1. pc' \in {"fetch", "put"} /\ UNCHANGED <<changed, blind>>
    BY <1>15 DEF FetchFile, Fault
  <2> QED
    BY <1>15, <2>1, <1>r DEF FetchFile
<1>16. CASE PutFile
  BY <1>16, <1>r DEF PutFile, Fault
<1>17. CASE Finish
  BY <1>17, <1>e DEF Finish
<1>7. ASSUME NEW s \in Systems, ProbeInfo(s) PROVE ReadsTrue'
  <2>1. pc = "probe" /\ pc' = "probe" /\ todo' = todo \ {s} /\ s \in todo
        /\ UNCHANGED sources
    BY <1>7 DEF ProbeInfo
  <2>2. model'.systems = model.systems
    BY <1>7 DEF ProbeInfo, TypeOK, Models
  <2>3. \A S : Probed(S)' = Probed(S)
    BY <2>1 DEF Probed, Truth, AsyncEdges, WebhookDivergences,
                Observed, Known, SyncEdges, NameDivergences
  <2>4. ASSUME ~changed', ~blind'
        PROVE  model' = Probed((configy \cap Public) \ todo')
    <3> DEFINE S == (configy \cap Public) \ todo
    <3>1. ~changed /\ ~blind /\ model = Probed(S)
      BY <1>7, <2>1, <2>4 DEF ProbeInfo, ReadsTrue
    <3>2. s \in configy \cap Public
      <4>1. model.systems = configy
        BY <3>1 DEF Probed, Truth
      <4> QED
        BY <2>1, <4>1 DEF ReadsTrue
    <3>3. (configy \cap Public) \ todo' = S \cup {s}
      BY <2>1, <3>2
    <3>4. model' = [model EXCEPT !.sync = @ \cup SyncEdges(s),
                                 !.divs = @ \cup NameDivergences(s)]
      BY <1>7, <2>4 DEF ProbeInfo
    <3>5. Probed(S \cup {s}) = [Probed(S) EXCEPT !.sync = @ \cup SyncEdges(s),
                                                 !.divs = @ \cup NameDivergences(s)]
      BY ProbedMore
    <3>6. model' = Probed(S \cup {s})
      BY <3>1, <3>4, <3>5
    <3> QED
      BY <3>3, <3>6
  <2>5. ASSUME ~changed', ~blind'
        PROVE  model' = Probed((configy \cap Public) \ todo)'
    BY <2>1, <2>3, <2>4, <2>5
  <2> QED
    BY <2>1, <2>2, <2>5 DEF ReadsTrue
<1>22. CASE UNCHANGED vars
  BY <1>22 DEF vars, ReadsTrue, Drafted, Probed, Truth, AsyncEdges, WebhookDivergences,
               Observed, Known, SyncEdges, NameDivergences
<1> QED
  BY <1>1, <1>2, <1>3, <1>4, <1>5, <1>6, <1>7, <1>8, <1>9, <1>10, <1>11, <1>12,
     <1>13, <1>14, <1>15, <1>16, <1>17, <1>18, <1>19, <1>20, <1>21, <1>22
     DEF Next, Run, Read, Route, Write
(* Truth depends on nothing but the sources.                                *)
LEMMA TruthKept == ASSUME UNCHANGED sources PROVE Truth' = Truth
BY DEF sources, Truth, AsyncEdges, WebhookDivergences, Observed, Known, SyncEdges,
       NameDivergences

LEMMA TruthTyped == ASSUME TypeOK PROVE Truth \in Models
<1>1. /\ AsyncEdges(configy) \in SUBSET Systems
      /\ WebhookDivergences(configy) \in SUBSET Divergences
      /\ \A s \in Systems : SyncEdges(s) \in SUBSET (Systems \X Names)
                            /\ NameDivergences(s) \in SUBSET Divergences
  BY ReadsTyped DEF TypeOK
<1>2. Observed \in SUBSET Names /\ configy \in SUBSET Systems
  BY DEF Observed, TypeOK
<1>3. UNION {SyncEdges(s) : s \in configy \cap Public} \in SUBSET (Systems \X Names)
  BY <1>1, <1>2
<1>4. UNION {NameDivergences(s) : s \in configy \cap Public} \in SUBSET Divergences
  BY <1>1, <1>2
<1>5. {<<"producer", p>> : p \in Observed \ Known} \in SUBSET Divergences
  BY <1>2 DEF Divergences
<1>6. Observed \cap Known \in SUBSET Names
  BY <1>2
<1> QED
  BY <1>1, <1>2, <1>3, <1>4, <1>5, <1>6 DEF Truth, Models

(* The artifacts that were done stay as they should be.                     *)
LEMMA WrittenStep == TypeOK /\ Written /\ [Next]_vars => Written'
<1> SUFFICES ASSUME TypeOK, Written, [Next]_vars PROVE Written'
  OBVIOUS
<1> USE DEF Outside, sources, reading, routing, writing, history, Goto, End
<1>p. ASSUME pc' \notin {"fetch", "put"} PROVE Written'
  BY <1>p DEF Written
<1>c. ASSUME changed' PROVE Written'
  BY <1>c DEF Written
<1>1. CASE Start
  BY <1>1, <1>p DEF Start
<1>2. CASE ReadFails
  BY <1>2, <1>p DEF ReadFails
<1>3. CASE Read
  BY <1>3, <1>p DEF Read, FetchSystems, FetchWebhooks, FetchList, ProbeProducers, ProbeInfo
<1>4. CASE Route
  BY <1>4, <1>p DEF Route, Reconcile, NextRepo, EnsureIssueExists, ListOpen,
                    CloseIssueIfOpen, RepoDone
<1>5. CASE Authorise
  BY <1>5 DEF Authorise, Written
<1>6. ASSUME NEW a \in Artifacts, FetchFile(a) PROVE Written'
  <2>1. /\ Rendered(model)' = Rendered(model) /\ out' = out /\ changed' = changed
        /\ todo' = todo \ {a} /\ pc = "fetch"
    BY <1>6 DEF FetchFile, Fault, Rendered, Diagram, DrawnSync, Connected
  <2>2. ASSUME ~writeErr'
        PROVE  ~writeErr /\ ((pc' = "put" /\ file'[1] = a) \/ out[a] = Rendered(model)[a])
    BY <1>6, <2>2 DEF FetchFile
  <2>3. ASSUME ~changed', ~writeErr', NEW b \in Artifacts \ todo', pc' = "fetch" \/ pc' = "put"
        PROVE  (pc' = "put" /\ b = file'[1]) \/ out[b] = Rendered(model)[b]
    <3>1. b = a \/ b \in Artifacts \ todo
      BY <2>1, <2>3
    <3>2. CASE b = a
      BY <2>2, <2>3, <3>2
    <3>3. CASE b \in Artifacts \ todo
      BY <2>1, <2>2, <2>3, <3>3 DEF Written
    <3> QED
      BY <3>1, <3>2, <3>3
  <2> QED
    BY <2>1, <2>3 DEF Written
<1>7. CASE PutFile
  <2>1. /\ Rendered(model)' = Rendered(model) /\ changed' = changed /\ pc = "put"
        /\ todo' = todo /\ pc' = "fetch"
    BY <1>7 DEF PutFile, Fault, Rendered, Diagram, DrawnSync, Connected
  <2>2. ASSUME ~writeErr'
        PROVE  ~writeErr
               /\ out' = [out EXCEPT ![file[1]] = Rendered(model)[file[1]]]
    BY <1>7, <2>2 DEF PutFile, TypeOK
  <2>3. ASSUME ~changed', ~writeErr', NEW b \in Artifacts \ todo'
        PROVE  out'[b] = Rendered(model)[b]
    <3>1. file[1] \in Artifacts /\ out \in [Artifacts -> Contents]
      BY DEF TypeOK
    <3>2. b = file[1] \/ out[b] = Rendered(model)[b]
      BY <2>1, <2>2, <2>3 DEF Written
    <3> QED
      BY <2>2, <2>3, <3>1, <3>2
  <2> QED
    BY <2>1, <2>3 DEF Written
<1>8. CASE Finish
  BY <1>8, <1>p DEF Finish
<1>9. CASE Crash
  BY <1>9, <1>p DEF Crash
<1>10. CASE ConfigyChanges \/ SystemChanges \/ GitHubEdited
  BY <1>10, <1>c DEF ConfigyChanges, SystemChanges, GitHubEdited, Edit
<1>11. CASE UNCHANGED vars
  BY <1>11 DEF vars, Written, Rendered, Diagram, DrawnSync, Connected
<1> QED
  BY <1>1, <1>2, <1>3, <1>4, <1>5, <1>6, <1>7, <1>8, <1>9, <1>10, <1>11
     DEF Next, Run, Write

LEMMA FreshStep == IInv /\ [Next]_vars => SuccessIsFresh'
<1> SUFFICES ASSUME IInv, [Next]_vars PROVE SuccessIsFresh'
  OBVIOUS
<1> USE DEF Outside, sources, reading, routing, writing, history, Goto, End
<1>p. ASSUME pc' # "idle" PROVE SuccessIsFresh'
  BY <1>p DEF SuccessIsFresh
<1>o. ASSUME outcome' # "success" PROVE SuccessIsFresh'
  BY <1>o DEF SuccessIsFresh
<1>c. ASSUME changed' PROVE SuccessIsFresh'
  BY <1>c DEF SuccessIsFresh
<1>1. CASE Start
  BY <1>1, <1>p DEF Start
<1>2. CASE ReadFails
  BY <1>2, <1>o DEF ReadFails
<1>3. CASE Read
  BY <1>3, <1>p DEF Read, FetchSystems, FetchWebhooks, FetchList, ProbeProducers, ProbeInfo
<1>4. CASE Route
  BY <1>4, <1>p DEF Route, Reconcile, NextRepo, EnsureIssueExists, ListOpen,
                    CloseIssueIfOpen, RepoDone
<1>5. CASE Authorise
  BY <1>5, <1>p, <1>o DEF Authorise
<1>6. ASSUME NEW a \in Artifacts, FetchFile(a) PROVE SuccessIsFresh'
  BY <1>6, <1>p DEF FetchFile
<1>7. CASE PutFile
  BY <1>7, <1>p DEF PutFile
<1>8. CASE Finish
  <2>1. Truth' = Truth /\ out' = out
    BY <1>8, TruthKept DEF Finish
  <2>2. ASSUME outcome' = "success", ~changed', ~blind' PROVE out = Rendered(Truth)
    <3>1. ~writeErr /\ ~changed /\ ~blind /\ pc = "fetch" /\ todo = {}
      BY <1>8, <2>2 DEF Finish
    <3>2. model = Truth
      BY <3>1 DEF IInv, ReadsTrue
    <3>3. \A a \in Artifacts : out[a] = Rendered(Truth)[a]
      BY <3>1, <3>2 DEF IInv, Written
    <3>4. out = [a \in Artifacts |-> out[a]]
      BY DEF IInv, TypeOK
    <3>5. Rendered(Truth) = [a \in Artifacts |-> Rendered(Truth)[a]]
      BY TruthTyped, RenderedTyped DEF IInv
    <3> QED
      BY <3>3, <3>4, <3>5
  <2> QED
    BY <2>1, <2>2 DEF SuccessIsFresh, Rendered, Diagram, DrawnSync, Connected
<1>9. CASE Crash
  BY <1>9, <1>o DEF Crash
<1>10. CASE ConfigyChanges \/ SystemChanges \/ GitHubEdited
  BY <1>10, <1>c DEF ConfigyChanges, SystemChanges, GitHubEdited, Edit
<1>11. CASE UNCHANGED vars
  <2>1. Truth' = Truth
    BY <1>11, TruthKept DEF vars
  <2> QED
    BY <1>11, <2>1 DEF vars, IInv, SuccessIsFresh, Rendered, Diagram, DrawnSync, Connected
<1> QED
  BY <1>1, <1>2, <1>3, <1>4, <1>5, <1>6, <1>7, <1>8, <1>9, <1>10, <1>11
     DEF Next, Run, Write

LEMMA Inductive == IInv /\ [Next]_vars => IInv'
BY TypeStep, ReadsStep, WrittenStep, FreshStep DEF IInv

LEMMA InitInv == Init => IInv /\ BatchTrue /\ ModelClosed
BY TypeInit DEF IInv, Init, ReadsTrue, Written, SuccessIsFresh, BatchTrue, ModelClosed, Empty

(* SuccessIsFresh, of the error generateAndCommitC4 returns: success is     *)
(* reported only of artifacts that show the estate.                         *)
THEOREM SuccessTold == Spec => []SuccessIsFresh
<1>1. IInv => SuccessIsFresh
  BY DEF IInv
<1> QED
  BY InitInv, Inductive, <1>1, PTL DEF Spec
-----------------------------------------------------------------------------
(* The issues in hand keep to the divergences of the model.                 *)
LEMMA BatchStep == BatchTrue /\ [Next]_vars => BatchTrue'
<1> SUFFICES ASSUME BatchTrue, [Next]_vars PROVE BatchTrue'
  OBVIOUS
<1> USE DEF Outside, sources, reading, routing, writing, history, Goto, End
<1>p. ASSUME pc' \notin {"ensure", "close"} PROVE BatchTrue'
  BY <1>p DEF BatchTrue
<1>u. ASSUME UNCHANGED <<pc, model, batch>> PROVE BatchTrue'
  BY <1>u DEF BatchTrue
<1>1. CASE Start \/ ReadFails \/ Crash \/ Write
  BY <1>1, <1>p DEF Start, ReadFails, Crash, Write, Authorise, FetchFile, PutFile, Finish
<1>2. CASE Read
  BY <1>2, <1>p DEF Read, FetchSystems, FetchWebhooks, FetchList, ProbeProducers, ProbeInfo
<1>3. CASE Reconcile \/ RepoDone
  BY <1>3, <1>p DEF Reconcile, RepoDone
<1>4. ASSUME NEW r \in Systems, NextRepo(r) PROVE BatchTrue'
  BY <1>4 DEF NextRepo, BatchTrue
<1>5. ASSUME NEW d \in Divergences, EnsureIssueExists(d) PROVE BatchTrue'
  BY <1>5 DEF EnsureIssueExists, BatchTrue
<1>6. CASE ListOpen
  BY <1>6 DEF ListOpen, BatchTrue
<1>7. ASSUME NEW d \in Divergences, CloseIssueIfOpen(d) PROVE BatchTrue'
  BY <1>7 DEF CloseIssueIfOpen, BatchTrue
<1>8. CASE ConfigyChanges \/ SystemChanges \/ GitHubEdited
  BY <1>8, <1>u DEF ConfigyChanges, SystemChanges, GitHubEdited, Edit
<1>9. CASE UNCHANGED vars
  BY <1>9, <1>u DEF vars
<1> QED
  BY <1>1, <1>2, <1>3, <1>4, <1>5, <1>6, <1>7, <1>8, <1>9 DEF Next, Run, Route

(* The issues of what diverges, and of what does not, when the model is     *)
(* true.                                                                    *)
IssuesKept ==
    events' = events /\ ~changed /\ ~blind =>
        /\ issues' \ issues \subseteq Truth.divs
        /\ Truth.divs \cap issues \subseteq issues'

LEMMA IssuesStep == IInv /\ BatchTrue /\ [Next]_vars => IssuesKept
<1> SUFFICES ASSUME IInv, BatchTrue, [Next]_vars, events' = events, ~changed, ~blind
             PROVE  /\ issues' \ issues \subseteq Truth.divs
                    /\ Truth.divs \cap issues \subseteq issues'
  BY DEF IssuesKept
<1> USE DEF Outside, sources, reading, routing, writing, history
<1>u. ASSUME issues' = issues
      PROVE  /\ issues' \ issues \subseteq Truth.divs
             /\ Truth.divs \cap issues \subseteq issues'
  BY <1>u
<1>1. CASE Start \/ ReadFails \/ Crash \/ Write
  BY <1>1, <1>u DEF Start, ReadFails, Crash, Write, Authorise, FetchFile, PutFile, Finish
<1>2. CASE Read
  BY <1>2, <1>u DEF Read, FetchSystems, FetchWebhooks, FetchList, ProbeProducers, ProbeInfo
<1>3. CASE Reconcile \/ RepoDone \/ ListOpen
  BY <1>3, <1>u DEF Reconcile, RepoDone, ListOpen
<1>4. ASSUME NEW r \in Systems, NextRepo(r) PROVE issues' = issues
  BY <1>4 DEF NextRepo
<1>5. ASSUME NEW d \in Divergences, EnsureIssueExists(d)
      PROVE  /\ issues' \ issues \subseteq Truth.divs
             /\ Truth.divs \cap issues \subseteq issues'
  <2>1. model = Truth /\ d \in model.divs
    BY <1>5 DEF EnsureIssueExists, IInv, ReadsTrue, BatchTrue
  <2>2. issues' \in {issues, issues \cup {d}}
    BY <1>5 DEF EnsureIssueExists
  <2> QED
    BY <2>1, <2>2
<1>6. ASSUME NEW d \in Divergences, CloseIssueIfOpen(d)
      PROVE  /\ issues' \ issues \subseteq Truth.divs
             /\ Truth.divs \cap issues \subseteq issues'
  <2>1. model = Truth /\ d \notin model.divs
    BY <1>6 DEF CloseIssueIfOpen, IInv, ReadsTrue, BatchTrue
  <2>2. issues' \in {issues, issues \ {d}}
    BY <1>6 DEF CloseIssueIfOpen
  <2> QED
    BY <2>1, <2>2
<1>7. CASE ConfigyChanges \/ SystemChanges \/ GitHubEdited
  <2>1. events' = events + 1 /\ events \in Nat
    BY <1>7 DEF ConfigyChanges, SystemChanges, GitHubEdited, Edit, IInv, TypeOK
  <2> QED
    BY <2>1
<1>8. CASE UNCHANGED vars
  BY <1>8, <1>u DEF vars
<1> QED
  BY <1>1, <1>2, <1>3, <1>4, <1>5, <1>6, <1>7, <1>8, <1>u DEF Next, Run, Route

(* IssuesTrue, of routeC4DivergencesToIssues: while the sources stand still *)
(* and answer, only issues of true divergences are raised, and none of them *)
(* is closed.                                                               *)
THEOREM IssuesToldTrue == Spec => IssuesTrue
<1>1. IInv /\ BatchTrue /\ [Next]_vars => IInv' /\ BatchTrue'
  BY Inductive, BatchStep
<1>2. IInv /\ BatchTrue /\ [Next]_vars => [IssuesKept]_vars
  BY IssuesStep
<1> QED
  BY InitInv, <1>1, <1>2, PTL DEF Spec, IssuesTrue, IssuesKept

-----------------------------------------------------------------------------
(* The model stays closed, whatever changes between two reads.              *)
LEMMA ClosedStep == TypeOK /\ ReadsTrue /\ ModelClosed /\ [Next]_vars => ModelClosed'
<1> SUFFICES ASSUME TypeOK, ReadsTrue, ModelClosed, [Next]_vars PROVE ModelClosed'
  OBVIOUS
<1> USE DEF Outside, sources, reading, routing, writing, history
<1>u. ASSUME model' = model PROVE ModelClosed'
  BY <1>u DEF ModelClosed
<1>1. CASE Start
  BY <1>1 DEF Start, ModelClosed, Empty
<1>2. CASE FetchSystems
  <2>1. model = Empty
    BY <1>2 DEF FetchSystems, ReadsTrue
  <2>2. model'.async = {} /\ model'.sync = {}
    BY <1>2, <2>1 DEF FetchSystems, Empty
  <2> QED
    BY <2>2 DEF ModelClosed
<1>3. CASE FetchWebhooks
  <2>1. /\ model'.systems = model.systems /\ model'.sync = model.sync
        /\ model'.async = AsyncEdges(model.systems)
    BY <1>3 DEF FetchWebhooks, TypeOK, Models
  <2> QED
    BY <2>1 DEF ModelClosed, AsyncEdges
<1>4. CASE FetchList \/ Reconcile \/ RepoDone \/ ListOpen
  BY <1>4, <1>u DEF FetchList, Reconcile, RepoDone, ListOpen
<1>5. CASE ProbeProducers
  <2>1. /\ model'.systems = model.systems /\ model'.sync = model.sync
        /\ model'.async = model.async
    BY <1>5 DEF ProbeProducers, TypeOK, Models
  <2> QED
    BY <2>1 DEF ModelClosed
<1>6. ASSUME NEW s \in Systems, ProbeInfo(s) PROVE ModelClosed'
  <2>1. /\ model'.systems = model.systems /\ model'.async = model.async
        /\ model'.sync = model.sync \/ model'.sync = model.sync \cup SyncEdges(s)
    BY <1>6 DEF ProbeInfo, TypeOK, Models
  <2>2. s \in model.systems
    BY <1>6 DEF ProbeInfo, ReadsTrue
  <2>3. \A e \in SyncEdges(s) : e[1] = s
    BY DEF SyncEdges
  <2> QED
    BY <2>1, <2>2, <2>3 DEF ModelClosed
<1>7. ASSUME NEW r \in Systems, NextRepo(r) PROVE ModelClosed'
  BY <1>7, <1>u DEF NextRepo
<1>8. ASSUME NEW d \in Divergences, EnsureIssueExists(d) \/ CloseIssueIfOpen(d)
      PROVE  ModelClosed'
  BY <1>8, <1>u DEF EnsureIssueExists, CloseIssueIfOpen
<1>9. CASE ReadFails \/ Crash \/ Write
  BY <1>9, <1>u DEF ReadFails, Crash, Write, Authorise, FetchFile, PutFile, Finish
<1>10. CASE ConfigyChanges \/ SystemChanges \/ GitHubEdited
  BY <1>10, <1>u DEF ConfigyChanges, SystemChanges, GitHubEdited, Edit
<1>11. CASE UNCHANGED vars
  BY <1>11, <1>u DEF vars
<1> QED
  BY <1>1, <1>2, <1>3, <1>4, <1>5, <1>6, <1>7, <1>8, <1>9, <1>10, <1>11
     DEF Next, Run, Read, Route

(* A diagram rendered from a closed model declares the ends of its edges.   *)
LEMMA RenderedDeclared ==
    ASSUME NEW m \in Models, m.async \subseteq m.systems,
           \A e \in m.sync : e[1] \in m.systems,
           NEW a \in {"model.dsl", "landscape.md"}
    PROVE  /\ Rendered(m)[a].sync \subseteq Rendered(m)[a].nodes \X Rendered(m)[a].nodes
           /\ Rendered(m)[a].async \cup Rendered(m)[a].prod \subseteq Rendered(m)[a].nodes
<1>1. \A e \in DrawnSync(m) : e = <<e[1], e[2]>> /\ e[1] \in m.systems /\ e[2] \in m.systems
  BY DEF DrawnSync, Models
<1>2. CASE a = "model.dsl"
  <2>1. Rendered(m)[a] = Diagram(m.systems \cup m.prod, m)
    BY <1>2 DEF Rendered, Artifacts
  <2> QED
    BY <1>1, <2>1 DEF Diagram
<1>3. CASE a = "landscape.md"
  <2>1. Rendered(m)[a] = Diagram(Connected(m), m)
    BY <1>3 DEF Rendered, Artifacts
  <2>2. \A e \in DrawnSync(m) : e[1] \in Connected(m) /\ e[2] \in Connected(m)
    BY DEF Connected
  <2>3. m.async \cup m.prod \subseteq Connected(m)
    BY DEF Connected
  <2> QED
    BY <1>1, <2>1, <2>2, <2>3 DEF Diagram
<1> QED
  BY <1>2, <1>3

LEMMA DeclaredStep ==
    TypeOK /\ ModelClosed /\ EdgesDeclared /\ [Next]_vars => EdgesDeclared'
<1> SUFFICES ASSUME TypeOK, ModelClosed, EdgesDeclared, [Next]_vars PROVE EdgesDeclared'
  OBVIOUS
<1> USE DEF Outside, sources, reading, routing, writing, history
<1>u. ASSUME out' = out PROVE EdgesDeclared'
  BY <1>u DEF EdgesDeclared
<1>1. CASE PutFile
  <2> SUFFICES ASSUME NEW a \in {"model.dsl", "landscape.md"}
               PROVE  \/ out'[a] \in {Absent, Edited}
                      \/ /\ out'[a].sync \subseteq out'[a].nodes \X out'[a].nodes
                         /\ out'[a].async \cup out'[a].prod \subseteq out'[a].nodes
    BY DEF EdgesDeclared
  <2>1. out' = out \/ out' = [out EXCEPT ![file[1]] = Rendered(model)[file[1]]]
    BY <1>1 DEF PutFile
  <2>2. a \in Artifacts
    BY DEF Artifacts
  <2>3. out'[a] = out[a] \/ out'[a] = Rendered(model)[a]
    BY <2>1, <2>2 DEF TypeOK
  <2>4. CASE out'[a] = out[a]
    BY <2>4 DEF EdgesDeclared
  <2>5. CASE out'[a] = Rendered(model)[a]
    BY <2>5, RenderedDeclared DEF ModelClosed, TypeOK
  <2> QED
    BY <2>3, <2>4, <2>5
<1>2. CASE GitHubEdited
  <2>1. out' = out \/ \E a \in Artifacts : out' = [out EXCEPT ![a] = Edited]
    BY <1>2 DEF GitHubEdited
  <2>2. CASE \E a \in Artifacts : out' = [out EXCEPT ![a] = Edited]
    <3> SUFFICES ASSUME NEW a \in {"model.dsl", "landscape.md"}
                 PROVE  out'[a] = Edited \/ out'[a] = out[a]
      BY DEF EdgesDeclared
    <3>1. a \in Artifacts
      BY DEF Artifacts
    <3> QED
      BY <2>2, <3>1 DEF TypeOK
  <2> QED
    BY <2>1, <2>2, <1>u
<1>3. CASE Start \/ ReadFails \/ Crash \/ Authorise \/ Finish
  BY <1>3, <1>u DEF Start, ReadFails, Crash, Authorise, Finish
<1>4. CASE Read
  BY <1>4, <1>u DEF Read, FetchSystems, FetchWebhooks, FetchList, ProbeProducers, ProbeInfo
<1>5. CASE Route
  BY <1>5, <1>u DEF Route, Reconcile, NextRepo, EnsureIssueExists, ListOpen,
                    CloseIssueIfOpen, RepoDone
<1>6. ASSUME NEW a \in Artifacts, FetchFile(a) PROVE EdgesDeclared'
  BY <1>6, <1>u DEF FetchFile
<1>7. CASE ConfigyChanges \/ SystemChanges
  BY <1>7, <1>u DEF ConfigyChanges, SystemChanges, Edit
<1>8. CASE UNCHANGED vars
  BY <1>8, <1>u DEF vars
<1> QED
  BY <1>1, <1>2, <1>3, <1>4, <1>5, <1>6, <1>7, <1>8 DEF Next, Run, Write

(* EdgesDeclared, of generateC4DSL and generateC4Mermaid: however the lists *)
(* change while they are read, no committed diagram has an edge whose ends  *)
(* it does not declare.                                                     *)
THEOREM DiagramsClosed == Spec => []EdgesDeclared
<1>1. Init => EdgesDeclared
  BY DEF Init, EdgesDeclared, Artifacts
<1>2. IInv /\ ModelClosed /\ EdgesDeclared /\ [Next]_vars
        => IInv' /\ ModelClosed' /\ EdgesDeclared'
  BY Inductive, ClosedStep, DeclaredStep DEF IInv
<1> QED
  BY InitInv, <1>1, <1>2, PTL DEF Spec
=============================================================================
