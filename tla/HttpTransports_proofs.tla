----------------------- MODULE HttpTransports_proofs -----------------------
(***************************************************************************)
(* For every number of goroutines, every interval and every lateness of    *)
(* sleepers, the throttle keeps requests MinInterval - MaxOversleep apart. *)
(*                                                                         *)
(* The step property needs an invariant over the slots that were reserved  *)
(* and not yet used: they are MinInterval apart from each other, none is   *)
(* beyond `last', none is overdue by more than MaxOversleep, and when that *)
(* lateness is smaller than the interval, each lies far enough after the   *)
(* request that left last.                                                 *)
(*                                                                         *)
(* No slot is lost (NoSlotLost): `last' moves one interval with each slot  *)
(* that is reserved, and a slot that is used lies in the past.  Agreement  *)
(* needs that, while calls do not overlap, whatever a check got through    *)
(* the cache is what the cache holds for the URL.  LimitMetTwice needs     *)
(* that a limit that is passed on was met by a second attempt.             *)
(***************************************************************************)
EXTENDS HttpTransports, FiniteSetTheorems, TLAPS

Slack == MinInterval - MaxOversleep

(* Two slots that are both reserved lie at least an interval apart.         *)
SlotsApart ==
    \A c, d \in Slotted :
        c # d => \/ call[c].until + MinInterval <= call[d].until
                 \/ call[d].until + MinInterval <= call[c].until

(* A reserved slot is at most `last' and not overdue; one that comes after  *)
(* the latest start keeps the distance from it.                             *)
SlotsAhead ==
    \A c \in Slotted :
        /\ call[c].until \in Int
        /\ call[c].until <= last
        /\ now <= call[c].until + MaxOversleep
        /\ Slack > 0 => lastStart + Slack <= call[c].until

(* The latest start lies in the past, and the next slot to be reserved      *)
(* keeps the distance from it.                                              *)
StartsBehind ==
    /\ lastStart <= now
    /\ lastStart <= last + MaxOversleep

SpacingInv == TypeOK /\ SlotsApart /\ SlotsAhead /\ StartsBehind

-----------------------------------------------------------------------------
(* The changes the actions make to the record of a call keep its type: to   *)
(* its stage,                                                               *)
LEMMA StageTyped ==
    ASSUME NEW r \in Call, NEW s \in Stages
    PROVE  [r EXCEPT !.stage = s] \in Call
BY DEF Call

(* to its stage and its deadline,                                           *)
LEMMA SleepTyped ==
    ASSUME NEW r \in Call, NEW s \in Stages, NEW t \in Int
    PROVE  [r EXCEPT !.stage = s, !.until = t] \in Call
BY DEF Call

(* to its stage and its response, the deadline forgotten,                   *)
LEMMA AwakeTyped ==
    ASSUME NEW r \in Call, NEW s \in Stages, NEW p \in Outcome
    PROVE  [r EXCEPT !.response = p, !.stage = s, !.until = 0] \in Call
<1> DEFINE answered == [r EXCEPT !.response = p]
<1>1. answered \in Call
  BY SMTT(30) DEF Call
<1> HIDE DEF answered
<1>2. 0 \in Int
  OBVIOUS
<1>3. [answered EXCEPT !.stage = s, !.until = 0] \in Call
  BY <1>1, <1>2, SleepTyped
<1> QED
  BY <1>3 DEF answered

(* and to the second attempt.                                               *)
LEMMA SecondTyped ==
    ASSUME NEW r \in Call, NEW s \in Stages, NEW t \in Int
    PROVE  [r EXCEPT !.attempt = 2, !.stage = s, !.until = t] \in Call
<1> DEFINE second == [r EXCEPT !.attempt = 2]
<1>1. second \in Call
  BY DEF Call
<1> HIDE DEF second
<1>2. [second EXCEPT !.stage = s, !.until = t] \in Call
  BY <1>1, SleepTyped
<1> QED
  BY <1>2 DEF second

(* A step of one call leaves the records of the other callers alone and     *)
(* gives its own the stage and the deadline the action says.                *)
LEMMA TypeCallStep ==
    ASSUME TypeOK, NEW c \in Callers, CallStep(c)
    PROVE  TypeOK'
<1> DEFINE Becomes(r) == call' = [call EXCEPT ![c] = r]
<1>0. call[c] \in Call
  BY DEF TypeOK
<1>1. ASSUME NEW r \in Call, Becomes(r)
      PROVE  call' \in [Callers -> Call]
  BY <1>1 DEF TypeOK
<1> HIDE DEF Becomes
<1>2. CASE Reserve(c)
  <2> DEFINE r == [call[c] EXCEPT !.stage = "slotted", !.until = NextSlot]
  <2>1. Becomes(r)
    BY <1>2 DEF Becomes, Reserve
  <2>2. NextSlot \in Nat /\ NextSlot \in Int
    BY ConstantsAssumption DEF NextSlot, TypeOK
  <2>3. r \in Call
    BY <1>0, <2>2, SleepTyped DEF Stages
  <2> QED
    BY <1>2, <1>1, <2>1, <2>2, <2>3 DEF Reserve, TypeOK
<1>3. CASE Send(c)
  <2>1. PICK p \in Response :
           call' = [call EXCEPT ![c].response = p, ![c].stage = "answered", ![c].until = 0]
    BY <1>3 DEF Send
  <2> DEFINE r == [call[c] EXCEPT !.response = p, !.stage = "answered", !.until = 0]
  <2>2. Becomes(r)
    BY <2>1 DEF Becomes
  <2>3. r \in Call
    BY <1>0, AwakeTyped DEF Stages, Outcome
  <2> QED
    BY <1>3, <1>1, <2>2, <2>3 DEF Send, TypeOK
<1>4. CASE SendFails(c)
  <2> DEFINE r == [call[c] EXCEPT !.response = Nothing, !.stage = "idle", !.until = 0]
  <2>1. Becomes(r)
    BY <1>4 DEF Becomes, SendFails, Fail
  <2>2. r \in Call
    BY <1>0, AwakeTyped DEF Stages, Outcome
  <2> QED
    BY <1>4, <1>1, <2>1, <2>2 DEF SendFails, TypeOK
<1>5. CASE PassOn(c)
  <2> DEFINE r == [call[c] EXCEPT !.stage = "passed"]
  <2>1. Becomes(r)
    BY <1>5 DEF Becomes, PassOn
  <2>2. r \in Call
    BY <1>0, StageTyped DEF Stages
  <2> QED
    BY <1>5, <1>1, <2>1, <2>2 DEF PassOn, TypeOK
<1>6. CASE GiveUp(c)
  <2> DEFINE r == [call[c] EXCEPT !.response = Nothing, !.stage = "idle", !.until = 0]
  <2>1. Becomes(r)
    BY <1>6 DEF Becomes, GiveUp, Fail
  <2>2. r \in Call
    BY <1>0, AwakeTyped DEF Stages, Outcome
  <2> QED
    BY <1>6, <1>1, <2>1, <2>2 DEF GiveUp, TypeOK
<1>7. CASE WaitForReset(c)
  <2> DEFINE wait == call[c].response.data
             r == [call[c] EXCEPT !.attempt = 2, !.stage = "waiting", !.until = now + wait]
  <2>1. wait \in Int
    BY <1>7, ConstantsAssumption
    DEF WaitForReset, RateLimited, Bearable, Limited
  <2>2. now + wait \in Int /\ call[c].attempt + 1 = 2
    BY <1>7, <2>1 DEF WaitForReset, RateLimited, TypeOK
  <2>3. Becomes(r)
    BY <1>7, <2>2 DEF Becomes, WaitForReset
  <2>4. r \in Call
    BY <1>0, <2>2, SecondTyped DEF Stages
  <2> QED
    BY <1>7, <1>1, <2>3, <2>4 DEF WaitForReset, TypeOK
<1>8. CASE Retry(c)
  <2> DEFINE r == [call[c] EXCEPT !.response = Nothing, !.stage = "missed", !.until = 0]
  <2>1. Becomes(r)
    BY <1>8 DEF Becomes, Retry
  <2>2. r \in Call
    BY <1>0, AwakeTyped DEF Stages, Outcome
  <2> QED
    BY <1>8, <1>1, <2>1, <2>2 DEF Retry, TypeOK
<1>9. CASE Store(c)
  <2> DEFINE r == [call[c] EXCEPT !.stage = "idle"]
  <2>1. Becomes(r)
    BY <1>9 DEF Becomes, Store
  <2>2. r \in Call
    BY <1>0, StageTyped DEF Stages
  <2>3. cache' \in [Urls -> Outcome]
    BY <1>9, <1>0 DEF Store, TypeOK, Call
  <2> QED
    BY <1>9, <1>1, <2>1, <2>2, <2>3 DEF Store, TypeOK
<1> QED
  BY <1>2, <1>3, <1>4, <1>5, <1>6, <1>7, <1>8, <1>9 DEF CallStep

(* The variables keep their types: every step of every goroutine, and the   *)
(* passing of time.                                                         *)
LEMMA TypeStep == TypeOK /\ [Next]_vars => TypeOK'
<1> SUFFICES ASSUME TypeOK, [Next]_vars PROVE TypeOK'
  OBVIOUS
<1>1. ASSUME NEW c \in Callers, NEW u \in Urls, NEW useCache \in BOOLEAN,
             Lookup(c, u, useCache)
      PROVE  TypeOK'
  <2>1. calls' \in 0..MaxCalls
    BY <1>1, ConstantsAssumption DEF Lookup, TypeOK
  <2>2. call' \in [Callers -> Call]
    BY <1>1 DEF Lookup, TypeOK, Call, Stages, Outcome
  <2> QED
    BY <1>1, <2>1, <2>2 DEF Lookup, TypeOK
<1>2. CASE Tick
  BY <1>2 DEF Tick, TypeOK
<1>3. CASE UNCHANGED vars
  BY <1>3 DEF vars, TypeOK
<1> QED
  BY <1>1, <1>2, <1>3, TypeCallStep DEF Next

(* A step that reserves no slot, sends nothing and lets no time pass keeps  *)
(* the spacing: it takes no goroutine into the sleep before a slot.         *)
LEMMA SpacingKept ==
    ASSUME SpacingInv, TypeOK',
           UNCHANGED <<now, last, lastStart>>,
           Slotted' \subseteq Slotted,
           \A c \in Slotted' : call'[c].until = call[c].until
    PROVE  SpacingInv'
BY DEF SpacingInv, SlotsApart, SlotsAhead, StartsBehind

(* A start comes at least MinInterval - MaxOversleep after the one before.  *)
LEMMA StartSpacing ==
    ASSUME SpacingInv, NEW c \in Slotted, call[c].until <= now
    PROVE  now - lastStart >= Slack
BY ConstantsAssumption
DEF SpacingInv, SlotsAhead, StartsBehind, TypeOK, Slack

(* Using a slot: the others keep the distance from the start, because a     *)
(* slot before the one that is used would be overdue by now.                *)
LEMMA SpacingStart ==
    ASSUME SpacingInv, TypeOK', NEW c \in Callers, Send(c) \/ SendFails(c)
    PROVE  SpacingInv'
<1>1. /\ c \in Slotted
      /\ call[c].until <= now
      /\ lastStart' = now
      /\ UNCHANGED <<now, last>>
  BY DEF Send, SendFails, Slotted
<1>2. /\ Slotted' = Slotted \ {c}
      /\ \A d \in Slotted' : call'[d] = call[d]
  <2>1. PICK r : \/ call' = [call EXCEPT ![c].response = r, ![c].stage = "answered", ![c].until = 0]
                 \/ call' = [call EXCEPT ![c].response = r, ![c].stage = "idle", ![c].until = 0]
    BY DEF Send, SendFails, Fail
  <2>2. /\ call'[c].stage # "slotted"
        /\ \A d \in Callers \ {c} : call'[d] = call[d]
    BY <2>1 DEF SpacingInv, TypeOK, Call
  <2> QED
    BY <2>2 DEF Slotted
<1>3. SlotsApart'
  BY <1>2 DEF SpacingInv, SlotsApart
<1>4. ASSUME NEW d \in Slotted', Slack > 0
      PROVE  now + Slack <= call[d].until
  <2>1. d \in Slotted /\ d # c
    BY <1>2
  <2>2. \/ call[c].until + MinInterval <= call[d].until
        \/ call[d].until + MinInterval <= call[c].until
    BY <1>1, <2>1 DEF SpacingInv, SlotsApart
  <2>3. /\ call[c].until \in Int /\ call[d].until \in Int
        /\ now <= call[c].until + MaxOversleep
        /\ now <= call[d].until + MaxOversleep
    BY <1>1, <2>1 DEF SpacingInv, SlotsAhead
  <2> QED
    BY <1>1, <1>4, <2>2, <2>3, ConstantsAssumption DEF Slack, SpacingInv, TypeOK
<1>5. SlotsAhead'
  BY <1>1, <1>2, <1>4 DEF SpacingInv, SlotsAhead, Slack
<1>6. StartsBehind'
  <2>1. /\ call[c].until \in Int
        /\ call[c].until <= last
        /\ now <= call[c].until + MaxOversleep
    BY <1>1 DEF SpacingInv, SlotsAhead
  <2> QED
    BY <1>1, <2>1, ConstantsAssumption DEF StartsBehind, SpacingInv, TypeOK
<1> QED
  BY <1>3, <1>5, <1>6 DEF SpacingInv

(* Reserving a slot: it is an interval beyond `last', hence beyond every    *)
(* slot reserved before, and far enough after the latest start.             *)
LEMMA SpacingReserve ==
    ASSUME SpacingInv, TypeOK', NEW c \in Callers, Reserve(c)
    PROVE  SpacingInv'
<1>1. /\ call' = [call EXCEPT ![c].stage = "slotted", ![c].until = NextSlot]
      /\ last' = NextSlot
      /\ UNCHANGED <<now, lastStart>>
      /\ c \notin Slotted
  BY DEF Reserve, Slotted
<1>2. /\ NextSlot \in Int
      /\ NextSlot >= last + MinInterval
      /\ NextSlot >= now
  BY ConstantsAssumption DEF NextSlot, SpacingInv, TypeOK
<1>3. /\ Slotted' = Slotted \cup {c}
      /\ call'[c].until = NextSlot
      /\ \A d \in Slotted : call'[d] = call[d] /\ d # c
  <2>1. call'[c].stage = "slotted" /\ call'[c].until = NextSlot
    BY <1>1 DEF SpacingInv, TypeOK, Call
  <2>2. \A d \in Callers \ {c} : call'[d] = call[d]
    BY <1>1 DEF SpacingInv, TypeOK
  <2> QED
    BY <1>1, <2>1, <2>2 DEF Slotted
<1>4. \A d \in Slotted : /\ call[d].until \in Int
                         /\ call[d].until + MinInterval <= NextSlot
  BY <1>2, ConstantsAssumption DEF SpacingInv, SlotsAhead, TypeOK
<1>5. SlotsApart'
  BY <1>3, <1>4 DEF SpacingInv, SlotsApart
<1>6. lastStart + Slack <= NextSlot
  BY <1>2, ConstantsAssumption DEF SpacingInv, StartsBehind, Slack, TypeOK
<1>7. SlotsAhead'
  <2>1. \A d \in Slotted : call[d].until <= NextSlot
    BY <1>4, <1>2, ConstantsAssumption
  <2>2. now <= NextSlot + MaxOversleep
    BY <1>2, ConstantsAssumption DEF SpacingInv, TypeOK
  <2>3. SlotsAhead
    BY DEF SpacingInv
  <2>4. \A d \in Slotted : /\ call'[d].until \in Int
                           /\ call'[d].until <= last'
                           /\ now' <= call'[d].until + MaxOversleep
                           /\ Slack > 0 => lastStart' + Slack <= call'[d].until
    BY <1>1, <1>3, <2>1, <2>3 DEF SlotsAhead
  <2>5. /\ call'[c].until = NextSlot
        /\ Slotted' = Slotted \cup {c}
        /\ NextSlot \in Int /\ NextSlot <= NextSlot
        /\ now <= NextSlot + MaxOversleep
        /\ lastStart + Slack <= NextSlot
    BY <1>2, <1>3, <1>6, <2>2
  <2> QED
    BY <1>1, <2>4, <2>5 DEF SlotsAhead, Slack
<1>8. StartsBehind'
  BY <1>1, <1>2, ConstantsAssumption DEF SpacingInv, StartsBehind, TypeOK
<1> QED
  BY <1>5, <1>7, <1>8 DEF SpacingInv

(* The spacing of slots is inductive.                                       *)
LEMMA SpacingStep == SpacingInv /\ [Next]_vars => SpacingInv'
<1> SUFFICES ASSUME SpacingInv, [Next]_vars PROVE SpacingInv'
  OBVIOUS
<1>0. TypeOK /\ TypeOK'
  BY TypeStep DEF SpacingInv
<1>2. ASSUME NEW c \in Callers, NEW u \in Urls, NEW useCache \in BOOLEAN,
             Lookup(c, u, useCache)
      PROVE  SpacingInv'
  <2>1. \A d \in Callers \ {c} : call'[d] = call[d]
    BY <1>0, <1>2 DEF Lookup, TypeOK
  <2>2. call'[c].stage # "slotted"
    BY <1>0, <1>2 DEF Lookup, TypeOK
  <2>3. /\ Slotted' \subseteq Slotted
        /\ \A d \in Slotted' : call'[d].until = call[d].until
    BY <2>1, <2>2 DEF Slotted
  <2> QED
    BY <1>0, <1>2, <2>3, SpacingKept DEF Lookup
<1>3. ASSUME NEW c \in Callers,
             PassOn(c) \/ GiveUp(c) \/ WaitForReset(c) \/ Retry(c) \/ Store(c)
      PROVE  SpacingInv'
  <2>1. /\ UNCHANGED <<now, last, lastStart>>
        /\ call[c].stage # "slotted"
        /\ \A d \in Callers \ {c} : call'[d] = call[d]
        /\ call'[c].stage # "slotted"
    BY <1>0, <1>3
    DEF PassOn, GiveUp, Fail, WaitForReset, Retry, Store, TypeOK, Call
  <2>2. /\ Slotted' \subseteq Slotted
        /\ \A d \in Slotted' : call'[d].until = call[d].until
    BY <2>1 DEF Slotted
  <2> QED
    BY <1>0, <2>1, <2>2, SpacingKept
<1>4. CASE Tick
  <2>1. \A d \in Slotted : now' <= call[d].until + MaxOversleep
    BY <1>0, <1>4, ConstantsAssumption
    DEF Tick, Late, SpacingInv, SlotsAhead, TypeOK
  <2>2. Slotted' = Slotted /\ UNCHANGED <<call, last, lastStart>>
    BY <1>4 DEF Tick, Slotted
  <2>3. lastStart' <= now'
    BY <1>0, <1>4 DEF Tick, SpacingInv, StartsBehind, TypeOK
  <2> QED
    BY <1>0, <2>1, <2>2, <2>3
    DEF SpacingInv, SlotsApart, SlotsAhead, StartsBehind
<1>5. CASE UNCHANGED vars
  BY <1>0, <1>5, SpacingKept DEF vars, Slotted
<1> QED
  BY <1>0, <1>2, <1>3, <1>4, <1>5, SpacingReserve, SpacingStart
  DEF Next, CallStep

(* It holds at the start: nobody holds a slot.                              *)
LEMMA SpacingInit == Init => SpacingInv
<1> SUFFICES ASSUME Init PROVE SpacingInv
  OBVIOUS
<1>1. TypeOK
  <2>1. overlapped \in BOOLEAN
    BY DEF Init
  <2> QED
    BY <2>1, ConstantsAssumption DEF Init, TypeOK, Call, Stages, Outcome
<1>2. Slotted = {}
  BY DEF Init, Slotted
<1> QED
  BY <1>1, <1>2, ConstantsAssumption
  DEF Init, SpacingInv, SlotsApart, SlotsAhead, StartsBehind

(* Only Send and SendFails let a request leave, at the slot they waited     *)
(* for.                                                                     *)
LEMMA StartsAtSlot ==
    ASSUME TypeOK, Next, NEW c \in Callers, Starts(c)
    PROVE  c \in Slotted /\ call[c].until <= now
<1>1. call[c].stage = "slotted" /\ call'[c] # call[c]
  BY DEF Starts
<1>2. ASSUME NEW d \in Callers, NEW u \in Urls, NEW useCache \in BOOLEAN,
             Lookup(d, u, useCache)
      PROVE  FALSE
  BY <1>1, <1>2 DEF Lookup, TypeOK
<1>3. ASSUME NEW d \in Callers, CallStep(d), d # c
      PROVE  FALSE
  BY <1>1, <1>3
  DEF CallStep, Reserve, Send, SendFails, Fail, PassOn, GiveUp, WaitForReset,
      Retry, Store, TypeOK
<1>4. CASE CallStep(c)
  BY <1>1, <1>4
  DEF CallStep, Reserve, Send, SendFails, PassOn, GiveUp, WaitForReset,
      Retry, Store, Slotted
<1> QED
  BY <1>1, <1>2, <1>3, <1>4 DEF Next, Tick

-----------------------------------------------------------------------------
(* The variables of the transports keep their types.                        *)
THEOREM TransportsTyped == Spec => []TypeOK
<1>1. Init => TypeOK
  BY SpacingInit DEF SpacingInv
<1> QED
  BY <1>1, TypeStep, PTL DEF Spec

(* ThrottleTransport spaces requests by its interval, less the lateness of  *)
(* a sleeper, for any number of goroutines that share it and whatever waits *)
(* RateLimitTransport puts between.                                         *)
THEOREM ThrottleSpaces == Spec => SpacedApart
<1>1. SpacingInv /\ [Next]_vars =>
        [\A c \in Callers : Starts(c) => now - lastStart >= MinInterval - MaxOversleep]_vars
  BY StartSpacing, StartsAtSlot DEF SpacingInv, Slack
<1> QED
  BY <1>1, SpacingInit, SpacingStep, PTL DEF Spec, SpacedApart

-----------------------------------------------------------------------------
(* No slot is lost: beyond any time that is not in the past, the latest     *)
(* slot lies at most an interval for each goroutine that holds a slot after *)
(* that time.  For the present alone this would not be inductive: a         *)
(* goroutine that is late may leave before one that should have left first. *)
After(t) == {c \in Slotted : call[c].until > t}

SlotsUsed ==
    \A t \in Nat : t >= now => last <= t + MinInterval * Cardinality(After(t))

UsedInv == SpacingInv /\ SlotsUsed

LEMMA AfterFinite ==
    ASSUME NEW t PROVE IsFiniteSet(After(t)) /\ Cardinality(After(t)) \in Nat
<1>1. After(t) \subseteq Callers
  BY DEF After, Slotted
<1> QED
  BY <1>1, ConstantsAssumption, FS_Subset, FS_CardinalityType

(* What keeps SlotsUsed: time does not go back, and whoever holds a slot    *)
(* after some time in the future still holds it.                            *)
LEMMA UsedKept ==
    ASSUME TypeOK, TypeOK', SlotsUsed, last' = last, now' >= now,
           \A t \in Nat : t >= now' => After(t)' = After(t)
    PROVE  SlotsUsed'
BY DEF SlotsUsed, TypeOK

LEMMA OneMoreInterval ==
    ASSUME NEW n \in Nat PROVE MinInterval * (n + 1) = MinInterval * n + MinInterval
BY ConstantsAssumption

LEMMA UsedReserve ==
    ASSUME UsedInv, TypeOK', NEW c \in Callers, Reserve(c)
    PROVE  SlotsUsed'
<1> SUFFICES ASSUME NEW t \in Nat, t >= now
             PROVE  last' <= t + MinInterval * Cardinality(After(t)')
  BY DEF SlotsUsed, Reserve
<1>0. /\ now \in Nat /\ last \in Nat /\ MinInterval \in Nat
      /\ Cardinality(After(t)) \in Nat /\ Cardinality(After(t)') \in Nat
      /\ NextSlot \in Nat /\ last' = NextSlot
  <2>1. After(t)' \subseteq Callers
    BY DEF After, Slotted
  <2> QED
    BY <2>1, AfterFinite, ConstantsAssumption, FS_Subset, FS_CardinalityType
    DEF UsedInv, SpacingInv, TypeOK, NextSlot, Reserve
<1>1. CASE NextSlot <= t
  <2>1. MinInterval * Cardinality(After(t)') \in Nat
    BY <1>0
  <2> QED
    BY <1>0, <1>1, <2>1
<1>2. CASE NextSlot > t
  <2>1. NextSlot = last + MinInterval
    BY <1>0, <1>2 DEF NextSlot
  <2>2. /\ Slotted' = Slotted \cup {c} /\ c \notin Slotted
        /\ call'[c].until = NextSlot
        /\ \A d \in Slotted : call'[d] = call[d]
    <3>1. call'[c].stage = "slotted" /\ call'[c].until = NextSlot
      BY DEF Reserve, UsedInv, SpacingInv, TypeOK, Call
    <3>2. \A d \in Callers \ {c} : call'[d] = call[d]
      BY DEF Reserve, UsedInv, SpacingInv, TypeOK
    <3>3. c \notin Slotted
      BY DEF Reserve, Slotted
    <3> QED
      BY <3>1, <3>2, <3>3 DEF Slotted
  <2>3. After(t)' = After(t) \cup {c} /\ c \notin After(t)
    BY <1>0, <1>2, <2>2 DEF After
  <2>4. Cardinality(After(t)') = Cardinality(After(t)) + 1
    BY <2>3, AfterFinite, FS_AddElement
  <2>5. last <= t + MinInterval * Cardinality(After(t))
    BY DEF UsedInv, SlotsUsed
  <2>6. MinInterval * Cardinality(After(t)') = MinInterval * Cardinality(After(t)) + MinInterval
    BY <1>0, <2>4, OneMoreInterval
  <2>7. MinInterval * Cardinality(After(t)) \in Nat
    BY <1>0
  <2> DEFINE ahead == MinInterval * Cardinality(After(t))
             aheadNext == MinInterval * Cardinality(After(t)')
  <2>8. ahead \in Nat /\ last <= t + ahead /\ aheadNext = ahead + MinInterval
    BY <2>5, <2>6, <2>7
  <2> HIDE DEF ahead, aheadNext
  <2>9. last' <= t + aheadNext
    BY <1>0, <2>1, <2>8
  <2> QED
    BY <2>9 DEF aheadNext
<1> QED
  BY <1>0, <1>1, <1>2

LEMMA UsedStep == UsedInv /\ [Next]_vars => UsedInv'
<1> SUFFICES ASSUME UsedInv, [Next]_vars PROVE SlotsUsed'
  BY SpacingStep DEF UsedInv
<1>0. SpacingInv /\ SpacingInv' /\ TypeOK /\ TypeOK' /\ SlotsUsed
  BY SpacingStep DEF UsedInv, SpacingInv
<1>1. ASSUME NEW c \in Callers, NEW u \in Urls, NEW useCache \in BOOLEAN,
             Lookup(c, u, useCache)
      PROVE  SlotsUsed'
  <2>1. \A d \in Callers \ {c} : call'[d] = call[d]
    BY <1>0, <1>1 DEF Lookup, TypeOK
  <2>2. call[c].stage # "slotted" /\ call'[c].stage # "slotted"
    BY <1>0, <1>1 DEF Lookup, TypeOK
  <2>3. \A t \in Nat : After(t)' = After(t)
    BY <2>1, <2>2 DEF After, Slotted
  <2> QED
    BY <1>0, <1>1, <2>3, UsedKept DEF Lookup, TypeOK
<1>2. ASSUME NEW c \in Callers,
             PassOn(c) \/ GiveUp(c) \/ WaitForReset(c) \/ Retry(c) \/ Store(c)
      PROVE  SlotsUsed'
  <2>1. /\ UNCHANGED <<now, last>>
        /\ call[c].stage # "slotted"
        /\ \A d \in Callers \ {c} : call'[d] = call[d]
        /\ call'[c].stage # "slotted"
    BY <1>0, <1>2
    DEF PassOn, GiveUp, Fail, WaitForReset, Retry, Store, TypeOK, Call
  <2>2. \A t \in Nat : After(t)' = After(t)
    BY <2>1 DEF After, Slotted
  <2> QED
    BY <1>0, <2>1, <2>2, UsedKept DEF TypeOK
<1>3. ASSUME NEW c \in Callers, Send(c) \/ SendFails(c)
      PROVE  SlotsUsed'
  <2>1. PICK r : \/ call' = [call EXCEPT ![c].response = r, ![c].stage = "answered", ![c].until = 0]
                 \/ call' = [call EXCEPT ![c].response = r, ![c].stage = "idle", ![c].until = 0]
    BY <1>3 DEF Send, SendFails, Fail
  <2>2. /\ call'[c].stage # "slotted"
        /\ \A d \in Callers \ {c} : call'[d] = call[d]
    BY <1>0, <2>1 DEF TypeOK, Call
  <2>3. call[c].until <= now /\ UNCHANGED <<now, last>> /\ call[c].until \in Int
    BY <1>0, <1>3 DEF Send, SendFails, TypeOK, Call
  <2>4. ASSUME NEW t \in Nat, t >= now PROVE After(t)' = After(t)
    <3>1. ~(call[c].until > t)
      BY <1>0, <2>3, <2>4 DEF TypeOK
    <3> QED
      BY <2>2, <3>1 DEF After, Slotted
  <2> QED
    BY <1>0, <2>3, <2>4, UsedKept DEF TypeOK
<1>4. CASE Tick
  <2>1. \A t \in Nat : After(t)' = After(t)
    BY <1>4 DEF Tick, After, Slotted
  <2>2. last' = last /\ now' >= now
    BY <1>0, <1>4 DEF Tick, TypeOK
  <2> QED
    BY <1>0, <2>1, <2>2, UsedKept
<1>5. CASE UNCHANGED vars
  <2>1. \A t \in Nat : After(t)' = After(t)
    BY <1>5 DEF vars, After, Slotted
  <2> QED
    BY <1>0, <1>5, <2>1, UsedKept DEF vars, TypeOK
<1>6. ASSUME NEW c \in Callers, CallStep(c) PROVE SlotsUsed'
  BY <1>0, <1>2, <1>3, <1>6, UsedReserve DEF CallStep
<1> QED
  BY <1>1, <1>4, <1>5, <1>6 DEF Next

(* No slot is lost, however many goroutines share the throttle and however  *)
(* late they wake: nobody waits for a slot that is not used.                *)
THEOREM NoSlotIsLost == Spec => []NoSlotLost
<1>1. Init => UsedInv
  <2> SUFFICES ASSUME Init PROVE SlotsUsed
    BY SpacingInit DEF UsedInv
  <2>1. ASSUME NEW t \in Nat PROVE last <= t + MinInterval * Cardinality(After(t))
    <3>1. MinInterval * Cardinality(After(t)) \in Nat
      BY AfterFinite, ConstantsAssumption
    <3> QED
      BY <3>1 DEF Init
  <2> QED
    BY <2>1 DEF SlotsUsed
<1>2. UsedInv => NoSlotLost
  <2> SUFFICES ASSUME UsedInv PROVE last <= now + MinInterval * Cardinality(Slotted)
    BY DEF NoSlotLost
  <2>1. now \in Nat /\ last \in Nat /\ MinInterval \in Nat
    BY ConstantsAssumption DEF UsedInv, SpacingInv, TypeOK
  <2>2. last <= now + MinInterval * Cardinality(After(now))
    BY <2>1 DEF UsedInv, SlotsUsed
  <2>3. /\ Cardinality(After(now)) <= Cardinality(Slotted)
        /\ Cardinality(After(now)) \in Nat /\ Cardinality(Slotted) \in Nat
    <3>1. After(now) \subseteq Slotted /\ Slotted \subseteq Callers
      BY DEF After, Slotted
    <3> QED
      BY <3>1, ConstantsAssumption, FS_Subset, FS_CardinalityType
  <2>4. MinInterval * Cardinality(After(now)) <= MinInterval * Cardinality(Slotted)
    <3> DEFINE j == Cardinality(After(now))
               k == Cardinality(Slotted)
    <3>1. j \in Nat /\ k \in Nat /\ j <= k
      BY <2>3
    <3> HIDE DEF j, k
    <3>2. MinInterval * j <= MinInterval * k
      BY <2>1, <3>1
    <3> QED
      BY <3>2 DEF j, k
  <2> DEFINE a == MinInterval * Cardinality(After(now))
             b == MinInterval * Cardinality(Slotted)
  <2>5. a \in Nat /\ b \in Nat /\ a <= b /\ last <= now + a
    BY <2>1, <2>2, <2>3, <2>4
  <2> HIDE DEF a, b
  <2>6. last <= now + b
    BY <2>1, <2>5
  <2> QED
    BY <2>6 DEF b
<1> QED
  BY <1>1, <1>2, UsedStep, PTL DEF Spec

-----------------------------------------------------------------------------
(* As long as no two calls overlap, an answer that came through the cache   *)
(* is the one the cache still holds: at most one call is under way, and     *)
(* there was nothing in the cache for it.                                   *)
CacheInv ==
    ~overlapped =>
        /\ \A c, d \in Callers : call[c].stage # "idle" /\ call[d].stage # "idle" => c = d
        /\ \A c \in Callers : call[c].stage # "idle" => call[c].url \in Urls
        /\ \A c \in Callers :
              /\ call[c].cached
              /\ call[c].stage = "idle" => call[c].response # Nothing
              => cache[call[c].url] = (IF call[c].stage = "idle" THEN call[c].response
                                                                ELSE Nothing)

AgreementInv == TypeOK /\ CacheInv

(* A step in the middle of a call changes no entry of the cache, and ends   *)
(* the call, if it does, without a response.                                *)
LEMMA CacheKept ==
    ASSUME AgreementInv, NEW c \in Callers, UNCHANGED <<cache, overlapped>>,
           call[c].stage # "idle",
           \A d \in Callers \ {c} : call'[d] = call[d],
           call'[c].url = call[c].url, call'[c].cached = call[c].cached,
           call'[c].stage = "idle" => call'[c].response = Nothing
    PROVE  CacheInv'
BY DEF AgreementInv, CacheInv

LEMMA AgreementStep == AgreementInv /\ [Next]_vars => AgreementInv'
<1> SUFFICES ASSUME AgreementInv, [Next]_vars PROVE CacheInv'
  BY TypeStep DEF AgreementInv
<1>0. TypeOK /\ TypeOK' /\ CacheInv
  BY TypeStep DEF AgreementInv
<1>1. ASSUME NEW c \in Callers, NEW u \in Urls, NEW useCache \in BOOLEAN,
             Lookup(c, u, useCache)
      PROVE  CacheInv'
  <2> SUFFICES ASSUME ~overlapped' PROVE CacheInv'
    BY DEF CacheInv
  <2>1. ~overlapped /\ cache' = cache /\ \A d \in Callers : call[d].stage = "idle"
    BY <1>1 DEF Lookup
  <2>2. \A d \in Callers \ {c} : call'[d] = call[d]
    BY <1>0, <1>1 DEF Lookup, TypeOK
  <2>3. /\ call'[c].cached = useCache /\ call'[c].url = u
        /\ call'[c].stage = "idle" => call'[c].response = cache[u]
        /\ call'[c].stage # "idle" /\ useCache => cache[u] = Nothing
    BY <1>0, <1>1 DEF Lookup, TypeOK
  <2> QED
    BY <1>0, <2>1, <2>2, <2>3 DEF CacheInv
<1>2. ASSUME NEW c \in Callers,
             Reserve(c) \/ PassOn(c) \/ GiveUp(c) \/ WaitForReset(c) \/ Retry(c)
      PROVE  CacheInv'
  <2>1. /\ UNCHANGED <<cache, overlapped>> /\ call[c].stage # "idle"
        /\ \A d \in Callers \ {c} : call'[d] = call[d]
        /\ call'[c].url = call[c].url /\ call'[c].cached = call[c].cached
        /\ call'[c].stage = "idle" => call'[c].response = Nothing
    BY <1>0, <1>2
    DEF Reserve, PassOn, GiveUp, Fail, WaitForReset, Retry, TypeOK, Call
  <2> QED
    BY <2>1, CacheKept
<1>3. ASSUME NEW c \in Callers, Send(c) \/ SendFails(c)
      PROVE  CacheInv'
  <2>1. UNCHANGED <<cache, overlapped>> /\ call[c].stage # "idle"
    BY <1>3 DEF Send, SendFails
  <2>2. CASE Send(c)
    <3>1. PICK r \in Response :
             call' = [call EXCEPT ![c].response = r, ![c].stage = "answered", ![c].until = 0]
      BY <2>2 DEF Send
    <3>2. /\ \A d \in Callers \ {c} : call'[d] = call[d]
          /\ call'[c].url = call[c].url /\ call'[c].cached = call[c].cached
          /\ call'[c].stage # "idle"
      BY <1>0, <3>1 DEF TypeOK, Call
    <3> QED
      BY <2>1, <3>2, CacheKept
  <2>3. CASE SendFails(c)
    <3>1. /\ \A d \in Callers \ {c} : call'[d] = call[d]
          /\ call'[c].url = call[c].url /\ call'[c].cached = call[c].cached
          /\ call'[c].response = Nothing
      BY <1>0, <2>3 DEF SendFails, Fail, TypeOK, Call
    <3> QED
      BY <2>1, <3>1, CacheKept
  <2> QED
    BY <1>3, <2>2, <2>3
<1>4. ASSUME NEW c \in Callers, Store(c)
      PROVE  CacheInv'
  <2> SUFFICES ASSUME ~overlapped' PROVE CacheInv'
    BY DEF CacheInv
  <2>1. /\ ~overlapped /\ call[c].stage = "passed"
        /\ \A d \in Callers \ {c} : call'[d] = call[d] /\ call[d].stage = "idle"
    BY <1>0, <1>4 DEF Store, CacheInv, TypeOK
  <2>2. /\ call'[c].stage = "idle"
        /\ call'[c].url = call[c].url /\ call'[c].cached = call[c].cached
        /\ call'[c].response = call[c].response
    BY <1>0, <1>4 DEF Store, TypeOK, Call
  <2>3. CASE ~call[c].cached
    <3>1. cache' = cache
      BY <1>4, <2>3 DEF Store
    <3> QED
      BY <1>0, <2>1, <2>2, <2>3, <3>1 DEF CacheInv
  <2>4. CASE call[c].cached
    <3>1. cache' = [cache EXCEPT ![call[c].url] = call[c].response]
      BY <1>4, <2>4 DEF Store
    <3>2. cache[call[c].url] = Nothing
      BY <1>0, <2>1, <2>4 DEF CacheInv
    <3>3. call[c].url \in Urls
      BY <1>0, <2>1 DEF CacheInv
    <3> QED
      BY <1>0, <2>1, <2>2, <3>1, <3>2, <3>3 DEF CacheInv, TypeOK
  <2> QED
    BY <2>3, <2>4
<1>5. CASE Tick \/ UNCHANGED vars
  BY <1>0, <1>5 DEF Tick, vars, CacheInv
<1>6. ASSUME NEW c \in Callers, CallStep(c) PROVE CacheInv'
  BY <1>2, <1>3, <1>4, <1>6 DEF CallStep
<1> QED
  BY <1>1, <1>5, <1>6 DEF Next

(* Two checks of a sweep that got an answer to the same URL through the     *)
(* cache got the same one, for any number of calls, URLs and failures.      *)
THEOREM CacheAgrees == Spec => []Agreement
<1>1. Init => AgreementInv
  <2> SUFFICES ASSUME Init PROVE CacheInv
    BY SpacingInit DEF AgreementInv, SpacingInv
  <2> QED
    BY DEF Init, CacheInv
<1>2. AgreementInv => Agreement
  BY DEF AgreementInv, CacheInv, Agreement
<1> QED
  BY <1>1, <1>2, AgreementStep, PTL DEF Spec

-----------------------------------------------------------------------------
(* A rate-limit 403 on its way up to the cache is that of a second attempt: *)
(* RateLimitTransport lets the first one through on no path.                *)
MetInv ==
    /\ TypeOK
    /\ \A c \in Callers :
          call[c].stage = "passed" /\ call[c].response \in Limited => call[c].attempt = 2

LEMMA MetCallStep ==
    ASSUME MetInv, TypeOK', NEW c \in Callers, CallStep(c)
    PROVE  /\ \A d \in Callers \ {c} : call'[d] = call[d]
           /\ call'[c].stage = "passed" /\ call'[c].response \in Limited
                => call'[c].attempt = 2
           /\ call'[c].stage = "idle" /\ call'[c].response \in Limited
                => call[c].attempt = 2
<1>1. CASE Send(c)
  <2>1. PICK r \in Response :
           call' = [call EXCEPT ![c].response = r, ![c].stage = "answered", ![c].until = 0]
    BY <1>1 DEF Send
  <2> QED
    BY <2>1 DEF MetInv, TypeOK, Call
<1>2. CASE SendFails(c) \/ GiveUp(c)
  <2>1. call'[c].response = Nothing /\ \A d \in Callers \ {c} : call'[d] = call[d]
    BY <1>2 DEF SendFails, GiveUp, Fail, MetInv, TypeOK, Call
  <2>2. Nothing \notin Limited
    BY NothingAssumption DEF Response
  <2> QED
    BY <2>1, <2>2
<1>3. CASE Reserve(c) \/ WaitForReset(c) \/ Retry(c)
  BY <1>3 DEF Reserve, WaitForReset, Retry, MetInv, TypeOK, Call
<1>4. CASE PassOn(c)
  <2>1. /\ \A d \in Callers \ {c} : call'[d] = call[d]
        /\ call'[c].response = call[c].response
        /\ call'[c].attempt = call[c].attempt
        /\ call'[c].stage = "passed"
    BY <1>4 DEF PassOn, MetInv, TypeOK, Call
  <2>2. call[c].response \in Limited => call[c].attempt = 2
    BY <1>4 DEF PassOn, RateLimited, MetInv, TypeOK, Call
  <2> QED
    BY <2>1, <2>2
<1>5. CASE Store(c)
  <2>1. /\ \A d \in Callers \ {c} : call'[d] = call[d]
        /\ call'[c].response = call[c].response
        /\ call'[c].stage = "idle"
        /\ call[c].stage = "passed"
    BY <1>5 DEF Store, MetInv, TypeOK, Call
  <2> QED
    BY <2>1 DEF MetInv
<1> QED
  BY <1>1, <1>2, <1>3, <1>4, <1>5 DEF CallStep

LEMMA MetLookup ==
    ASSUME MetInv, NEW c \in Callers, NEW u \in Urls, NEW useCache \in BOOLEAN,
           Lookup(c, u, useCache)
    PROVE  /\ \A d \in Callers \ {c} : call'[d] = call[d]
           /\ call[c].stage = "idle"
           /\ call'[c].stage # "passed"
BY DEF Lookup, MetInv, TypeOK, Call

LEMMA MetStep == MetInv /\ [Next]_vars => MetInv'
<1> SUFFICES ASSUME MetInv, [Next]_vars PROVE MetInv'
  OBVIOUS
<1>0. TypeOK'
  BY TypeStep DEF MetInv
<1>1. ASSUME NEW c \in Callers, CallStep(c) PROVE MetInv'
  BY <1>0, <1>1, MetCallStep DEF MetInv
<1>2. ASSUME NEW c \in Callers, NEW u \in Urls, NEW useCache \in BOOLEAN,
             Lookup(c, u, useCache)
      PROVE  MetInv'
  BY <1>0, <1>2, MetLookup DEF MetInv
<1>3. CASE Tick \/ UNCHANGED vars
  BY <1>0, <1>3 DEF Tick, vars, MetInv
<1> QED
  BY <1>1, <1>2, <1>3 DEF Next

(* A caller is handed a rate-limit 403 from the network only after the wait *)
(* it announced was sat out and GitHub repeated it, for any waits and any   *)
(* number of goroutines.                                                    *)
THEOREM LimitIsMetTwice == Spec => LimitMetTwice
<1>1. Init => MetInv
  <2> SUFFICES ASSUME Init PROVE MetInv
    OBVIOUS
  <2>1. TypeOK
    BY SpacingInit DEF SpacingInv
  <2> QED
    BY <2>1 DEF Init, MetInv
<1>2. MetInv /\ [Next]_vars =>
        [\A c \in Callers :
           /\ call[c].stage # "idle" /\ call'[c].stage = "idle"
           /\ call'[c].response \in Limited
           => call[c].attempt = 2]_vars
  <2> SUFFICES ASSUME MetInv, Next, NEW c \in Callers,
                      call[c].stage # "idle", call'[c].stage = "idle",
                      call'[c].response \in Limited
               PROVE  call[c].attempt = 2
    OBVIOUS
  <2>0. TypeOK'
    BY TypeStep DEF MetInv
  <2>1. ASSUME NEW d \in Callers, CallStep(d) PROVE call[c].attempt = 2
    BY <2>0, <2>1, MetCallStep
  <2>2. ASSUME NEW d \in Callers, NEW u \in Urls, NEW useCache \in BOOLEAN,
               Lookup(d, u, useCache)
        PROVE  FALSE
    BY <2>2, MetLookup
  <2>3. CASE Tick
    BY <2>3 DEF Tick
  <2> QED
    BY <2>1, <2>2, <2>3 DEF Next
<1> QED
  BY <1>1, <1>2, MetStep, PTL DEF Spec, LimitMetTwice
=============================================================================
