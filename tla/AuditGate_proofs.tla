--------------------------- MODULE AuditGate_proofs ---------------------------
(***************************************************************************)
(* For any numbers of requests, repositories and keys, any limit and any   *)
(* window: the limiter lets no more than the limit into any window and     *)
(* refuses only when it is reached, no token is accepted whose key was     *)
(* withdrawn too long ago, and a rotation of keys shuts nobody out.        *)
(*                                                                         *)
(* The limiter forgets stamps.  That no window is overfull, not even one   *)
(* in the past, therefore needs that what it has forgotten is out of every *)
(* window that is still to come (StampsKept).                              *)
(***************************************************************************)
EXTENDS AuditGate, FiniteSetTheorems, TLAPS

LEMMA Sizes ==
    limit \in Nat \ {0} /\ window \in Nat \ {0} /\ jwksCacheDuration \in Nat \ {0}
BY ConstantsAssumption

(* A step of one handler keeps the types.                                    *)
LEMMA TypeHandle ==
    ASSUME TypeOK, NEW c \in Callers, Handle(c)
    PROVE  TypeOK'
<1>1. CASE CachedKeys(c)
  BY <1>1 DEF CachedKeys, TypeOK, Under, Enters, Stages, github, limiter, cache
<1>2. CASE Fetch(c)
  BY <1>2, ConstantsAssumption, ZenonT(60) DEF Fetch, TypeOK, Under, Enters, Stages, NoOne, github,
      limiter, cache, request
<1>3. CASE Fetched(c)
  BY <1>3, ConstantsAssumption DEF Fetched, TypeOK, Under, Enters, Stages, NoOne, github, limiter
<1>4. CASE FetchFails(c)
  BY <1>4, ConstantsAssumption DEF FetchFails, TypeOK, Under, Enters, Stages, NoOne, github, limiter, cache
<1>5. CASE Lookup(c)
  BY <1>5 DEF Lookup, TypeOK, Under, Enters, Stages, github, limiter, cache, request
<1>6. CASE Allow(c)
  <2>1. Stamp(c) \in Stamps /\ Valid(repo[c]) \in SUBSET Stamps
    BY DEF TypeOK, Stamp, Stamps, Valid
  <2>2. /\ requests' \in [Repos -> SUBSET Stamps] /\ allowed' \in [Repos -> SUBSET Stamps]
    BY <1>6, <2>1 DEF Allow, TypeOK
  <2> QED
    BY <1>6, <2>2 DEF Allow, Forget, TypeOK, Under, Enters, Stages, github, cache
<1>7. CASE Refuse(c)
  <2>1. Valid(repo[c]) \in SUBSET Stamps
    BY DEF TypeOK, Valid
  <2>2. requests' \in [Repos -> SUBSET Stamps]
    BY <1>7, <2>1 DEF Refuse, TypeOK
  <2> QED
    BY <1>7, <2>2 DEF Refuse, Forget, TypeOK, Under, Enters, Stages, github, cache
<1> QED
  BY <1>1, <1>2, <1>3, <1>4, <1>5, <1>6, <1>7 DEF Handle

LEMMA TypeStep == TypeOK /\ [Next]_vars => TypeOK'
<1> SUFFICES ASSUME TypeOK, [Next]_vars PROVE TypeOK'
  OBVIOUS
<1>1. ASSUME NEW S \in (SUBSET Kids) \ {{}}, Rotate(S) PROVE TypeOK'
  BY <1>1 DEF Rotate, TypeOK, cache, limiter
<1>2. ASSUME NEW c \in Callers, NEW k \in Kids, NEW r \in Repos, Arrive(c, k, r)
      PROVE  TypeOK'
  <2>1. stage[c] \notin {"fetching", "refetching"}
    BY <1>2 DEF Arrive, Answered
  <2>2. \A d \in Callers : holder' = d <=> stage'[d] \in {"fetching", "refetching"}
    BY <1>2, <2>1 DEF Arrive, TypeOK, Enters, cache
  <2>3. stage' \in [Callers -> Stages]
    BY <1>2 DEF Arrive, TypeOK, Enters, Stages
  <2>4. /\ kid' \in [Callers -> Kids] /\ repo' \in [Callers -> Repos]
        /\ since' \in [Callers -> Nat] /\ no' \in [Callers -> Nat]
        /\ got' \in [Callers -> SUBSET Kids]
        /\ fetchFailed' \in [Callers -> BOOLEAN] /\ absent' \in [Callers -> BOOLEAN]
        /\ arrivals' \in Nat
    BY <1>2 DEF Arrive, TypeOK
  <2> QED
    BY <1>2, <2>2, <2>3, <2>4 DEF Arrive, TypeOK, github, limiter, cache
<1>3. CASE Tick
  BY <1>3 DEF Tick, TypeOK, github, limiter, cache, request
<1>4. CASE UNCHANGED vars
  BY <1>4 DEF vars, TypeOK, github, limiter, cache, request
<1> QED
  BY <1>1, <1>2, <1>3, <1>4, TypeHandle DEF Next

LEMMA TypeInit == Init => TypeOK
<1> SUFFICES ASSUME Init PROVE TypeOK
  OBVIOUS
<1>1. NoOne \notin Callers
  BY ConstantsAssumption DEF NoOne
<1>2. \A c \in Callers : holder = c <=> stage[c] \in {"fetching", "refetching"}
  BY <1>1 DEF Init
<1>3. kid \in [Callers -> Kids] /\ repo \in [Callers -> Repos] /\ published \in SUBSET Kids
  BY DEF Init
<1>4. stage \in [Callers -> Stages] /\ holder \in Callers \cup {NoOne}
  BY DEF Init, Stages
<1> QED
  BY <1>2, <1>3, <1>4 DEF Init, TypeOK

(* Every variable keeps its type, and keys are fetched by one request at a   *)
(* time (GitHubOIDCValidator.mu).                                            *)
THEOREM GateTyped == Spec => []TypeOK
BY TypeInit, TypeStep, PTL DEF Spec

----------------------------------------------------------------------------
(* The limiter.  Its stamps are those let through, and hold all of them that *)
(* are not yet out of the window.                                            *)
StampsKept ==
    \A r \in Repos :
        /\ IsFiniteSet(allowed[r]) /\ requests[r] \subseteq allowed[r]
        /\ \A s \in allowed[r] : s.at <= now /\ (s.at > now - window => s \in requests[r])

LimiterInv == TypeOK /\ StampsKept /\ WithinLimit

(* The stamps that count are those of the window that ends now.              *)
LEMMA ValidIsWindow ==
    ASSUME TypeOK, StampsKept, NEW r \in Repos
    PROVE  Valid(r) = InWindow(r, now)
BY DEF TypeOK, StampsKept, Valid, InWindow, Stamps

(* Nothing that leaves the limiter and the clock alone can disturb it.       *)
LEMMA LimiterKept ==
    ASSUME LimiterInv, TypeOK', UNCHANGED <<now, requests, allowed>>
    PROVE  LimiterInv'
BY DEF LimiterInv, StampsKept, WithinLimit, InWindow

(* What the types say of the stamps, in the form the steps below use.        *)
LEMMA StampTypes ==
    ASSUME LimiterInv
    PROVE  /\ now \in Nat /\ window \in Nat \ {0} /\ limit \in Nat \ {0}
           /\ \A q \in Repos : \A s \in allowed[q] : s.at \in Nat /\ s.at <= now
<1>1. now \in Nat /\ window \in Nat \ {0} /\ limit \in Nat \ {0}
  BY ConstantsAssumption DEF LimiterInv, TypeOK
<1>2. ASSUME NEW q \in Repos, NEW s \in allowed[q] PROVE s.at \in Nat /\ s.at <= now
  <2>1. s \in Stamps
    BY <1>2 DEF LimiterInv, TypeOK
  <2> QED
    BY <1>2, <2>1 DEF LimiterInv, StampsKept, Stamps
<1> QED
  BY <1>1, <1>2

LEMMA LimiterTick ==
    ASSUME LimiterInv, TypeOK', Tick
    PROVE  LimiterInv'
<1>0. /\ now \in Nat /\ now' = now + 1 /\ window \in Nat /\ limit \in Nat
      /\ requests' = requests /\ allowed' = allowed
      /\ \A q \in Repos : \A s \in allowed[q] : s.at \in Nat /\ s.at <= now
  BY StampTypes DEF Tick, limiter
<1>1. StampsKept'
  <2> SUFFICES ASSUME NEW r \in Repos, NEW s \in allowed[r]
               PROVE  s.at <= now + 1 /\ (s.at > now + 1 - window => s \in requests[r])
    BY <1>0 DEF StampsKept, LimiterInv
  <2>1. s.at > now + 1 - window => s.at > now - window
    BY <1>0
  <2> QED
    BY <1>0, <2>1 DEF StampsKept, LimiterInv
<1>2. WithinLimit'
  <2> SUFFICES ASSUME NEW r \in Repos, NEW t \in 0..(now + 1)
               PROVE  Cardinality(InWindow(r, t)) <= limit
    BY <1>0 DEF WithinLimit, InWindow
  <2>1. CASE t \in 0..now
    BY <2>1 DEF LimiterInv, WithinLimit
  <2>2. CASE t = now + 1
    <3>1. InWindow(r, t) \subseteq InWindow(r, now)
      BY <1>0, <2>2 DEF InWindow
    <3>2. IsFiniteSet(InWindow(r, now))
      BY FS_Subset DEF InWindow, LimiterInv, StampsKept
    <3>3. now \in 0..now
      BY <1>0
    <3>4. Cardinality(InWindow(r, now)) <= limit
      BY <3>3 DEF LimiterInv, WithinLimit
    <3>5. /\ Cardinality(InWindow(r, t)) <= Cardinality(InWindow(r, now))
          /\ Cardinality(InWindow(r, t)) \in Nat /\ Cardinality(InWindow(r, now)) \in Nat
      BY <3>1, <3>2, FS_Subset, FS_CardinalityType
    <3> QED
      BY <1>0, <3>4, <3>5
  <2> QED
    BY <1>0, <2>1, <2>2
<1> QED
  BY <1>1, <1>2 DEF LimiterInv

LEMMA LimiterAllow ==
    ASSUME LimiterInv, TypeOK', NEW c \in Callers, Allow(c)
    PROVE  LimiterInv'
<1> DEFINE r == repo[c]
<1>0. /\ r \in Repos /\ now \in Nat /\ now' = now /\ window \in Nat \ {0} /\ limit \in Nat
      /\ requests' = [requests EXCEPT ![r] = Valid(r) \cup {Stamp(c)}]
      /\ allowed' = [allowed EXCEPT ![r] = @ \cup {Stamp(c)}]
      /\ Cardinality(Valid(r)) < limit
      /\ Stamp(c).at = now
      /\ \A q \in Repos : \A s \in allowed[q] : s.at \in Nat /\ s.at <= now
  BY StampTypes DEF Allow, Stamp, LimiterInv, TypeOK
<1>1. /\ requests'[r] = Valid(r) \cup {Stamp(c)}
      /\ allowed'[r] = allowed[r] \cup {Stamp(c)}
      /\ \A q \in Repos \ {r} : requests'[q] = requests[q] /\ allowed'[q] = allowed[q]
  BY <1>0 DEF LimiterInv, TypeOK
<1> HIDE DEF r
<1>2. StampsKept'
  <2>1. IsFiniteSet(allowed'[r])
    BY <1>0, <1>1, FS_AddElement DEF LimiterInv, StampsKept
  <2>2. requests'[r] \subseteq allowed'[r]
    BY <1>0, <1>1 DEF LimiterInv, StampsKept, Valid
  <2>3. \A s \in allowed'[r] : s.at <= now /\ (s.at > now - window => s \in requests'[r])
    BY <1>0, <1>1 DEF LimiterInv, StampsKept, Valid
  <2> QED
    BY <1>0, <1>1, <2>1, <2>2, <2>3 DEF LimiterInv, StampsKept
<1>3. WithinLimit'
  <2> SUFFICES ASSUME NEW q \in Repos, NEW t \in 0..now
               PROVE  Cardinality(InWindow(q, t)') <= limit
    BY <1>0 DEF WithinLimit, InWindow
  <2>1. CASE q # r \/ t # now
    <3>1. InWindow(q, t)' = InWindow(q, t)
      BY <1>0, <1>1, <2>1 DEF InWindow
    <3> QED
      BY <3>1 DEF LimiterInv, WithinLimit
  <2>2. CASE q = r /\ t = now
    <3>1. InWindow(q, t)' \subseteq Valid(r) \cup {Stamp(c)}
      BY <1>0, <1>1, <2>2, ValidIsWindow DEF InWindow, LimiterInv
    <3>2. IsFiniteSet(Valid(r))
      BY <1>0, FS_Subset DEF LimiterInv, StampsKept, Valid
    <3>3. /\ IsFiniteSet(Valid(r) \cup {Stamp(c)})
          /\ \/ Cardinality(Valid(r) \cup {Stamp(c)}) = Cardinality(Valid(r))
             \/ Cardinality(Valid(r) \cup {Stamp(c)}) = Cardinality(Valid(r)) + 1
      BY <3>2, FS_AddElement
    <3>4. /\ Cardinality(InWindow(q, t)') <= Cardinality(Valid(r) \cup {Stamp(c)})
          /\ Cardinality(InWindow(q, t)') \in Nat /\ Cardinality(Valid(r)) \in Nat
      BY <3>1, <3>2, <3>3, FS_Subset, FS_CardinalityType
    <3> QED
      BY <1>0, <3>3, <3>4
  <2> QED
    BY <2>1, <2>2
<1> QED
  BY <1>2, <1>3 DEF LimiterInv

LEMMA LimiterRefuse ==
    ASSUME LimiterInv, TypeOK', NEW c \in Callers, Refuse(c)
    PROVE  LimiterInv'
<1> DEFINE r == repo[c]
<1>0. /\ r \in Repos /\ UNCHANGED <<now, allowed>>
      /\ requests' = [requests EXCEPT ![r] = Valid(r)]
  BY DEF Refuse, LimiterInv, TypeOK
<1>1. /\ requests'[r] = Valid(r)
      /\ \A q \in Repos \ {r} : requests'[q] = requests[q]
  BY <1>0 DEF LimiterInv, TypeOK
<1> HIDE DEF r
<1>2. StampsKept'
  BY <1>0, <1>1 DEF LimiterInv, StampsKept, Valid
<1>3. WithinLimit'
  BY <1>0 DEF LimiterInv, WithinLimit, InWindow
<1> QED
  BY <1>2, <1>3 DEF LimiterInv

LEMMA LimiterStep == LimiterInv /\ [Next]_vars => LimiterInv'
<1> SUFFICES ASSUME LimiterInv, [Next]_vars PROVE LimiterInv'
  OBVIOUS
<1>0. TypeOK'
  BY TypeStep DEF LimiterInv
<1>1. ASSUME NEW S \in (SUBSET Kids) \ {{}}, Rotate(S) PROVE LimiterInv'
  BY <1>0, <1>1, LimiterKept DEF Rotate, limiter
<1>2. ASSUME NEW c \in Callers, NEW k \in Kids, NEW r \in Repos, Arrive(c, k, r)
      PROVE  LimiterInv'
  BY <1>0, <1>2, LimiterKept DEF Arrive, limiter
<1>3. ASSUME NEW c \in Callers,
             CachedKeys(c) \/ Fetch(c) \/ Fetched(c) \/ FetchFails(c) \/ Lookup(c)
      PROVE  LimiterInv'
  BY <1>0, <1>3, LimiterKept
  DEF CachedKeys, Fetch, Fetched, FetchFails, Lookup, limiter
<1>4. CASE UNCHANGED vars
  BY <1>0, <1>4, LimiterKept DEF vars, limiter
<1> QED
  BY <1>0, <1>1, <1>2, <1>3, <1>4, LimiterTick, LimiterAllow, LimiterRefuse
  DEF Next, Handle

LEMMA LimiterInit == Init => LimiterInv
<1> SUFFICES ASSUME Init PROVE StampsKept /\ WithinLimit
  BY TypeInit DEF LimiterInv
<1>1. \A r \in Repos : allowed[r] = {} /\ requests[r] = {}
  BY DEF Init
<1>2. \A r \in Repos, t \in 0..now : InWindow(r, t) = {}
  BY <1>1 DEF InWindow
<1>3. StampsKept
  BY <1>1, FS_EmptySet DEF StampsKept
<1>4. WithinLimit
  <2> SUFFICES ASSUME NEW r \in Repos, NEW t \in 0..now
               PROVE  Cardinality(InWindow(r, t)) <= limit
    BY DEF WithinLimit
  <2>1. InWindow(r, t) = {}
    BY <1>2
  <2>2. Cardinality(InWindow(r, t)) = 0
    BY <2>1, FS_EmptySet
  <2> QED
    BY <2>2, Sizes
<1> QED
  BY <1>3, <1>4

(* No window of any repository, past or present, holds more requests than    *)
(* the limit (auditRateLimiter.allow).                                       *)
THEOREM LimitKept == Spec => []WithinLimit
<1>1. LimiterInv => WithinLimit
  BY DEF LimiterInv
<1> QED
  BY <1>1, LimiterInit, LimiterStep, PTL DEF Spec

(* Whoever is refused meets a full window (auditRateLimiter.allow).          *)
THEOREM RefusalsJustified == Spec => RefusedWhenFull
<1>1. LimiterInv /\ [Next]_vars =>
        [\A c \in Callers :
            Under(c, "accepted") /\ stage'[c] = "refused" =>
                Cardinality(InWindow(repo[c], now)) >= limit]_vars
  <2> SUFFICES ASSUME LimiterInv, Next, NEW c \in Callers,
                      Under(c, "accepted"), stage'[c] = "refused"
               PROVE  Cardinality(InWindow(repo[c], now)) >= limit
    OBVIOUS
  <2>0. TypeOK
    BY DEF LimiterInv
  <2>1. Refuse(c)
    <3>1. ASSUME NEW d \in Callers, Handle(d), d # c PROVE FALSE
      BY <2>0, <3>1
      DEF Handle, CachedKeys, Fetch, Fetched, FetchFails, Lookup, Allow, Refuse,
          Enters, Under, TypeOK
    <3>2. ASSUME NEW d \in Callers, NEW k \in Kids, NEW r \in Repos, Arrive(d, k, r)
          PROVE  FALSE
      BY <2>0, <3>2 DEF Arrive, Enters, Under, Answered, TypeOK
    <3>3. Handle(c)
      BY <3>1, <3>2 DEF Next, Rotate, Tick, Under
    <3>4. ~(CachedKeys(c) \/ Fetch(c) \/ Fetched(c) \/ FetchFails(c) \/ Lookup(c))
      BY DEF CachedKeys, Fetch, Fetched, FetchFails, Lookup, Under
    <3>5. ~Allow(c)
      BY <2>0 DEF Allow, Enters, TypeOK
    <3> QED
      BY <3>3, <3>4, <3>5 DEF Handle
  <2> QED
    BY <2>0, <2>1, ValidIsWindow DEF Refuse, LimiterInv, TypeOK
<1> QED
  BY <1>1, LimiterInit, LimiterStep, PTL DEF Spec, RefusedWhenFull

----------------------------------------------------------------------------
(* The keys.  What is cached was published when it was fetched, so whatever  *)
(* has been withdrawn of it was withdrawn since.                             *)
Timely ==
    /\ fetchedAt <= now
    /\ \A k \in Kids : withdrawn[k] <= now
    /\ \A c \in Callers : since[c] <= now

CacheTrue == \A k \in keys : k \in published \/ withdrawn[k] >= fetchedAt

GotRecent == \A c \in Callers : Under(c, "lookup") => \A k \in got[c] : Recent(k, since[c])

KeyInv == TypeOK /\ Timely /\ CacheTrue /\ GotRecent /\ AcceptedKeyRecent

(* A key that was recent stays so: a withdrawal comes after every arrival.   *)
LEMMA StaysRecent ==
    ASSUME KeyInv, NEW S \in SUBSET Kids, Rotate(S),
           NEW k \in Kids, NEW c \in Callers, Recent(k, since[c])
    PROVE  Recent(k, since[c])'
<1>1. /\ since[c] \in Nat /\ since[c] <= now /\ now \in Nat
      /\ jwksCacheDuration \in Nat \ {0} /\ withdrawn[k] \in Nat
  BY ConstantsAssumption DEF KeyInv, TypeOK, Timely
<1>2. published' = S /\ since' = since
  BY DEF Rotate
<1>3. withdrawn'[k] = IF k \in published \ S THEN now ELSE withdrawn[k]
  BY DEF Rotate
<1>4. CASE k \in published \ S
  BY <1>1, <1>2, <1>3, <1>4 DEF Recent
<1>5. CASE k \notin published \ S
  BY <1>1, <1>2, <1>3, <1>5 DEF Recent
<1> QED
  BY <1>4, <1>5

LEMMA KeyRotate ==
    ASSUME KeyInv, TypeOK', NEW S \in SUBSET Kids, Rotate(S)
    PROVE  KeyInv'
<1>0. /\ UNCHANGED <<now, keys, fetchedAt, stage, kid, since, got>>
      /\ published' = S /\ now \in Nat /\ fetchedAt \in Nat
      /\ withdrawn' = [k \in Kids |-> IF k \in published \ S THEN now ELSE withdrawn[k]]
      /\ keys \subseteq Kids /\ \A c \in Callers : kid[c] \in Kids /\ got[c] \subseteq Kids
  BY DEF Rotate, KeyInv, TypeOK, cache
<1>1. Timely'
  BY <1>0 DEF KeyInv, Timely
<1>2. CacheTrue'
  BY <1>0 DEF KeyInv, CacheTrue, Timely
<1>3. GotRecent'
  BY <1>0, StaysRecent DEF KeyInv, GotRecent, Under
<1>4. AcceptedKeyRecent'
  BY <1>0, StaysRecent DEF KeyInv, AcceptedKeyRecent, Under
<1> QED
  BY <1>1, <1>2, <1>3, <1>4 DEF KeyInv

(* A step of one handler.                                                    *)
LEMMA KeyHandle ==
    ASSUME KeyInv, TypeOK', NEW c \in Callers, Handle(c)
    PROVE  KeyInv'
<1>0. /\ now \in Nat /\ fetchedAt \in Nat /\ since[c] \in Nat /\ since[c] <= now
      /\ \A k \in Kids : withdrawn[k] \in Nat /\ withdrawn[k] <= now
      /\ UNCHANGED <<now, published, withdrawn>>
      /\ keys \subseteq Kids /\ published \subseteq Kids /\ kid[c] \in Kids
      /\ stage \in [Callers -> Stages] /\ got \in [Callers -> SUBSET Kids]
      /\ since \in [Callers -> Nat]
  BY DEF KeyInv, TypeOK, Timely, Handle, CachedKeys, Fetch, Fetched, FetchFails, Lookup,
         Allow, Refuse, github
<1>1. CASE CachedKeys(c)
  <2>1. \A k \in keys : Recent(k, since[c])
    <3> SUFFICES ASSUME NEW k \in keys, k \notin published
                 PROVE  since[c] - withdrawn[k] < jwksCacheDuration
      BY DEF Recent
    <3>1. withdrawn[k] \in Nat /\ withdrawn[k] >= fetchedAt
      BY <1>0 DEF KeyInv, CacheTrue
    <3>2. now - fetchedAt < jwksCacheDuration
      BY <1>1 DEF CachedKeys, Fresh
    <3> QED
      BY <1>0, <3>1, <3>2, Sizes
  <2> QED
    BY <1>0, <1>1, <2>1
    DEF CachedKeys, KeyInv, Timely, CacheTrue, GotRecent, AcceptedKeyRecent, Recent,
        Under, Enters, cache
<1>2. CASE Fetched(c)
  <2>1. \A k \in published : Recent(k, since[c])
    BY DEF Recent
  <2>2. Timely' /\ CacheTrue'
    BY <1>0, <1>2 DEF Fetched, KeyInv, Timely, CacheTrue
  <2>3. GotRecent' /\ AcceptedKeyRecent'
    BY <1>0, <1>2, <2>1
    DEF Fetched, KeyInv, GotRecent, AcceptedKeyRecent, Recent, Under, Enters
  <2> QED
    BY <2>2, <2>3 DEF KeyInv
<1>3. CASE Fetch(c) \/ FetchFails(c)
  BY <1>0, <1>3
  DEF Fetch, FetchFails, KeyInv, Timely, CacheTrue, GotRecent, AcceptedKeyRecent, Recent,
      Under, Enters, cache, request
<1>4. CASE Lookup(c)
  BY <1>0, <1>4
  DEF Lookup, KeyInv, Timely, CacheTrue, GotRecent, AcceptedKeyRecent, Recent,
      Under, Enters, cache, request
<1>5. CASE Allow(c) \/ Refuse(c)
  BY <1>0, <1>5
  DEF Allow, Refuse, Forget, KeyInv, Timely, CacheTrue, GotRecent, AcceptedKeyRecent, Recent,
      Under, Enters, cache
<1> QED
  BY <1>1, <1>2, <1>3, <1>4, <1>5 DEF Handle

LEMMA KeyStep == KeyInv /\ [Next]_vars => KeyInv'
<1> SUFFICES ASSUME KeyInv, [Next]_vars PROVE KeyInv'
  OBVIOUS
<1>0. TypeOK'
  BY TypeStep DEF KeyInv
<1>1. ASSUME NEW S \in (SUBSET Kids) \ {{}}, Rotate(S) PROVE KeyInv'
  BY <1>0, <1>1, KeyRotate
<1>2. ASSUME NEW c \in Callers, NEW k \in Kids, NEW r \in Repos, Arrive(c, k, r)
      PROVE  KeyInv'
  <2>1. UNCHANGED <<now, published, withdrawn, keys, fetchedAt>> /\ now \in Nat
    BY <1>2 DEF Arrive, github, cache, KeyInv, TypeOK
  <2>2. \A d \in Callers : since'[d] <= now
    BY <1>2, <2>1 DEF Arrive, KeyInv, Timely, TypeOK
  <2>3. \A d \in Callers \ {c} : /\ stage'[d] = stage[d] /\ kid'[d] = kid[d]
                                 /\ since'[d] = since[d] /\ got'[d] = got[d]
    BY <1>2 DEF Arrive, Enters, KeyInv, TypeOK
  <2>4. stage'[c] = "arrived"
    BY <1>2 DEF Arrive, Enters, KeyInv, TypeOK
  <2> QED
    BY <1>0, <2>1, <2>2, <2>3, <2>4
    DEF KeyInv, Timely, CacheTrue, GotRecent, AcceptedKeyRecent, Recent, Under
<1>3. CASE Tick
  <2>1. now \in Nat /\ now' = now + 1 /\ fetchedAt \in Nat /\ since \in [Callers -> Nat]
        /\ withdrawn \in [Kids -> Nat]
        /\ UNCHANGED <<published, withdrawn, keys, fetchedAt, stage, kid, since, got>>
    BY <1>3 DEF Tick, github, cache, request, KeyInv, TypeOK
  <2>2. Timely'
    BY <2>1 DEF KeyInv, Timely
  <2> QED
    BY <1>0, <2>1, <2>2 DEF KeyInv, CacheTrue, GotRecent, AcceptedKeyRecent, Recent, Under
<1>4. CASE UNCHANGED vars
  BY <1>0, <1>4
  DEF vars, github, cache, request, KeyInv, Timely, CacheTrue, GotRecent, AcceptedKeyRecent,
      Recent, Under
<1> QED
  BY <1>0, <1>1, <1>2, <1>3, <1>4, KeyHandle DEF Next

LEMMA KeyInit == Init => KeyInv
BY TypeInit DEF Init, KeyInv, Timely, CacheTrue, GotRecent, AcceptedKeyRecent, Under

(* No token is accepted whose key GitHub had withdrawn jwksCacheDuration or  *)
(* longer before the request came (GitHubOIDCValidator.getKeys).             *)
THEOREM KeysRecent == Spec => []AcceptedKeyRecent
<1>1. KeyInv => AcceptedKeyRecent
  BY DEF KeyInv
<1> QED
  BY <1>1, KeyInit, KeyStep, PTL DEF Spec

----------------------------------------------------------------------------
(* Whoever is not answered yet and whose key is not published has been       *)
(* noticed to be so.                                                         *)
Noticed ==
    \A c \in Callers : stage[c] \notin Answered /\ kid[c] \notin published => absent[c]

ShutInv == TypeOK /\ Noticed /\ NotShutOut

LEMMA ShutHandle ==
    ASSUME ShutInv, TypeOK', NEW c \in Callers, Handle(c)
    PROVE  ShutInv'
<1>0. /\ UNCHANGED <<published, kid>> /\ kid \in [Callers -> Kids]
      /\ stage \in [Callers -> Stages]
      /\ fetchFailed \in [Callers -> BOOLEAN] /\ absent \in [Callers -> BOOLEAN]
  BY DEF ShutInv, TypeOK, Handle, CachedKeys, Fetch, Fetched, FetchFails, Lookup,
         Allow, Refuse, Forget, github, request
<1>1. CASE CachedKeys(c) \/ Fetch(c) \/ Lookup(c)
  BY <1>0, <1>1
  DEF CachedKeys, Fetch, Lookup, ShutInv, Noticed, NotShutOut, Answered, Under, Enters, request
<1>2. CASE Fetched(c)
  BY <1>0, <1>2
  DEF Fetched, ShutInv, Noticed, NotShutOut, Answered, Under, Enters
<1>3. CASE FetchFails(c)
  BY <1>0, <1>3
  DEF FetchFails, ShutInv, Noticed, NotShutOut, Answered, Under, Enters
<1>4. CASE Allow(c) \/ Refuse(c)
  BY <1>0, <1>4
  DEF Allow, Refuse, Forget, ShutInv, Noticed, NotShutOut, Answered, Under, Enters
<1> QED
  BY <1>1, <1>2, <1>3, <1>4 DEF Handle

LEMMA ShutStep == ShutInv /\ [Next]_vars => ShutInv'
<1> SUFFICES ASSUME ShutInv, [Next]_vars PROVE ShutInv'
  OBVIOUS
<1>0. TypeOK'
  BY TypeStep DEF ShutInv
<1>1. ASSUME NEW S \in (SUBSET Kids) \ {{}}, Rotate(S) PROVE ShutInv'
  BY <1>0, <1>1 DEF Rotate, ShutInv, TypeOK, Noticed, NotShutOut, Answered, Under
<1>2. ASSUME NEW c \in Callers, NEW k \in Kids, NEW r \in Repos, Arrive(c, k, r)
      PROVE  ShutInv'
  BY <1>0, <1>2
  DEF Arrive, ShutInv, TypeOK, Noticed, NotShutOut, Answered, Under, Enters, github
<1>3. CASE Tick \/ UNCHANGED vars
  BY <1>0, <1>3 DEF Tick, vars, github, request, ShutInv, Noticed, NotShutOut, Under
<1> QED
  BY <1>0, <1>1, <1>2, <1>3, ShutHandle DEF Next

LEMMA ShutInit == Init => ShutInv
BY TypeInit DEF Init, ShutInv, Noticed, NotShutOut, Answered, Under

(* Keys that are rotated turn no valid token away: the one fetch after a     *)
(* failed lookup is enough (ValidateToken's retry through refreshKeys).      *)
THEOREM RotationShutsNobodyOut == Spec => []NotShutOut
<1>1. ShutInv => NotShutOut
  BY DEF ShutInv
<1> QED
  BY <1>1, ShutInit, ShutStep, PTL DEF Spec
==============================================================================
