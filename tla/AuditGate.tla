------------------------------ MODULE AuditGate ------------------------------
(***************************************************************************)
(* What a request to POST /api/audit/{repo} has to pass before anything is *)
(* looked up for it (newAuditHandler, audit_api.go): the validation of its *)
(* GitHub Actions token against keys that are cached for an hour (oidc.go) *)
(* and the limit of requests per minute and repository.  Requests run      *)
(* concurrently, GitHub rotates its keys, and fetching them may fail.      *)
(***************************************************************************)
EXTENDS Integers, FiniteSets

CONSTANTS
    Callers,        \* the goroutines that handle requests
    Repos,          \* the repositories they are about
    Kids,           \* the names of signing keys
    jwksCacheDuration,
    limit, window,  \* of the auditRateLimiter
    MaxRequests,    \* bound: requests
    MaxRotations,   \* bound: changes of GitHub's keys
    MaxTime         \* bound: the clock

ASSUME ConstantsAssumption ==
    /\ "no one" \notin Callers
    /\ limit \in Nat \ {0} /\ window \in Nat \ {0} /\ jwksCacheDuration \in Nat \ {0}
    /\ MaxRequests \in Nat /\ MaxRotations \in Nat /\ MaxTime \in Nat

VARIABLES
    now,            \* the clock
    published,      \* the keys GitHub signs with and serves
    rotations,      \* bound: changes of them so far
    keys,           \* GitHubOIDCValidator.keys, {} for nil
    fetchedAt,      \* ... and the time they are from
    holder,         \* who holds the validator's lock across a fetch
    requests,       \* auditRateLimiter.requests: the stamps kept
    stage,          \* where each goroutine is
    kid, repo,      \* the key of its request's token, the repository
    arrivals,       \* how many requests have arrived
    since, no,      \* when its request arrived, and as which
    got,            \* the keys it was given
    fetchFailed,    \* history: whether a fetch of its own failed
    absent,         \* history: whether its key was not published for a while
    withdrawn,      \* history: when each key was last withdrawn
    allowed         \* history: the stamps of all requests let through

github  == <<published, rotations, withdrawn>>
cache   == <<keys, fetchedAt>>
limiter == <<requests, allowed>>
request == <<kid, repo, since, no, got, fetchFailed, absent>>
vars    == <<now, github, cache, holder, limiter, stage, request, arrivals>>

NoOne == "no one"

Stages == {"idle",
           "arrived",       \* before getKeys
           "fetching",      \* in getKeys, its fetch under way
           "lookup",        \* has keys to look its own up in
           "refreshing",    \* not among them: before refreshKeys
           "refetching",    \* in refreshKeys, its fetch under way
           "accepted",      \* the token is good
           "unauthorized",  \* 401
           "allowed",       \* the limiter has let it through
           "refused"}       \* 429

Under(c, s) == stage[c] = s
Enters(c, s) == stage' = [stage EXCEPT ![c] = s]
Answered == {"idle", "unauthorized", "allowed", "refused"}

----------------------------------------------------------------------------
(* GitHub rotates its keys.                                                  *)
Rotate(S) ==
    /\ rotations < MaxRotations
    /\ rotations' = rotations + 1
    /\ S # published /\ published' = S
    /\ withdrawn' = [k \in Kids |-> IF k \in published \ S THEN now ELSE withdrawn[k]]
    /\ absent' = [c \in Callers |-> absent[c] \/ (stage[c] \notin Answered /\ kid[c] \notin S)]
    /\ UNCHANGED <<now, cache, holder, limiter, stage, kid, repo, since, no, got, fetchFailed,
                   arrivals>>

Tick ==
    /\ now < MaxTime
    /\ now' = now + 1
    /\ UNCHANGED <<github, cache, holder, limiter, stage, request, arrivals>>

(* A request whose token names some key.                                     *)
Arrive(c, k, r) ==
    /\ stage[c] \in Answered
    /\ arrivals < MaxRequests
    /\ arrivals' = arrivals + 1
    /\ Enters(c, "arrived")
    /\ kid' = [kid EXCEPT ![c] = k] /\ repo' = [repo EXCEPT ![c] = r]
    /\ since' = [since EXCEPT ![c] = now] /\ no' = [no EXCEPT ![c] = arrivals + 1]
    /\ got' = [got EXCEPT ![c] = {}]
    /\ fetchFailed' = [fetchFailed EXCEPT ![c] = FALSE]
    /\ absent' = [absent EXCEPT ![c] = k \notin published]
    /\ UNCHANGED <<now, github, cache, holder, limiter>>

----------------------------------------------------------------------------
(* ValidateToken.  The lock is held while the keys are fetched. *)

Fresh_Mutant == keys # {} /\ now - fetchedAt <= jwksCacheDuration

Fresh == keys # {} /\ now - fetchedAt < jwksCacheDuration

CachedKeys(c) ==
    /\ Under(c, "arrived") /\ holder = NoOne
    /\ Fresh
    /\ got' = [got EXCEPT ![c] = keys]
    /\ Enters(c, "lookup")
    /\ UNCHANGED <<now, github, cache, holder, limiter, kid, repo, since, no, fetchFailed, absent,
                   arrivals>>

Fetch(c) ==
    /\ holder = NoOne
    /\ \/ Under(c, "arrived") /\ ~Fresh /\ Enters(c, "fetching")
       \/ Under(c, "refreshing") /\ Enters(c, "refetching")
    /\ holder' = c
    /\ UNCHANGED <<now, github, cache, limiter, request, arrivals>>

(* The request to GitHub took some time, and its answer is from then.        *)
Fetched(c) ==
    /\ holder = c /\ holder' = NoOne
    /\ keys' = published /\ fetchedAt' = now
    /\ got' = [got EXCEPT ![c] = published]
    /\ \/ Under(c, "fetching") /\ Enters(c, "lookup")
       \/ Under(c, "refetching") /\ kid[c] \in published /\ Enters(c, "accepted")
       \/ Under(c, "refetching") /\ kid[c] \notin published /\ Enters(c, "unauthorized")
    /\ UNCHANGED <<now, github, limiter, kid, repo, since, no, fetchFailed, absent, arrivals>>

FetchFails_Mutant(c) ==
    /\ holder = c /\ UNCHANGED holder
    /\ Under(c, "fetching") \/ Under(c, "refetching")
    /\ Enters(c, "unauthorized")
    /\ fetchFailed' = [fetchFailed EXCEPT ![c] = TRUE]
    /\ UNCHANGED <<now, github, cache, limiter, kid, repo, since, no, got, absent, arrivals>>

(* What was cached stays, for those who find it fresh.                       *)
FetchFails(c) ==
    /\ holder = c /\ holder' = NoOne
    /\ Under(c, "fetching") \/ Under(c, "refetching")
    /\ Enters(c, "unauthorized")
    /\ fetchFailed' = [fetchFailed EXCEPT ![c] = TRUE]
    /\ UNCHANGED <<now, github, cache, limiter, kid, repo, since, no, got, absent, arrivals>>

Lookup_Mutant(c) ==
    /\ Under(c, "lookup")
    /\ Enters(c, IF kid[c] \in got[c] THEN "accepted" ELSE "unauthorized")
    /\ UNCHANGED <<now, github, cache, holder, limiter, request, arrivals>>

(* A key that is not among them may be newer than they are.                  *)
Lookup(c) ==
    /\ Under(c, "lookup")
    /\ Enters(c, IF kid[c] \in got[c] THEN "accepted" ELSE "refreshing")
    /\ UNCHANGED <<now, github, cache, holder, limiter, request, arrivals>>

----------------------------------------------------------------------------
(* auditRateLimiter.allow, in one critical section.  Stamps of one instant   *)
(* are told apart by the request they are of.                                *)

Valid_Mutant(r) == {s \in requests[r] : s.at > now - window + 1}
Valid(r) == {s \in requests[r] : s.at > now - window}
Stamp(c) == [no |-> no[c], at |-> now]

(* What the handler knew of the token is of no use any more.                 *)
Forget(c) ==
    /\ since' = [since EXCEPT ![c] = 0] /\ no' = [no EXCEPT ![c] = 0]
    /\ got' = [got EXCEPT ![c] = {}]
    /\ fetchFailed' = [fetchFailed EXCEPT ![c] = FALSE]
    /\ absent' = [absent EXCEPT ![c] = FALSE]
    /\ UNCHANGED <<kid, repo>>

Allow(c) ==
    LET r == repo[c] IN
    /\ Under(c, "accepted")
    /\ Cardinality(Valid(r)) < limit
    /\ requests' = [requests EXCEPT ![r] = Valid(r) \cup {Stamp(c)}]
    /\ allowed' = [allowed EXCEPT ![r] = @ \cup {Stamp(c)}]
    /\ Enters(c, "allowed") /\ Forget(c)
    /\ UNCHANGED <<now, github, cache, holder, arrivals>>

Refuse(c) ==
    LET r == repo[c] IN
    /\ Under(c, "accepted")
    /\ Cardinality(Valid(r)) >= limit
    /\ requests' = [requests EXCEPT ![r] = Valid(r)]
    /\ Enters(c, "refused") /\ Forget(c)
    /\ UNCHANGED <<now, github, cache, holder, allowed, arrivals>>

----------------------------------------------------------------------------
Init ==
    /\ now = 0
    /\ \E k \in Kids : published = {k}
    /\ rotations = 0
    /\ withdrawn = [k \in Kids |-> 0]
    /\ keys = {} /\ fetchedAt = 0 /\ holder = NoOne
    /\ requests = [r \in Repos |-> {}] /\ allowed = [r \in Repos |-> {}]
    /\ stage = [c \in Callers |-> "idle"]
    /\ \E k \in published, r \in Repos : kid = [c \in Callers |-> k] /\ repo = [c \in Callers |-> r]
    /\ arrivals = 0 /\ since = [c \in Callers |-> 0] /\ no = [c \in Callers |-> 0]
    /\ got = [c \in Callers |-> {}]
    /\ fetchFailed = [c \in Callers |-> FALSE] /\ absent = [c \in Callers |-> FALSE]

Handle(c) ==
    \/ CachedKeys(c) \/ Fetch(c) \/ Fetched(c) \/ FetchFails(c) \/ Lookup(c)
    \/ Allow(c) \/ Refuse(c)

Next ==
    \/ \E S \in (SUBSET Kids) \ {{}} : Rotate(S)
    \/ \E c \in Callers, k \in Kids, r \in Repos : Arrive(c, k, r)
    \/ \E c \in Callers : Handle(c)
    \/ Tick

Spec == Init /\ [][Next]_vars
(* Handlers go on, and a fetch returns: its client has a timeout.            *)
FairSpec == Spec /\ \A c \in Callers : WF_vars(Handle(c))

----------------------------------------------------------------------------
(* Types; and keys are fetched by one request at a time, the one that holds  *)
(* the lock.                                                                 *)
Stamps == [no : Nat, at : Nat]

TypeOK ==
    /\ now \in Nat /\ fetchedAt \in Nat
    /\ published \in SUBSET Kids /\ keys \in SUBSET Kids
    /\ rotations \in Nat /\ arrivals \in Nat
    /\ withdrawn \in [Kids -> Nat]
    /\ holder \in Callers \cup {NoOne}
    /\ \A c \in Callers : holder = c <=> stage[c] \in {"fetching", "refetching"}
    /\ requests \in [Repos -> SUBSET Stamps] /\ allowed \in [Repos -> SUBSET Stamps]
    /\ stage \in [Callers -> Stages]
    /\ kid \in [Callers -> Kids] /\ repo \in [Callers -> Repos]
    /\ since \in [Callers -> Nat] /\ no \in [Callers -> Nat]
    /\ got \in [Callers -> SUBSET Kids]
    /\ fetchFailed \in [Callers -> BOOLEAN] /\ absent \in [Callers -> BOOLEAN]

(* However requests are spread over time, a repository gets no more of them  *)
(* than the limit into any window, not only into windows that begin with the *)
(* first of them (newAuditHandler: 10 requests per minute per repo).         *)
InWindow(r, t) == {s \in allowed[r] : t - window < s.at /\ s.at <= t}

WithinLimit ==
    \A r \in Repos, t \in 0..now : Cardinality(InWindow(r, t)) <= limit

(* A request is refused only if that many of the last minute were let        *)
(* through: those that were refused do not count, so a client that keeps     *)
(* asking is not kept out by its asking.                                     *)
RefusedWhenFull ==
    [][\A c \in Callers :
         Under(c, "accepted") /\ stage'[c] = "refused" =>
             Cardinality(InWindow(repo[c], now)) >= limit]_vars

(* A token is accepted only if GitHub still published its key less than the  *)
(* time for which keys are cached before the request came, or later.         *)
Recent(k, t) == k \in published \/ t - withdrawn[k] < jwksCacheDuration

AcceptedKeyRecent ==
    \A c \in Callers : Under(c, "accepted") => Recent(kid[c], since[c])

(* Keys that are rotated do not shut anyone out: a request whose key was     *)
(* published all the while is turned away only if its own fetch failed.      *)
NotShutOut ==
    \A c \in Callers : Under(c, "unauthorized") => fetchFailed[c] \/ absent[c]

(* Every request is answered: the lock that is held across a fetch is given  *)
(* back however the fetch ends.                                              *)
RequestsAnswered ==
    \A c \in Callers : Under(c, "arrived") ~> stage[c] \in Answered
==============================================================================
