--------------------------- MODULE HttpTransports ---------------------------
(***************************************************************************)
(* The HTTP client a sweep gives its convention checks: CachingTransport   *)
(* around RateLimitTransport around ThrottleTransport (httpcache.go,       *)
(* ratelimit_transport.go and throttle_transport.go, stacked as in         *)
(* audit.go).  A call is one RoundTrip of the whole stack.  Its steps are  *)
(* the places where another goroutine, or time, can come in between: the   *)
(* cache lookup, the reservation of a slot, the sleep until the slot, the  *)
(* answer of GitHub, the wait for a rate limit to reset, the cache write.  *)
(***************************************************************************)
EXTENDS Integers, FiniteSets

CONSTANTS
    Callers,        \* the goroutines that use the client
    Urls,           \* what they ask for
    Versions,       \* the contents a URL may have: GitHub's data changes
    Waits,          \* the waits a rate-limit 403 may announce; < 0: reset is past
    MinInterval,    \* ThrottleTransport.MinInterval
    MaxWait,        \* RateLimitTransport.MaxWait
    MaxOversleep,   \* environment: how late a sleeper may wake up
    MaxCalls,       \* bound: calls begun
    MaxTime,        \* bound: the end of time, later than MaxCalls calls can last
    NoWait,         \* a rate-limit 403 with neither of the two headers
    Nothing         \* no response: an empty cache entry, a call that failed;
                    \* no URL: a goroutine that has not asked yet

ASSUME ConstantsAssumption ==
    /\ IsFiniteSet(Callers)
    /\ MinInterval \in Nat \ {0}
    /\ MaxWait \in Nat
    /\ MaxOversleep \in Nat
    /\ Waits \subseteq Int
    /\ NoWait \notin Int
    /\ MaxCalls \in Nat
    /\ MaxTime \in Nat

VARIABLES
    now,        \* the clock
    last,       \* ThrottleTransport.last: the latest slot reserved
    cache,      \* CachingTransport.cache: the response kept for each URL
    call,       \* the RoundTrip each goroutine is in, and how its last one ended
    calls,      \* how many were begun
    lastStart,  \* history: when the latest request left for GitHub
    overlapped  \* history: whether two calls ever overlapped; a sweep's do not

vars == <<now, last, cache, call, calls, lastStart, overlapped>>

-----------------------------------------------------------------------------
(* What GitHub answers: the content of the URL, a 403 about permissions, or *)
(* a 403 whose body speaks of a rate limit.                                 *)
Content   == [kind : {"content"}, data : Versions]
Forbidden == [kind : {"forbidden"}, data : {Nothing}]
Limited   == [kind : {"limited"}, data : Waits \cup {NoWait}]

Response == Content \cup Forbidden \cup Limited

ASSUME NothingAssumption == Nothing \notin Response

(* What is kept of it: the response, or that there is none.                 *)
Outcome == Response \cup {Nothing}

(* The stages of a RoundTrip.                                               *)
Stages == {"idle",      \* none under way
           "missed",    \* not in the cache: about to enter the throttle
           "slotted",   \* a slot is reserved: asleep until it comes
           "answered",  \* GitHub's response has arrived
           "waiting",   \* rate limited: asleep until the limit resets
           "passed"}    \* the response is on its way up to the cache

Call == [stage : Stages, url : Urls \cup {Nothing}, cached : BOOLEAN, until : Int,
         attempt : {1, 2}, response : Outcome]

Slotted == {c \in Callers : call[c].stage = "slotted"}

(* The call of c ends without a response: RoundTrip returns an error.       *)
Fail(c) ==
    call' = [call EXCEPT ![c].response = Nothing, ![c].stage = "idle", ![c].until = 0]

-----------------------------------------------------------------------------
Init ==
    /\ now = MinInterval        \* the zero time is long ago
    /\ last = 0
    /\ lastStart = 0
    /\ cache = [u \in Urls |-> Nothing]
    /\ call = [c \in Callers |-> [stage |-> "idle", url |-> Nothing, cached |-> FALSE,
                                  until |-> 0, attempt |-> 1, response |-> Nothing]]
    /\ calls = 0
    /\ overlapped = FALSE

(* CachingTransport.RoundTrip looks the URL up under its lock.  A hit is    *)
(* replayed at once.  A request that is not a GET goes past the cache, as   *)
(* does every request of the retry pass, whose client has no cache.         *)
Lookup(c, u, useCache) ==
    /\ call[c].stage = "idle"
    /\ overlapped' = (overlapped \/ \E d \in Callers : call[d].stage # "idle")
    /\ calls < MaxCalls
    /\ calls' = calls + 1
    /\ LET hit == useCache /\ cache[u] # Nothing
       IN  call' = [call EXCEPT ![c] =
                     [stage    |-> IF hit THEN "idle" ELSE "missed",
                      url      |-> u,
                      cached   |-> useCache,
                      until    |-> 0,
                      attempt  |-> 1,
                      response |-> IF hit THEN cache[u] ELSE Nothing]]
    /\ UNCHANGED <<now, last, cache, lastStart>>

(* The slot a request gets: now, or MinInterval after the latest one        *)
(* reserved when that is later.                                             *)
NextSlot_Mutant ==
    IF now < last THEN last + MinInterval ELSE now

NextSlot ==
    IF now < last + MinInterval THEN last + MinInterval ELSE now

(* ThrottleTransport.RoundTrip reserves the slot under its lock ...         *)
Reserve_Mutant(c) ==
    /\ call[c].stage = "missed"
    /\ last' = NextSlot + MinInterval
    /\ call' = [call EXCEPT ![c].stage = "slotted", ![c].until = NextSlot]
    /\ UNCHANGED <<now, cache, calls, lastStart, overlapped>>

Reserve(c) ==
    /\ call[c].stage = "missed"
    /\ last' = NextSlot
    /\ call' = [call EXCEPT ![c].stage = "slotted", ![c].until = NextSlot]
    /\ UNCHANGED <<now, cache, calls, lastStart, overlapped>>

(* ... and, having slept until then, sends the request.  GitHub answers.    *)
Send(c) ==
    /\ call[c].stage = "slotted"
    /\ call[c].until <= now
    /\ lastStart' = now
    /\ \E r \in Response :
          call' = [call EXCEPT ![c].response = r, ![c].stage = "answered", ![c].until = 0]
    /\ UNCHANGED <<now, last, cache, calls, overlapped>>

(* The connection fails instead; nothing is cached.                         *)
SendFails(c) ==
    /\ call[c].stage = "slotted"
    /\ call[c].until <= now
    /\ lastStart' = now
    /\ Fail(c)
    /\ UNCHANGED <<now, last, cache, calls, overlapped>>

(* Whether RateLimitTransport looks into the response: only that of its     *)
(* first request, and only a rate-limit 403.  The response to the second    *)
(* request is returned as it is.                                            *)
RateLimited(c) ==
    /\ call[c].attempt = 1
    /\ call[c].response \in Limited

(* A wait it accepts: announced, and no longer than MaxWait.                *)
Bearable(wait) == wait # NoWait /\ wait <= MaxWait

PassOn(c) ==
    /\ call[c].stage = "answered"
    /\ ~RateLimited(c)
    /\ call' = [call EXCEPT ![c].stage = "passed"]
    /\ UNCHANGED <<now, last, cache, calls, lastStart, overlapped>>

GiveUp_Mutant(c) ==
    /\ call[c].stage = "answered"
    /\ RateLimited(c)
    /\ ~Bearable(call[c].response.data)
    /\ call' = [call EXCEPT ![c].stage = "passed"]
    /\ UNCHANGED <<now, last, cache, calls, lastStart, overlapped>>

GiveUp(c) ==
    /\ call[c].stage = "answered"
    /\ RateLimited(c)
    /\ ~Bearable(call[c].response.data)
    /\ Fail(c)
    /\ UNCHANGED <<now, last, cache, calls, lastStart, overlapped>>

WaitForReset_Mutant(c) ==
    /\ call[c].stage = "answered"
    /\ RateLimited(c)
    /\ Bearable(call[c].response.data)
    /\ call' = [call EXCEPT ![c].stage = "waiting",
                            ![c].until = now + call[c].response.data]
    /\ UNCHANGED <<now, last, cache, calls, lastStart, overlapped>>

WaitForReset(c) ==
    /\ call[c].stage = "answered"
    /\ RateLimited(c)
    /\ Bearable(call[c].response.data)
    /\ call' = [call EXCEPT ![c].attempt = @ + 1, ![c].stage = "waiting",
                            ![c].until = now + call[c].response.data]
    /\ UNCHANGED <<now, last, cache, calls, lastStart, overlapped>>

(* The reset has passed: the request enters the throttle again.             *)
Retry(c) ==
    /\ call[c].stage = "waiting"
    /\ call[c].until <= now
    /\ call' = [call EXCEPT ![c].response = Nothing, ![c].stage = "missed", ![c].until = 0]
    /\ UNCHANGED <<now, last, cache, calls, lastStart, overlapped>>

(* CachingTransport keeps whatever response came up, its status not looked  *)
(* at, and hands it to the caller.                                          *)
Store_Mutant(c) ==
    /\ call[c].stage = "passed"
    /\ call' = [call EXCEPT ![c].stage = "idle"]
    /\ UNCHANGED <<now, last, cache, calls, lastStart, overlapped>>

Store(c) ==
    /\ call[c].stage = "passed"
    /\ call' = [call EXCEPT ![c].stage = "idle"]
    /\ cache' = IF call[c].cached
                THEN [cache EXCEPT ![call[c].url] = call[c].response]
                ELSE cache
    /\ UNCHANGED <<now, last, calls, lastStart, overlapped>>

(* Time passes.  No sleeper is more than MaxOversleep late, and the clock   *)
(* stands still once nothing depends on it any more.                        *)
Late(c) == now >= call[c].until + MaxOversleep

Tick ==
    /\ now < MaxTime
    /\ \A c \in Slotted : ~Late(c)
    /\ \/ now < last + MinInterval
       \/ Slotted # {}
       \/ \E c \in Callers : call[c].stage = "waiting" /\ now < call[c].until
    /\ now' = now + 1
    /\ UNCHANGED <<last, cache, call, calls, lastStart, overlapped>>

-----------------------------------------------------------------------------
CallStep(c) ==
    \/ Reserve(c) \/ Send(c) \/ SendFails(c)
    \/ PassOn(c) \/ GiveUp(c) \/ WaitForReset(c) \/ Retry(c)
    \/ Store(c)

Next ==
    \/ \E c \in Callers, u \in Urls, useCache \in BOOLEAN : Lookup(c, u, useCache)
    \/ \E c \in Callers : CallStep(c)
    \/ Tick

Spec == Init /\ [][Next]_vars

(* Time goes on and a goroutine that can run does.                          *)
Fairness ==
    /\ WF_vars(Tick)
    /\ \A c \in Callers : WF_vars(CallStep(c))

FairSpec == Spec /\ Fairness

-----------------------------------------------------------------------------
(* The types of the variables.                                              *)
TypeOK ==
    /\ now \in Nat
    /\ last \in Nat
    /\ lastStart \in Nat
    /\ calls \in 0..MaxCalls
    /\ overlapped \in BOOLEAN
    /\ cache \in [Urls -> Outcome]
    /\ call \in [Callers -> Call]

(* The step in which c's request leaves for GitHub.                         *)
Starts(c) == call[c].stage = "slotted" /\ call'[c].stage # "slotted"

(* Requests leave at least MinInterval apart, give or take how late a       *)
(* sleeper wakes, however many goroutines share the client and however      *)
(* often one is sent again after a rate limit (the reservation of slots     *)
(* under ThrottleTransport.mu).                                             *)
SpacedApart ==
    [][\A c \in Callers : Starts(c) => now - lastStart >= MinInterval - MaxOversleep]_vars

(* The latest slot is never further ahead than one interval for each        *)
(* request that holds a slot: no slot is lost, so nobody waits for one that *)
(* is not used (ThrottleTransport.last after a wait).                       *)
NoSlotLost == last <= now + MinInterval * Cardinality(Slotted)

(* While calls do not overlap, two checks that got a response to the same   *)
(* URL through the cache got the same one, so every convention of a sweep   *)
(* judges a repository on the same facts (CachingTransport).                *)
Agreement ==
    \A c, d \in Callers :
        /\ ~overlapped
        /\ call[c].stage = "idle" /\ call[d].stage = "idle"
        /\ call[c].cached /\ call[d].cached
        /\ call[c].url = call[d].url
        /\ call[c].response # Nothing /\ call[d].response # Nothing
        => call[c].response = call[d].response

(* A call that goes to the network hands a rate-limit 403 to its caller     *)
(* only when the limit still held after the wait it had announced; the      *)
(* first such response is waited out or turned into an error, whichever     *)
(* headers it had (RateLimitTransport).                                     *)
LimitMetTwice ==
    [][\A c \in Callers :
         /\ call[c].stage # "idle" /\ call'[c].stage = "idle"
         /\ call'[c].response \in Limited
         => call[c].attempt = 2]_vars

(* Every RoundTrip returns, whatever GitHub answers: it waits at most once, *)
(* and never longer than MaxWait.                                           *)
CallsReturn ==
    \A c \in Callers : call[c].stage # "idle" ~> call[c].stage = "idle"
=============================================================================
