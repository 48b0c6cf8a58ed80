------------------------- MODULE InstallationToken -------------------------
(***************************************************************************)
(* The GitHub App token that everything in the process shares              *)
(* (github_auth.go): GetInstallationToken hands out the cached token, or   *)
(* exchanges a signed JWT for a new one, under one mutex that it keeps     *)
(* during the exchange.  Its callers work with what they got for a while:  *)
(* the audit sweep on one repository at a time (audit.go), keeping the     *)
(* token of a check it puts off to the retry tail; reruns, audit requests  *)
(* and /_info on one request.                                              *)
(***************************************************************************)
EXTENDS Integers

CONSTANTS
    Callers,        \* goroutines that ask for the token
    Sweep,          \* the one among them that runs the audit sweep
    Nobody,         \* the mutex is free
    Lifetime,       \* how long GitHub makes a token last (an hour)
    Margin,         \* a token with less to live is not handed out (5 minutes)
    MaxExchange,    \* environment: the longest an exchange takes
    MaxWork,        \* environment: the longest a caller works with a token
    MaxSkew,        \* environment: how far the local clock is off GitHub's
    MaxTime         \* bound: the end of time

ASSUME ConstantsAssumption ==
    /\ Sweep \in Callers
    /\ Nobody \notin Callers
    /\ {Lifetime, Margin, MaxExchange, MaxWork, MaxSkew, MaxTime} \subseteq Nat

(* What the margin is for: it covers the work with a token, and a new token *)
(* outlives its exchange and that work.                                     *)
ASSUME MarginAssumption ==
    /\ MaxWork + MaxSkew <= Margin
    /\ MaxExchange + MaxWork < Lifetime

VARIABLES
    now,        \* GitHub's clock
    skew,       \* how far the local clock is ahead of it
    cached,     \* when the cached token expires, 0 if there is none
    mutex,      \* who holds GitHubAuthClient.mu across an exchange
    stage,      \* what each caller is doing
    since,      \* since when it has been doing that
    token,      \* when the token it has, or is being sent, expires
    kept,       \* pendingRetries: the tokens of the checks put off
    tail        \* the sweep is in its retry tail

vars == <<now, skew, cached, mutex, stage, since, token, kept, tail>>

Stages == {"idle",       \* has no token and wants none
           "locking",    \* called GetInstallationToken
           "asking",     \* holds the mutex, the exchange on its way to GitHub
           "answered",   \* ... and a new token on its way back
           "working",    \* uses the token it was given
           "retrying"}   \* the sweep: uses the token of a check put off

Exchanging == {"asking", "answered"}

Enters(c, s) == stage' = [stage EXCEPT ![c] = s] /\ since' = [since EXCEPT ![c] = now]

(* Where neither the hour nor a token matters any more.                     *)
Rests(c, s) ==
    /\ stage' = [stage EXCEPT ![c] = s]
    /\ since' = [since EXCEPT ![c] = 0]
    /\ token' = [token EXCEPT ![c] = 0]

(* Whether a token that expires then has more than the margin left.         *)
Fresh_Mutant(expiry) == now + skew < expiry

Fresh(expiry) == now + skew < expiry - Margin

Init ==
    /\ now = 0
    /\ skew \in -MaxSkew..MaxSkew
    /\ cached = 0
    /\ mutex = Nobody
    /\ stage = [c \in Callers |-> "idle"]
    /\ since = [c \in Callers |-> 0]
    /\ token = [c \in Callers |-> 0]
    /\ kept = {}
    /\ tail = FALSE

-----------------------------------------------------------------------------
(* A goroutine calls GetInstallationToken: the sweep for its next           *)
(* repository, which comes before the retry tail.                           *)
GetInstallationToken(c) ==
    /\ stage[c] = "idle"
    /\ c = Sweep => ~tail
    /\ Rests(c, "locking")
    /\ UNCHANGED <<now, skew, cached, mutex, kept, tail>>

(* It gets the mutex, and the cached token will do.                         *)
UseCached(c) ==
    /\ stage[c] = "locking"
    /\ mutex = Nobody
    /\ cached # 0 /\ Fresh(cached)
    /\ token' = [token EXCEPT ![c] = cached]
    /\ Enters(c, "working")
    /\ UNCHANGED <<now, skew, cached, mutex, kept, tail>>

(* It gets the mutex, and posts a JWT for a new token.                      *)
Exchange(c) ==
    /\ stage[c] = "locking"
    /\ mutex = Nobody
    /\ ~(cached # 0 /\ Fresh(cached))
    /\ mutex' = c
    /\ Enters(c, "asking")
    /\ UNCHANGED <<now, skew, cached, token, kept, tail>>

(* GitHub makes the token; its life begins.                                 *)
Mint(c) ==
    /\ stage[c] = "asking"
    /\ token' = [token EXCEPT ![c] = now + Lifetime]
    /\ stage' = [stage EXCEPT ![c] = "answered"]
    /\ UNCHANGED <<now, skew, cached, mutex, since, kept, tail>>

(* The answer arrives: the token is cached, and the mutex released.         *)
Receive(c) ==
    /\ stage[c] = "answered"
    /\ cached' = token[c]
    /\ mutex' = Nobody
    /\ Enters(c, "working")
    /\ UNCHANGED <<now, skew, token, kept, tail>>

(* The exchange fails, before GitHub acted or after; the caller gives up,   *)
(* and a sweep with it.                                                     *)
ExchangeFails_Mutant(c) ==
    /\ stage[c] \in Exchanging
    /\ Rests(c, "idle")
    /\ kept' = IF c = Sweep THEN {} ELSE kept
    /\ UNCHANGED <<now, skew, cached, mutex, tail>>

ExchangeFails(c) ==
    /\ stage[c] \in Exchanging
    /\ mutex' = Nobody
    /\ Rests(c, "idle")
    /\ kept' = IF c = Sweep THEN {} ELSE kept
    /\ UNCHANGED <<now, skew, cached, tail>>

-----------------------------------------------------------------------------
(* The work is done.  The sweep may have put a check off, with its token.   *)
Finish(c) ==
    /\ stage[c] = "working"
    /\ Rests(c, "idle")
    /\ \/ UNCHANGED kept
       \/ c = Sweep /\ kept' = kept \cup {token[c]}
    /\ UNCHANGED <<now, skew, cached, mutex, tail>>

(* All repositories are done: the checks put off are run once more, each    *)
(* with the token it was first run with.                                    *)
Retry ==
    /\ stage[Sweep] = "idle"
    /\ \E expiry \in kept :
          /\ token' = [token EXCEPT ![Sweep] = expiry]
          /\ kept' = kept \ {expiry}
    /\ tail' = TRUE
    /\ Enters(Sweep, "retrying")
    /\ UNCHANGED <<now, skew, cached, mutex>>

RetryDone ==
    /\ stage[Sweep] = "retrying"
    /\ tail' = (kept # {})
    /\ Rests(Sweep, "idle")
    /\ UNCHANGED <<now, skew, cached, mutex, kept>>

(* The process dies and starts again; the token was kept in memory only.    *)
Restart ==
    /\ cached' = 0
    /\ mutex' = Nobody
    /\ stage' = [c \in Callers |-> "idle"]
    /\ since' = [c \in Callers |-> 0]
    /\ token' = [c \in Callers |-> 0]
    /\ kept' = {}
    /\ tail' = FALSE
    /\ UNCHANGED <<now, skew>>

(* Time passes, within what the environment allows an exchange and a piece  *)
(* of work.                                                                 *)
Tick ==
    /\ now < MaxTime
    /\ \A c \in Callers :
          /\ stage[c] \in Exchanging => now < since[c] + MaxExchange
          /\ stage[c] \in {"working", "retrying"} => now < since[c] + MaxWork
    /\ now' = now + 1
    /\ UNCHANGED <<skew, cached, mutex, stage, since, token, kept, tail>>

-----------------------------------------------------------------------------
CallStep(c) ==
    \/ UseCached(c) \/ Exchange(c)
    \/ Mint(c) \/ Receive(c) \/ ExchangeFails(c)

Next ==
    \/ \E c \in Callers : GetInstallationToken(c) \/ CallStep(c) \/ Finish(c)
    \/ Retry \/ RetryDone \/ Restart \/ Tick

Spec == Init /\ [][Next]_vars

(* An exchange returns; and sync.Mutex, which hands over to the longest     *)
(* waiter when it has waited for a while, starves nobody.                   *)
Fairness ==
    \A c \in Callers :
        /\ SF_vars(UseCached(c) \/ Exchange(c))
        /\ WF_vars(Mint(c) \/ Receive(c) \/ ExchangeFails(c))

FairSpec == Spec /\ Fairness

-----------------------------------------------------------------------------
(* The types of the variables; and whoever exchanges holds the mutex.       *)
TypeOK ==
    /\ now \in 0..MaxTime
    /\ skew \in -MaxSkew..MaxSkew
    /\ cached \in Nat
    /\ mutex \in Callers \cup {Nobody}
    /\ stage \in [Callers -> Stages]
    /\ since \in [Callers -> Nat]
    /\ token \in [Callers -> Nat]
    /\ kept \in SUBSET Nat
    /\ tail \in BOOLEAN
    /\ \A c \in Callers : stage[c] \in Exchanging <=> mutex = c

(* A token does not expire on whoever was given it: not one that was cached *)
(* long ago, not one whose exchange took its time, whatever the local clock *)
(* says (the 5 minutes in GetInstallationToken).                            *)
LiveInUse == \A c \in Callers : stage[c] = "working" => now < token[c]

(* Whoever asks for a token gets one or an error, although one goroutine    *)
(* keeps the mutex while it talks to GitHub.                                *)
TokensArrive ==
    \A c \in Callers : stage[c] = "locking" ~> stage[c] \in {"working", "idle"}
=============================================================================
