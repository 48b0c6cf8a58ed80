---------------------- MODULE InstallationToken_proofs ----------------------
(***************************************************************************)
(* For any number of callers, any lifetime and margin, and any clock skew, *)
(* as long as the margin covers the work and the skew (MarginAssumption):  *)
(* a token does not expire on the caller it was given to.  LiveInUse alone *)
(* is not inductive: Tick keeps it only because a token given out was good *)
(* for all of the work, and Receive because an exchange that takes its     *)
(* time eats only MaxExchange of the new token's life.  LivesOn says both. *)
(***************************************************************************)
EXTENDS InstallationToken, TLAPS

(* An exchange is within its time; a token on its way back lives as long as *)
(* it was made to from the start of the exchange; and a token given out is  *)
(* good for the longest piece of work.                                      *)
LivesOn ==
    \A c \in Callers :
        /\ stage[c] \in Exchanging => since[c] <= now /\ now <= since[c] + MaxExchange
        /\ stage[c] = "answered" => since[c] + Lifetime <= token[c]
        /\ stage[c] = "working" =>
             now <= since[c] + MaxWork /\ since[c] + MaxWork < token[c]

IInv == TypeOK /\ LivesOn

(* The constants are numbers, one by one.                                   *)
LEMMA ConstantsNat ==
    /\ Lifetime \in Nat /\ Margin \in Nat /\ MaxExchange \in Nat
    /\ MaxWork \in Nat /\ MaxSkew \in Nat /\ MaxTime \in Nat
BY ConstantsAssumption

(* What Enters and Rests do to the functions of the callers.                *)
LEMMA EntersTyped ==
    ASSUME TypeOK, NEW c \in Callers, NEW s \in Stages, Enters(c, s)
    PROVE  /\ stage' \in [Callers -> Stages] /\ since' \in [Callers -> Nat]
           /\ stage'[c] = s /\ since'[c] = now
           /\ \A d \in Callers \ {c} : stage'[d] = stage[d] /\ since'[d] = since[d]
BY DEF Enters, TypeOK

LEMMA RestsTyped ==
    ASSUME TypeOK, NEW c \in Callers, NEW s \in Stages, Rests(c, s)
    PROVE  /\ stage' \in [Callers -> Stages] /\ since' \in [Callers -> Nat]
           /\ token' \in [Callers -> Nat]
           /\ stage'[c] = s
           /\ \A d \in Callers \ {c} :
                stage'[d] = stage[d] /\ since'[d] = since[d] /\ token'[d] = token[d]
BY DEF Rests, TypeOK

(* The variables keep their types, and the mutex stays with the goroutine   *)
(* that exchanges.                                                          *)
LEMMA TypeStep == TypeOK /\ [Next]_vars => TypeOK'
<1> SUFFICES ASSUME TypeOK, [Next]_vars PROVE TypeOK'
  OBVIOUS
<1> USE ConstantsNat
<1>n. Nobody \notin Callers /\ Sweep \in Callers
  BY ConstantsAssumption
<1>1. ASSUME NEW c \in Callers, GetInstallationToken(c) PROVE TypeOK'
  <2>1. "locking" \in Stages
    BY DEF Stages
  <2> QED
    BY <1>1, <2>1, RestsTyped DEF GetInstallationToken, TypeOK, Exchanging
<1>2. ASSUME NEW c \in Callers, UseCached(c) PROVE TypeOK'
  <2>1. "working" \in Stages
    BY DEF Stages
  <2>2. token' \in [Callers -> Nat]
    BY <1>2 DEF UseCached, TypeOK
  <2> QED
    BY <1>2, <2>1, <2>2, EntersTyped DEF UseCached, TypeOK, Exchanging
<1>3. ASSUME NEW c \in Callers, Exchange(c) PROVE TypeOK'
  <2>1. "asking" \in Stages
    BY DEF Stages
  <2> QED
    BY <1>3, <2>1, <1>n, EntersTyped DEF Exchange, TypeOK, Exchanging
<1>4. ASSUME NEW c \in Callers, Mint(c) PROVE TypeOK'
  BY <1>4 DEF Mint, TypeOK, Exchanging, Stages
<1>5. ASSUME NEW c \in Callers, Receive(c) PROVE TypeOK'
  <2>1. "working" \in Stages
    BY DEF Stages
  <2> QED
    BY <1>5, <2>1, <1>n, EntersTyped DEF Receive, TypeOK, Exchanging
<1>6. ASSUME NEW c \in Callers, ExchangeFails(c) PROVE TypeOK'
  <2>1. "idle" \in Stages
    BY DEF Stages
  <2> QED
    BY <1>6, <2>1, <1>n, RestsTyped DEF ExchangeFails, TypeOK, Exchanging
<1>7. ASSUME NEW c \in Callers, Finish(c) PROVE TypeOK'
  <2>1. "idle" \in Stages
    BY DEF Stages
  <2>2. kept' \in SUBSET Nat
    <3>1. kept' = kept \/ kept' = kept \cup {token[c]}
      BY <1>7 DEF Finish
    <3>2. kept \in SUBSET Nat /\ token[c] \in Nat
      BY DEF TypeOK
    <3> QED
      BY <3>1, <3>2
  <2> QED
    BY <1>7, <2>1, <2>2, RestsTyped DEF Finish, TypeOK, Exchanging
<1>8. CASE Retry
  <2>1. "retrying" \in Stages
    BY DEF Stages
  <2>2. token' \in [Callers -> Nat] /\ kept' \in SUBSET Nat
    BY <1>8 DEF Retry, TypeOK
  <2> QED
    BY <1>8, <2>1, <2>2, <1>n, EntersTyped DEF Retry, TypeOK, Exchanging
<1>9. CASE RetryDone
  <2>1. "idle" \in Stages
    BY DEF Stages
  <2> QED
    BY <1>9, <2>1, <1>n, RestsTyped DEF RetryDone, TypeOK, Exchanging
<1>10. CASE Restart
  BY <1>10, <1>n DEF Restart, TypeOK, Exchanging, Stages
<1>11. CASE Tick
  BY <1>11 DEF Tick, TypeOK, Exchanging
<1>12. CASE UNCHANGED vars
  BY <1>12 DEF vars, TypeOK
<1> QED
  BY <1>1, <1>2, <1>3, <1>4, <1>5, <1>6, <1>7, <1>8, <1>9, <1>10, <1>11, <1>12
     DEF Next, CallStep

LEMMA TypeInit == Init => TypeOK
<1> SUFFICES ASSUME Init PROVE TypeOK
  OBVIOUS
<1>1. now \in 0..MaxTime
  BY ConstantsNat DEF Init
<1>2. \A c \in Callers : stage[c] \notin Exchanging /\ mutex # c
  BY ConstantsAssumption DEF Init, Exchanging
<1> QED
  BY <1>1, <1>2 DEF Init, TypeOK, Stages

(* TypeOK, of github_auth.go: the mutex of GitHubAuthClient is held exactly *)
(* during an exchange, and everything has its type.                         *)
THEOREM TokensTyped == Spec => []TypeOK
BY TypeInit, TypeStep, PTL DEF Spec

(* A token that is fresh by the local clock is good for the longest piece   *)
(* of work, by GitHub's: what the margin is for.                            *)
LEMMA FreshLasts ==
    ASSUME TypeOK, NEW expiry \in Nat, Fresh(expiry)
    PROVE  now + MaxWork < expiry
BY ConstantsNat, MarginAssumption DEF TypeOK, Fresh

(* A step of c that leaves time alone and everybody else's stage, since and *)
(* token keeps LivesOn if it keeps it for c.                                *)
LEMMA OthersLive ==
    ASSUME IInv, NEW c \in Callers, now' = now,
           \A d \in Callers \ {c} :
              stage'[d] = stage[d] /\ since'[d] = since[d] /\ token'[d] = token[d],
           /\ stage'[c] \in Exchanging =>
                since'[c] <= now /\ now <= since'[c] + MaxExchange
           /\ stage'[c] = "answered" => since'[c] + Lifetime <= token'[c]
           /\ stage'[c] = "working" =>
                now <= since'[c] + MaxWork /\ since'[c] + MaxWork < token'[c]
    PROVE  LivesOn'
BY DEF IInv, LivesOn

LEMMA LivesStep == IInv /\ [Next]_vars => LivesOn'
<1> SUFFICES ASSUME IInv, [Next]_vars PROVE LivesOn'
  OBVIOUS
<1> USE ConstantsNat
<1>t. TypeOK
  BY DEF IInv
<1>n. Nobody \notin Callers /\ Sweep \in Callers
  BY ConstantsAssumption
<1>1. ASSUME NEW c \in Callers, GetInstallationToken(c) PROVE LivesOn'
  <2>1. "locking" \in Stages /\ "locking" \notin Exchanging
    BY DEF Stages, Exchanging
  <2> QED
    BY <1>1, <1>t, <2>1, RestsTyped, OthersLive DEF GetInstallationToken
<1>2. ASSUME NEW c \in Callers, UseCached(c) PROVE LivesOn'
  <2>1. "working" \in Stages /\ "working" \notin Exchanging
    BY DEF Stages, Exchanging
  <2>2. cached \in Nat /\ now \in Nat
    BY <1>t DEF TypeOK
  <2>3. now + MaxWork < cached
    BY <1>2, <1>t, <2>2, FreshLasts DEF UseCached
  <2>4. token'[c] = cached /\ \A d \in Callers \ {c} : token'[d] = token[d]
    BY <1>2, <1>t DEF UseCached, TypeOK
  <2>5. /\ stage'[c] = "working" /\ since'[c] = now /\ now' = now
        /\ \A d \in Callers \ {c} : stage'[d] = stage[d] /\ since'[d] = since[d]
    BY <1>2, <1>t, <2>1, EntersTyped DEF UseCached
  <2> QED
    BY <2>1, <2>2, <2>3, <2>4, <2>5, OthersLive
<1>3. ASSUME NEW c \in Callers, Exchange(c) PROVE LivesOn'
  <2>1. "asking" \in Stages
    BY DEF Stages
  <2>2. now \in Nat
    BY <1>t DEF TypeOK
  <2>3. /\ stage'[c] = "asking" /\ since'[c] = now /\ now' = now /\ token' = token
        /\ \A d \in Callers \ {c} : stage'[d] = stage[d] /\ since'[d] = since[d]
    BY <1>3, <1>t, <2>1, EntersTyped DEF Exchange
  <2> QED
    BY <2>2, <2>3, OthersLive
<1>4. ASSUME NEW c \in Callers, Mint(c) PROVE LivesOn'
  <2>1. now \in Nat /\ since[c] \in Nat
    BY <1>t DEF TypeOK
  <2>2. since[c] <= now /\ now <= since[c] + MaxExchange
    BY <1>4 DEF Mint, IInv, LivesOn, Exchanging
  <2>3. /\ stage'[c] = "answered" /\ token'[c] = now + Lifetime
        /\ since' = since /\ now' = now
        /\ \A d \in Callers \ {c} : stage'[d] = stage[d] /\ token'[d] = token[d]
    BY <1>4, <1>t DEF Mint, TypeOK
  <2> QED
    BY <2>1, <2>2, <2>3, OthersLive
<1>5. ASSUME NEW c \in Callers, Receive(c) PROVE LivesOn'
  <2>1. "working" \in Stages /\ "working" \notin Exchanging
    BY DEF Stages, Exchanging
  <2>2. now \in Nat /\ since[c] \in Nat /\ token[c] \in Nat
    BY <1>t DEF TypeOK
  <2>3. now <= since[c] + MaxExchange /\ since[c] + Lifetime <= token[c]
    BY <1>5 DEF Receive, IInv, LivesOn, Exchanging
  <2>4. now + MaxWork < token[c]
    BY <2>2, <2>3, MarginAssumption
  <2>5. /\ stage'[c] = "working" /\ since'[c] = now /\ now' = now /\ token' = token
        /\ \A d \in Callers \ {c} : stage'[d] = stage[d] /\ since'[d] = since[d]
    BY <1>5, <1>t, <2>1, EntersTyped DEF Receive
  <2> QED
    BY <2>1, <2>2, <2>4, <2>5, OthersLive
<1>6. ASSUME NEW c \in Callers, NEW s \in {"idle"},
             Rests(c, s), now' = now
      PROVE  LivesOn'
  <2>1. s \in Stages /\ s \notin Exchanging /\ s \notin {"answered", "working"}
    BY DEF Stages, Exchanging
  <2> QED
    BY <1>6, <1>t, <2>1, RestsTyped, OthersLive
<1>7. CASE Retry
  <2>1. "retrying" \in Stages /\ "retrying" \notin Exchanging
    BY DEF Stages, Exchanging
  <2>2. \A d \in Callers \ {Sweep} : token'[d] = token[d]
    BY <1>7, <1>t DEF Retry, TypeOK
  <2>3. /\ stage'[Sweep] = "retrying" /\ now' = now
        /\ \A d \in Callers \ {Sweep} : stage'[d] = stage[d] /\ since'[d] = since[d]
    BY <1>7, <1>t, <1>n, <2>1, EntersTyped DEF Retry
  <2> QED
    BY <2>1, <2>2, <2>3, <1>n, OthersLive
<1>8. CASE Restart
  BY <1>8 DEF Restart, LivesOn, Exchanging
<1>9. CASE Tick
  <2> SUFFICES ASSUME NEW c \in Callers
               PROVE  /\ stage[c] \in Exchanging =>
                           since[c] <= now' /\ now' <= since[c] + MaxExchange
                      /\ stage[c] = "answered" => since[c] + Lifetime <= token[c]
                      /\ stage[c] = "working" =>
                           now' <= since[c] + MaxWork /\ since[c] + MaxWork < token[c]
    BY <1>9 DEF Tick, LivesOn
  <2>1. now \in Nat /\ since[c] \in Nat
    BY <1>t DEF TypeOK
  <2> QED
    BY <1>9, <2>1 DEF Tick, IInv, LivesOn
<1>10. CASE UNCHANGED vars
  BY <1>10 DEF vars, IInv, LivesOn
<1>11. ASSUME NEW c \in Callers, ExchangeFails(c) PROVE LivesOn'
  BY <1>11, <1>6 DEF ExchangeFails
<1>12. ASSUME NEW c \in Callers, Finish(c) PROVE LivesOn'
  BY <1>12, <1>6 DEF Finish
<1>13. CASE RetryDone
  BY <1>13, <1>6, <1>n DEF RetryDone
<1> QED
  BY <1>1, <1>2, <1>3, <1>4, <1>5, <1>7, <1>8, <1>9, <1>10, <1>11, <1>12, <1>13
     DEF Next, CallStep

LEMMA LivesInit == Init => LivesOn
BY DEF Init, LivesOn, Exchanging

(* LiveInUse, of the 5 minutes in GetInstallationToken: no caller works     *)
(* with an expired token before it is done with what it asked for it for.   *)
THEOREM TokenLive == Spec => []LiveInUse
<1>1. Init => IInv
  BY TypeInit, LivesInit DEF IInv
<1>2. IInv /\ [Next]_vars => IInv'
  BY TypeStep, LivesStep DEF IInv
<1>3. IInv => LiveInUse
  <2> SUFFICES ASSUME IInv, NEW c \in Callers, stage[c] = "working"
               PROVE  now < token[c]
    BY DEF LiveInUse
  <2>1. now \in Nat /\ since[c] \in Nat /\ token[c] \in Nat
    BY DEF IInv, TypeOK
  <2> QED
    BY <2>1, ConstantsNat DEF IInv, LivesOn
<1> QED
  BY <1>1, <1>2, <1>3, PTL DEF Spec
=============================================================================
