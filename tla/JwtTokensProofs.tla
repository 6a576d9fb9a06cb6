--------------------------- MODULE JwtTokensProofs ---------------------------
(***************************************************************************)
(* Proofs about the session tokens: under OrderlySchedule every token     *)
(* verifies everywhere for its guaranteed time and the signing key is      *)
(* replaced in time, for any replicas, time constants and bounds.          *)
(***************************************************************************)
EXTENDS JwtTokens, JwtScheduleProofs

-----------------------------------------------------------------------------
(* Types.                                                                  *)

TokenTypeInv ==
    TypeInv /\ signedAt \in [Keys -> Times] /\ limited \in [Replicas -> BOOLEAN]

LEMMA TokenStep == [TokenNext]_tokenVars => [Next]_vars
BY DEF TokenNext, tokenVars, Issue, ForceRefresh, LimitOver

\* The history of signatures holds an instant of the clock for every key, and no step of
\* the key protocol that runs below it leaves its types.
THEOREM TokenTypeCorrect == TokenSpec => []TokenTypeOK
<1>1. TokenInit => TokenTypeInv
  BY InitType DEF TokenInit, TokenTypeInv, Times
<1>2. TokenTypeInv /\ [TokenNext]_tokenVars => TokenTypeInv'
  <2>1. SUFFICES ASSUME TokenTypeInv, [TokenNext]_tokenVars PROVE TokenTypeInv'
    OBVIOUS
  <2>2. TypeInv'
    BY <2>1, TokenStep, NextType DEF TokenTypeInv
  <2>3. signedAt' \in [Keys -> Times]
    <3>1. CASE UNCHANGED signedAt
      BY <2>1, <3>1 DEF TokenTypeInv
    <3>2. ASSUME NEW r \in Replicas, Issue(r) PROVE signedAt' \in [Keys -> Times]
      BY <2>1, <3>2 DEF TokenTypeInv, TypeInv, TypeOK, Issue, Times
    <3>. QED
      BY <2>1, <3>1, <3>2 DEF TokenNext, tokenVars, ForceRefresh, LimitOver
  <2>4. limited' \in [Replicas -> BOOLEAN]
    BY <2>1 DEF TokenTypeInv, TokenNext, tokenVars, Issue, ForceRefresh, LimitOver
  <2>. QED
    BY <2>2, <2>3, <2>4 DEF TokenTypeInv
<1>3. TokenTypeInv => TokenTypeOK
  BY DEF TokenTypeInv, TypeInv, TokenTypeOK
<1>. QED
  BY <1>1, <1>2, <1>3, PTL DEF TokenSpec

-----------------------------------------------------------------------------
(* Every signature is good from when it is made.                           *)

Signed ==
    \A k \in Keys : signedAt[k] # None =>
        k <= minted /\ signedAt[k] <= now /\ Good(store, now, k, signedAt[k])

\* And what a replica has read since then tells it so: a state loaded by a refresh that
\* began after the signature, or cached too late for one that began before.
Informed ==
    \A r \in Replicas, k \in Keys : signedAt[k] # None =>
        /\ pc[r]["refresh"] \in LoadingPCs /\ signedAt[k] < started[r]["refresh"] =>
              Good(view[r], now, k, signedAt[k])
        /\ cache[r] # None /\ signedAt[k] + CacheTtl + MaxOpTicks < cache[r].until =>
              Good(cache[r], now, k, signedAt[k])

TokenInv == ScheduleInv /\ signedAt \in [Keys -> Times] /\ Signed /\ Informed

LEMMA IssueSigns ==
    ASSUME OrderlySchedule, TokenInv, NEW r \in Replicas, Issue(r)
    PROVE  Signed' /\ Informed'
<1>. USE Schedule
<1>1. /\ cache[r] # None /\ UNCHANGED <<now, store, minted, cache, pc, view, started>>
      /\ signedAt' = [signedAt EXCEPT ![cache[r].active.key] = now]
  BY DEF Issue, vars
<1>2. Facts /\ DailyInv
  BY FactsHold DEF TokenInv, ScheduleInv
<1>3. /\ cache[r].active \in Pair /\ cache[r].until \in Nat /\ now < cache[r].until
      /\ now \in Nat
  BY <1>1, <1>2 DEF Facts
<1>4. cache[r].active.key \in Keys /\ cache[r].active.key <= minted
  BY <1>1, <1>2, <1>3, NoneAssumption DEF DailyInv, Numbering, Numbered, Pair, Raw
<1>5. Good(store, now, cache[r].active.key, cache[r].until)
  BY <1>1, <1>2 DEF DailyInv, Signers
<1>6. now \in Int /\ cache[r].until \in Int /\ now <= cache[r].until
  BY <1>3
<1>7. Good(store, now, cache[r].active.key, now)
  BY <1>2, <1>5, <1>6, GoodEarlier
<1>8. \A k \in Keys : signedAt'[k] = IF k = cache[r].active.key THEN now ELSE signedAt[k]
  BY <1>1, <1>4 DEF TokenInv
<1>9. Signed'
  BY <1>1, <1>3, <1>4, <1>7, <1>8 DEF TokenInv, Signed
<1>10. ASSUME NEW x \in Replicas
       PROVE  /\ pc[x]["refresh"] \in LoadingPCs => ~ (now < started[x]["refresh"])
              /\ cache[x] # None => ~ (now + CacheTtl + MaxOpTicks < cache[x].until)
  BY <1>2 DEF Facts, LoadingPCs
<1>11. Informed'
  BY <1>1, <1>8, <1>10 DEF TokenInv, Informed
<1>. QED
  BY <1>9, <1>11

LEMMA InvFacts == OrderlySchedule /\ ScheduleInv => Facts
BY FactsHold DEF ScheduleInv

LEMMA StepSigned ==
    ASSUME OrderlySchedule, TokenInv, ScheduleInv', [Next]_vars, UNCHANGED signedAt
    PROVE  Signed'
<1>. USE Schedule
<1>1. Facts /\ DailyInv /\ DailyStep
  BY FactsHold, NextDaily DEF TokenInv, ScheduleInv, DailyInv
<1>2. Facts'
  BY InvFacts, PTL
<1>3. minted' \in {minted, minted + 1} /\ now' \in {now, now + 1} /\ minted \in Nat /\ now \in Nat
  BY <1>1 DEF Facts, DailyStep, LoaderStep, BootReadStep, BootStep, LoadStep, CleanStep,
              PublishStep, CheckStep, StartStep, PutStep, ForgetStep, TickStep, QuietStep
<1>4. ASSUME NEW k \in Keys, signedAt[k] # None
      PROVE  k <= minted' /\ signedAt[k] <= now' /\ Good(store', now', k, signedAt[k])
  <2>1. /\ k <= minted /\ signedAt[k] <= now /\ Good(store, now, k, signedAt[k])
        /\ signedAt[k] \in Int /\ k \in Nat
    BY <1>4 DEF TokenInv, Signed, Times, Keys
  <2>2. signedAt[k] <= now + CacheTtl + MaxOpTicks
    BY <1>3, <2>1
  <2>3. Good(store', now', k, signedAt[k])
    BY <1>1, <1>2, <2>1, <2>2, GoodKept
  <2>. QED
    BY <1>3, <2>1, <2>3
<1>. QED
  BY <1>4 DEF Signed

LEMMA GoodLater ==
    ASSUME OrderlySchedule, Facts, NEW s, NEW k, NEW t \in Int, Good(s, now, k, t)
    PROVE  Good(s, now + 1, k, t)
BY Schedule DEF Good, Guarantee, Facts

\* What a refresh reads, and what it publishes, is good for the signatures before it.
LEMMA StepInformed ==
    ASSUME OrderlySchedule, TokenInv, [Next]_vars, UNCHANGED signedAt
    PROVE  Informed'
<1>. USE Schedule DEF LoadingPCs
<1>1. Facts /\ DailyInv /\ DailyStep /\ Informed /\ Signed
  BY FactsHold, NextDaily DEF TokenInv, ScheduleInv, DailyInv
<1>2. ASSUME NEW k \in Keys, signedAt[k] # None
      PROVE  signedAt[k] \in Int /\ Good(store, now, k, signedAt[k])
  BY <1>1, <1>2 DEF TokenInv, Signed, Times
<1>3. ASSUME NEW r \in Replicas, NEW k \in Keys, signedAt[k] # None,
             now' = now \/ now' = now + 1
      PROVE  /\ pc[r]["refresh"] \in LoadingPCs /\ signedAt[k] < started[r]["refresh"] =>
                  Good(view[r], now', k, signedAt[k])
             /\ cache[r] # None /\ signedAt[k] + CacheTtl + MaxOpTicks < cache[r].until =>
                  Good(cache[r], now', k, signedAt[k])
  BY <1>1, <1>2, <1>3, GoodLater DEF Informed
<1>4. ASSUME NEW x \in Replicas, LoadStep(x)
      PROVE  Informed'
  <2>1. /\ now' = now /\ UNCHANGED cache
        /\ view'[x].active = store.active /\ store.active # None
        /\ view'[x].expiry = store.expiry
        /\ PreviousLive(store) => view'[x].previous = store.previous
        /\ \A y \in Replicas : y # x => LoaderKept(y)
    BY <1>1, <1>4, ParsedActive DEF LoadStep, LoaderStep, DailyInv
  <2>2. ASSUME NEW k \in Keys, signedAt[k] # None
        PROVE  Good(view'[x], now, k, signedAt[k])
    <3>1. signedAt[k] \in Int /\ Good(store, now, k, signedAt[k]) /\ Guarantee \in Int /\ now \in Nat
      BY <1>1, <1>2, <2>2 DEF Guarantee, Facts
    <3>2. CASE PreviousLive(store)
      BY <2>1, <3>1, <3>2 DEF Good
    <3>3. CASE ~ PreviousLive(store)
      <4>1. store.previous # None /\ store.expiry # None => store.expiry \in Nat /\ store.expiry <= now
        BY <1>1, <3>1, <3>3 DEF PreviousLive, Facts, Times
      <4>. QED
        BY <2>1, <3>1, <4>1 DEF Good
    <3>. QED
      BY <3>2, <3>3
  <2>. QED
    BY <1>3, <2>1, <2>2 DEF Informed, LoaderKept
<1>5. ASSUME NEW x \in Replicas, PublishStep(x)
      PROVE  Informed'
  <2>1. /\ now' = now /\ pc[x]["refresh"] = "publish" /\ pc'[x]["refresh"] = "idle"
        /\ \A y \in Replicas : y # x => LoaderKept(y) /\ cache'[y] = cache[y]
        /\ cache'[x].active = view[x].active /\ cache'[x].previous = view[x].previous
        /\ cache'[x].expiry = view[x].expiry /\ cache'[x].until = now + CacheTtl
    BY <1>5 DEF PublishStep, LoaderStep
  <2>2. ASSUME NEW k \in Keys, signedAt[k] # None,
               signedAt[k] + CacheTtl + MaxOpTicks < now + CacheTtl
        PROVE  Good(cache'[x], now, k, signedAt[k])
    <3>1. signedAt[k] < started[x]["refresh"]
      BY <1>1, <1>2, <2>1, <2>2 DEF Facts
    <3>. QED
      BY <1>1, <2>1, <2>2, <3>1 DEF Good, Informed
  <2>. QED
    BY <1>3, <2>1, <2>2 DEF Informed, LoaderKept
<1>6. ASSUME now' = now \/ now' = now + 1,
             \A r \in Replicas :
                /\ pc'[r]["refresh"] \in LoadingPCs =>
                      /\ pc[r]["refresh"] \in LoadingPCs /\ view'[r] = view[r]
                      /\ started'[r]["refresh"] = started[r]["refresh"]
                /\ cache'[r] \in {cache[r], None}
      PROVE  Informed'
  BY <1>3, <1>6 DEF Informed
<1>7. ASSUME NEW x \in Replicas, BootReadStep(x) \/ BootStep(x) \/ CleanStep(x)
      PROVE  Informed'
  BY <1>6, <1>7 DEF BootReadStep, BootStep, CleanStep, LoaderStep, LoaderKept, BootPCs
<1>8. CASE CheckStep \/ StartStep \/ PutStep \/ ForgetStep \/ TickStep \/ QuietStep
  BY <1>6, <1>8 DEF CheckStep, StartStep, PutStep, ForgetStep, TickStep, QuietStep,
                    LoadersKept, LoaderKept, CachesKept
<1>. QED
  BY <1>1, <1>4, <1>5, <1>7, <1>8 DEF DailyStep

LEMMA InitToken == OrderlySchedule /\ TokenInit => TokenInv
BY InitSchedule DEF TokenInit, TokenInv, Signed, Informed, Times

LEMMA NextToken == OrderlySchedule /\ TokenInv /\ [TokenNext]_tokenVars => TokenInv'
<1>1. SUFFICES ASSUME OrderlySchedule, TokenInv, [TokenNext]_tokenVars PROVE TokenInv'
  OBVIOUS
<1>2. [Next]_vars
  BY <1>1, TokenStep
<1>3. ScheduleInv'
  BY <1>1, <1>2, NextSchedule DEF TokenInv
<1>4. CASE UNCHANGED signedAt
  BY <1>1, <1>2, <1>3, <1>4, StepSigned, StepInformed DEF TokenInv
<1>5. ASSUME NEW r \in Replicas, Issue(r)
      PROVE  TokenInv'
  <2>1. signedAt' \in [Keys -> Times]
    BY <1>1, <1>5 DEF TokenInv, ScheduleInv, TypeInv, TypeOK, Issue, Times
  <2>. QED
    BY <1>1, <1>3, <1>5, <2>1, IssueSigns DEF TokenInv
<1>. QED
  BY <1>1, <1>4, <1>5 DEF TokenNext, tokenVars, ForceRefresh, LimitOver

-----------------------------------------------------------------------------
(* The guarantee.                                                          *)

\* A key that is good for longer than now is found under its kid in a fresh state, and in
\* the cached one unless that is behind the signature.
LEMMA GoodValidates ==
    ASSUME OrderlySchedule, TypeInv, Facts, DailyInv, NEW k \in Keys, k <= minted,
           NEW t \in Int, now < t + Guarantee, Good(store, now, k, t), NEW r \in Replicas,
           cache[r] # None /\ t + CacheTtl + MaxOpTicks < cache[r].until =>
               Good(cache[r], now, k, t)
    PROVE  \/ Validates(r, k)
           \/ /\ limited[r] /\ ResolveKey(cache[r], kidOf[k]) = None
              /\ cache[r] # None => cache[r].until <= t + CacheTtl + MaxOpTicks
<1>. USE Schedule
<1>1. /\ now \in Nat /\ minted \in Nat /\ k \in Nat
  BY DEF Facts, Keys
<1>2. kidOf[k] = k + 1
  BY <1>1 DEF DailyInv, Numbering
<1>3. k \in Nat /\ k # None
  BY <1>1
<1>4. \A p : p # None /\ Numbered(p) /\ p \in Pair /\ p.kid = k + 1 => p.key = k
  BY <1>1 DEF Numbered, Pair, Keys
<1>5. ResolveKey(cache[r], kidOf[k]) \in {k, None}
  <2>1. CASE cache[r] = None
    BY <2>1 DEF ResolveKey
  <2>2. CASE cache[r] # None
    <3>1. /\ cache[r].active \in Pair /\ Numbered(cache[r].active) /\ cache[r].active # None
          /\ cache[r].previous \in Pair \cup {None} /\ Numbered(cache[r].previous)
      BY <2>2, NoneAssumption DEF Facts, DailyInv, Numbering, Pair, Raw
    <3>. QED
      BY <1>2, <1>4, <3>1 DEF ResolveKey, PreviousLive
  <2>. QED
    BY <2>1, <2>2
<1>6. store.active # None /\ ResolveKey(Loaded(store), kidOf[k]) = k
  <2>1. store.active # None
    BY <1>1 DEF Good, DailyInv, FirstRun, Guarantee
  <2>2. /\ Loaded(store).active = store.active /\ Loaded(store).expiry = store.expiry
        /\ Loaded(store).previous = IF PreviousLive(store) THEN store.previous ELSE None
    BY <2>1, ParsedActive DEF Loaded, NoValues, DailyInv
  <2>3. Loaded(store) # None
    <3>1. store \in Values
      BY DEF TypeInv, TypeOK
    <3>. QED
      BY <2>1, <3>1, LoadedType, NoneAssumption
  <2>4. store.active.kid = store.active.key + 1 /\ store.active.key \in Nat
    BY <2>1, ParsedActive DEF DailyInv
  <2>5. CASE k = store.active.key
    BY <1>2, <2>1, <2>2, <2>3, <2>4, <2>5 DEF ResolveKey
  <2>6. CASE k # store.active.key
    <3>1. /\ store.previous # None /\ k = store.previous.key /\ store.expiry # None
          /\ t + Guarantee <= store.expiry /\ store.expiry \in Nat
      BY <1>1, <2>6 DEF Good, Guarantee, Facts, Times
    <3>2. now < store.expiry + Skew
      BY <1>1, <3>1 DEF Guarantee
    <3>3. store.previous.kid = k + 1
      BY <3>1 DEF DailyInv, Numbering, Numbered
    <3>4. PreviousLive(store) /\ kidOf[k] # store.active.kid
      BY <1>1, <1>2, <2>4, <2>6, <3>1, <3>2 DEF PreviousLive, Facts
    <3>5. /\ Loaded(store).previous = store.previous /\ PreviousLive(Loaded(store))
      BY <2>2, <3>4 DEF PreviousLive
    <3>. QED
      BY <1>2, <2>1, <2>2, <2>3, <3>1, <3>3, <3>4, <3>5 DEF ResolveKey
  <2>. QED
    BY <2>1, <2>5, <2>6
<1>7. ASSUME cache[r] # None, ~ (cache[r].until <= t + CacheTtl + MaxOpTicks)
      PROVE  ResolveKey(cache[r], kidOf[k]) # None
  <2>1. /\ Good(cache[r], now, k, t) /\ cache[r].until \in Nat
        /\ cache[r].active \in Pair /\ cache[r].active # None /\ Numbered(cache[r].active)
        /\ cache[r].previous \in Pair \cup {None} /\ Numbered(cache[r].previous)
    BY <1>7, NoneAssumption DEF Facts, DailyInv, Numbering, Pair, Raw
  <2>2. CASE k = cache[r].active.key
    BY <1>2, <1>3, <1>7, <2>1, <2>2 DEF ResolveKey, Numbered
  <2>3. CASE k # cache[r].active.key
    <3>1. /\ cache[r].previous # None /\ k = cache[r].previous.key /\ cache[r].expiry # None
          /\ t + Guarantee <= cache[r].expiry
      BY <1>1, <2>1, <2>3 DEF Good, Guarantee
    <3>2. cache[r].expiry \in Nat
      BY <1>7, <3>1 DEF TypeInv, TypeOK, KeyState, Times
    <3>3. cache[r].expiry + Skew > now
      BY <1>1, <3>1, <3>2 DEF Guarantee
    <3>4. PreviousLive(cache[r]) /\ cache[r].previous.kid = kidOf[k]
      BY <1>2, <2>1, <3>1, <3>3 DEF PreviousLive, Numbered
    <3>5. cache[r].active.key \in Nat /\ cache[r].previous.key \in Nat
      BY <2>1, <3>1 DEF Pair, Keys
    <3>. QED
      BY <1>3, <1>7, <2>1, <3>1, <3>4, <3>5 DEF ResolveKey
  <2>. QED
    BY <2>2, <2>3
<1>. QED
  BY <1>3, <1>5, <1>6, <1>7 DEF Validates

\* In an orderly deployment every replica accepts every token for at least the overlap window
\* less a cache life and two operations, whichever replica signed it, from however old a
\* cached state, and wherever a rotation or a clean-up is at that moment; but for a replica
\* whose cached state is gone or older than the token, while its last forced refresh is
\* younger than ForcedRefreshInterval (JwtKeyManager.cs:86, 274-282).  In the code that time
\* is 35 minutes less the SAP timeouts, which falls short of the hour a token lives
\* (JwtTokenHelper.cs:23).
THEOREM TokensAccepted ==
    ASSUME OrderlySchedule
    PROVE  TokenSpec => []TokenGuarantee
<1>1. TokenInit => TokenInv
  BY InitToken
<1>2. TokenInv /\ [TokenNext]_tokenVars => TokenInv'
  BY NextToken
<1>3. TokenInv => TokenGuarantee
  <2>1. SUFFICES ASSUME TokenInv, NEW k \in Keys, signedAt[k] # None,
                        now < signedAt[k] + Guarantee, NEW r \in Replicas
                 PROVE  Validates(r, k) \/ Behind(r, k)
    BY DEF TokenGuarantee, AcceptedFor, Guarantee
  <2>2. Facts /\ DailyInv /\ TypeInv
    BY <2>1, FactsHold DEF TokenInv, ScheduleInv
  <2>3. /\ k <= minted /\ Good(store, now, k, signedAt[k]) /\ signedAt[k] \in Int
        /\ cache[r] # None /\ signedAt[k] + CacheTtl + MaxOpTicks < cache[r].until =>
              Good(cache[r], now, k, signedAt[k])
    BY <2>1 DEF TokenInv, Signed, Informed, Times
  <2>. QED
    BY <2>1, <2>2, <2>3, GoodValidates DEF Behind
<1>. QED
  BY <1>1, <1>2, <1>3, PTL DEF TokenSpec

LEMMA AgeFollows ==
    ASSUME OrderlySchedule, ScheduleInv
    PROVE  KeyAgeBounded
<1>. USE Schedule
<1>1. SUFFICES ASSUME store.created # None, minted < MaxMinted
               PROVE  now < store.created + RotationDuration + CheckInterval + MaxOpTicks
  BY DEF KeyAgeBounded
<1>2. Facts /\ DailyInv
  BY FactsHold DEF ScheduleInv
<1>3. now \in Nat /\ store.created \in Nat
  BY <1>1, <1>2 DEF Facts, Times
<1>4. CASE Early
  <2>1. Began < store.created + RotationDuration + CheckInterval
    BY <1>1, <1>2, <1>4 DEF DailyInv, Age
  <2>2. now <= Began + MaxOpTicks /\ Began \in Nat
    BY <1>2, <1>4 DEF Facts, Early, RotatingPCs
  <2>. QED
    BY <1>3, <2>1, <2>2
<1>5. CASE ~ Early
  <2>1. Handled < store.created + RotationDuration /\ Timing
    BY <1>1, <1>2, <1>5 DEF DailyInv, Age
  <2>2. now <= Handled + CheckInterval /\ Handled \in Int
    BY <1>2, <2>1, HandledFacts DEF Facts
  <2>. QED
    BY <1>3, <2>1, <2>2
<1>. QED
  BY <1>4, <1>5

\* And the stored active key is replaced at the first timer tick that finds its rotation
\* due: its age stays below the rotation period, a timer period and the length of one
\* rotation, unless the bound on the keys of a behaviour is reached.
THEOREM KeysRotated ==
    ASSUME OrderlySchedule
    PROVE  TokenSpec => []KeyAgeBounded
<1>1. TokenInit => TokenInv
  BY InitToken
<1>2. TokenInv /\ [TokenNext]_tokenVars => TokenInv'
  BY NextToken
<1>3. TokenInv => KeyAgeBounded
  BY AgeFollows DEF TokenInv
<1>. QED
  BY <1>1, <1>2, <1>3, PTL DEF TokenSpec
=============================================================================
