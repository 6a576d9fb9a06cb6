----------------------------- MODULE JwtTokens -----------------------------
(***************************************************************************)
(* The session tokens signed and validated with the keys of JwtKeys.  Any  *)
(* replica signs a token, at login or when the sliding refresh renews one, *)
(* with the active key of its cached state; any replica may be asked to    *)
(* validate it, with the keys of its own cached state or, when that has no *)
(* key for the token's kid, with what a forced refresh loads.  A replica   *)
(* forces one refresh in ForcedRefreshInterval, whoever asks for it: until *)
(* that is over, a kid its cache does not know is refused.  Of the tokens  *)
(* signed with one key only the youngest matters.                          *)
(***************************************************************************)
EXTENDS JwtKeys

VARIABLES
    signedAt,       \* history: when each key last signed a token, or None
    limited         \* the last forced refresh may be younger than ForcedRefreshInterval

tokenVars == <<vars, signedAt, limited>>

\* GetActiveKeyAsync followed by GetAuthToken, with the state in the cache.
Issue(r) ==
    /\ cache[r] # None
    /\ signedAt' = [signedAt EXCEPT ![cache[r].active.key] = now]
    /\ UNCHANGED <<vars, limited>>

\* ShouldForceRefresh says yes to a request with a well-formed kid that the cached state
\* does not know (there always is one).  The refresh it forces is one of JwtKeys.
ForceRefresh(r) ==
    /\ ~ limited[r]
    /\ limited' = [limited EXCEPT ![r] = TRUE]
    /\ UNCHANGED <<vars, signedAt>>

\* ForcedRefreshInterval is over, or the replica has started again: 30 s are far below
\* one tick, so at any instant.
LimitOver(r) ==
    /\ limited[r]
    /\ limited' = [limited EXCEPT ![r] = FALSE]
    /\ UNCHANGED <<vars, signedAt>>

TokenInit == Init /\ signedAt = [k \in Keys |-> None] /\ limited = [r \in Replicas |-> FALSE]

TokenNext ==
    \/ Next /\ UNCHANGED <<signedAt, limited>>
    \/ \E r \in Replicas : Issue(r) \/ ForceRefresh(r) \/ LimitOver(r)

TokenSpec == TokenInit /\ [][TokenNext]_tokenVars

-----------------------------------------------------------------------------
\* GetValidationKeysAsync: a token signed with key k, under the kid k was generated with,
\* is accepted by replica r; a kid its cache does not know is looked up afresh, unless a
\* refresh has just been forced.
Validates(r, k) ==
    LET cached == ResolveKey(cache[r], kidOf[k]) IN
    IF cached # None THEN cached = k
    ELSE /\ ~ limited[r]
         /\ store.active # None /\ ResolveKey(Loaded(store), kidOf[k]) = k

\* The limit keeps replica r from looking key k up, and what it has cached, if anything,
\* may have been read before k last signed.
Behind(r, k) ==
    /\ limited[r]
    /\ ResolveKey(cache[r], kidOf[k]) = None
    /\ cache[r] # None => cache[r].until <= signedAt[k] + CacheTtl + MaxOpTicks

AcceptedFor(d) ==
    \A k \in Keys : signedAt[k] # None /\ now < signedAt[k] + d =>
        \A r \in Replicas : Validates(r, k) \/ Behind(r, k)

-----------------------------------------------------------------------------
(* Properties.                                                             *)

TokenTypeOK ==
    TypeOK /\ signedAt \in [Keys -> Times] /\ limited \in [Replicas -> BOOLEAN]

\* For the overlap window less the time a replica may go on signing with a replaced key (a
\* cache life and the length of a refresh) and the length of a rotation, no replica takes a
\* token for forged: it has the key, or loads it, through every rotation.  The one way to
\* refuse the token is the limit on forced refreshes, and only with a state that was
\* dropped from the cache or may have been read before the token was signed.
TokenGuarantee == AcceptedFor(OverlapWindow - CacheTtl - 2 * MaxOpTicks)

\* With SAP answering, the stored active key is never older than the rotation period
\* (or the overlap window that postpones it), one period of the service's timer and the
\* length of a rotation.
KeyAgeBounded ==
    store.created # None /\ minted < MaxMinted =>
        \/ now < store.created + RotationDuration + CheckInterval + MaxOpTicks
        \/ now < store.created + OverlapWindow + CheckInterval + MaxOpTicks
=============================================================================
