------------------------------ MODULE JwtKeys ------------------------------
(***************************************************************************)
(* The JWT signing-key protocol of the ePay3 web host.  Every replica of   *)
(* the host runs a JwtKeyManager: an in-memory cache of the key state, a   *)
(* refresh that loads it from the SAP AppValues store (one at a time, under *)
(* _refreshLock) and a background service that rotates the keys.  The      *)
(* replicas share nothing but the store, which has no transactions: each   *)
(* AppValue is read with the whole list and written on its own, so every   *)
(* write below is a step that the steps of the other threads and replicas  *)
(* interleave with.                                                        *)
(*                                                                         *)
(* Time is counted in ticks.  ForcedRefreshInterval (30 s) is below one    *)
(* tick, so a refresh may begin at any instant; JwtTokens models what the   *)
(* interval refuses.  All replicas hold one KEK: every stored cipher decrypts.      *)
(***************************************************************************)
EXTENDS Integers

CONSTANTS
    Replicas,          \* the running copies of the host
    Rotators,          \* those with KEY_ROTATION_DURATION set
    CacheTtl,          \* ticks a cached key state lives
    OverlapWindow,     \* ticks a replaced key stays valid
    Skew,              \* ticks of ClockSkewBuffer
    RotationDuration,  \* ticks after which a key is due for rotation
    CheckInterval,     \* period of the rotation service's timer
    MaxOpTicks,        \* longest refresh or rotation, in ticks (SAP timeouts)
    Faults,            \* what SAP may do wrong, see FaultKinds
    LegacyStore,       \* the store still holds a pre-combined-format record
    MaxNow,            \* bound: last instant of a behaviour
    MaxMinted,         \* bound: random keys generated in a behaviour
    MaxFaults,         \* bound: faults in a behaviour
    None               \* an absent value

(* throw:  a call fails with an exception; a write may have been applied   *)
(* empty:  SAP answers a read with a JSON error body, taken as no values   *)
(* silent: SAP refuses a write with a JSON error body, which is ignored    *)
(* crash:  a replica stops and starts again                                *)
FaultKinds == {"throw", "empty", "silent", "crash"}

ASSUME ReplicaAssumption == Rotators \subseteq Replicas
ASSUME TimeAssumption ==
    /\ CacheTtl \in Nat \ {0} /\ OverlapWindow \in Nat \ {0} /\ Skew \in Nat
    /\ RotationDuration \in Nat /\ CheckInterval \in Nat \ {0}
    /\ MaxOpTicks \in Nat /\ MaxNow \in Nat
ASSUME BoundAssumption == MaxMinted \in Nat /\ MaxFaults \in Nat
ASSUME FaultAssumption == Faults \subseteq FaultKinds /\ LegacyStore \in BOOLEAN

(* An orderly deployment: SAP answers, KEY_ROTATION_DURATION is set for one  *)
(* replica only, the overlap window outlives a cached state (65 minutes     *)
(* against 30 and two operations, of some ten minutes at worst), and a       *)
(* rotation period has room for an overlap window, a cached state, two      *)
(* operations and a period of the timer, one after the other (24 hours      *)
(* against some three).  The code enforces none of it.                      *)
OrderlySchedule ==
    /\ Faults = {} /\ ~ LegacyStore
    /\ \E r \in Replicas : Rotators = {r}
    /\ CacheTtl + 2 * MaxOpTicks <= OverlapWindow
    /\ OverlapWindow + Skew + CacheTtl + 2 * MaxOpTicks + CheckInterval <= RotationDuration

VARIABLES
    now,        \* the clock
    store,      \* the JWT_KEY_* values in SAP
    cache,      \* each replica's cached JwtKeyState, or None
    pc,         \* where each replica's refresh and rotation threads are
    view,       \* the values a refresh has read and will publish
    job,        \* the key a rotation replaces and the one it installs
    started,    \* when each thread began its current operation
    checked,    \* rotation service: this timer tick has been handled
    minted,     \* random keys generated so far
    kidOf,      \* history: the kid each key was generated under
    retiredAt,  \* history: when each key last stopped being the stored active key
    faults      \* faults so far

vars == <<now, store, cache, pc, view, job, started, checked, minted, kidOf, retiredAt,
          faults>>

Threads == {"refresh", "rotate"}

(* Key 0 is derived from the KEK, the others are random.  In a combined    *)
(* field the kid is beside the cipher; a legacy field has no kid.          *)
Keys == 0 .. MaxMinted
Kids == Nat \ {0}
Pair == [kid : Kids, key : Keys]
Raw  == [kid : Kids \cup {None}, key : Keys]

Times == Nat \cup {None}
Values == [active : Raw \cup {None}, activeKid : Kids \cup {None}, created : Times,
           previous : Pair \cup {None}, expiry : Times]
KeyState == [active : Pair, previous : Pair \cup {None}, expiry : Times,
             created : Times, until : Nat]

ASSUME NoneAssumption == None \notin Nat /\ None \notin Raw /\ None \notin Values

NoValues == [active |-> None, activeKid |-> None, created |-> None,
             previous |-> None, expiry |-> None]
BootstrapKey == [kid |-> 1, key |-> 0]
NoJob == [old |-> BootstrapKey, new |-> BootstrapKey]
LegacyValues == [NoValues EXCEPT !.active = [kid |-> None, key |-> 0],
                                 !.activeKid = 1, !.created = 0]

PCs == {"idle", "bootActive", "bootKid", "bootCreated", "bootPrevious", "bootExpiry",
        "reread", "cleanPrevious", "cleanExpiry", "publish",
        "putPrevious", "putExpiry", "putKid", "putCreated", "putActive", "forget"}

-----------------------------------------------------------------------------
(* Helpers of JwtKeyManager.                                               *)

\* Mutant: the separate kid field wins over the one in the combined field.
ParseSeparateKid(v) ==
    [kid |-> IF v.activeKid # None THEN v.activeKid
             ELSE IF v.active.kid # None THEN v.active.kid ELSE 1,
     key |-> v.active.key]

\* ParseKidCipher: the kid inside the field, else the separate field, else v1.
ParseKidCipher(v) ==
    [kid |-> IF v.active.kid # None THEN v.active.kid
             ELSE IF v.activeKid # None THEN v.activeKid ELSE 1,
     key |-> v.active.key]

\* Mutant: the expiry is not compared with the clock.
PreviousExpiredAtOnce(v) == v.previous # None /\ v.expiry # None

\* The window of the previous key, with the skew allowed for, is over; or still open.
PreviousExpired(v) == v.previous # None /\ v.expiry # None /\ v.expiry + Skew <= now
PreviousLive(v)    == v.previous # None /\ v.expiry # None /\ v.expiry + Skew > now

\* The rotation guard: the overlap window of the previous key is still open.
OverlapOpen(v) == v.expiry # None /\ v.expiry > now

\* The state a refresh will cache, as far as it is settled by what it read.
Loaded(v) ==
    [NoValues EXCEPT !.active = ParseKidCipher(v), !.created = v.created, !.expiry = v.expiry,
                     !.previous = IF PreviousLive(v) THEN v.previous ELSE None]

\* Mutant: only the active key is ever offered.
ResolveActiveOnly(s, kid) ==
    IF s = None THEN None ELSE IF kid = s.active.kid THEN s.active.key ELSE None

\* ResolveKey: the key a cached state offers for a kid, or None.
ResolveKey(s, kid) ==
    IF s = None THEN None
    ELSE IF kid = s.active.kid THEN s.active.key
    ELSE IF PreviousLive(s) /\ kid = s.previous.kid THEN s.previous.key
    ELSE None

\* Mutant: the age is taken from when the state was cached, not from ActiveCreated.
RotationDueSinceCached(r) ==
    /\ cache[r] # None
    /\ cache[r].created # None
    /\ now - (cache[r].until - CacheTtl) >= RotationDuration

\* IsRotationDueAsync, on the cached state.
RotationDue(r) ==
    /\ cache[r] # None
    /\ cache[r].created # None
    /\ now - cache[r].created >= RotationDuration

-----------------------------------------------------------------------------
(* One SAP call.                                                           *)

Idle(r, t) == pc[r][t] = "idle"
Goto(r, t, p) == pc' = [pc EXCEPT ![r][t] = p]
Begin(r, t, p) == Goto(r, t, p) /\ started' = [started EXCEPT ![r][t] = now]

\* The operation is over, normally or by an exception, and its locals are gone.
Finish(r, t) ==
    /\ Goto(r, t, "idle")
    /\ started' = [started EXCEPT ![r][t] = 0]
    /\ view' = IF t = "refresh" THEN [view EXCEPT ![r] = NoValues] ELSE view
    /\ job' = IF t = "rotate" THEN [job EXCEPT ![r] = NoJob] ELSE job

\* One more fault of the given kind.
Fault(kind) == kind \in Faults /\ faults < MaxFaults /\ faults' = faults + 1

\* GetValues(refresh: true) returns v.
Receive(v) ==
    \/ v = store /\ UNCHANGED faults
    \/ v = NoValues /\ Fault("empty")

Applied(s) ==
    /\ store' = s
    /\ retiredAt' = IF store.active # None /\ store.active.key # s.active.key
                    THEN [retiredAt EXCEPT ![store.active.key] = now]
                    ELSE retiredAt

\* UpdateAppValue: thread t of r, at step p, turns the store into s and goes on
\* to step q.  An exception ends the whole operation.
Write(r, t, p, s, q) ==
    /\ pc[r][t] = p
    /\ \/ Applied(s) /\ Goto(r, t, q) /\ UNCHANGED <<started, view, job, faults>>
       \/ /\ Fault("silent") /\ Goto(r, t, q)
          /\ UNCHANGED <<store, retiredAt, started, view, job>>
       \/ Fault("throw") /\ Applied(s) /\ Finish(r, t)
       \/ Fault("throw") /\ UNCHANGED <<store, retiredAt>> /\ Finish(r, t)
    /\ UNCHANGED <<now, cache, checked, minted, kidOf>>

-----------------------------------------------------------------------------
(* BootstrapAsync, run by a refresh or a rotation that reads no active key. *)

\* Mutant: the first key is random, so that two replicas may bootstrap different ones.
BootstrapRandom(r, t) ==
    \/ \E k \in Keys :
          Write(r, t, "bootActive", [store EXCEPT !.active = [kid |-> 1, key |-> k]], "bootKid")
    \/ Write(r, t, "bootKid", [store EXCEPT !.activeKid = 1], "bootCreated")
    \/ Write(r, t, "bootCreated", [store EXCEPT !.created = now], "bootPrevious")
    \/ Write(r, t, "bootPrevious", [store EXCEPT !.previous = None], "bootExpiry")
    \/ Write(r, t, "bootExpiry", [store EXCEPT !.expiry = None],
             IF t = "refresh" THEN "reread" ELSE "forget")

\* The first key is derived from the KEK: every replica bootstraps the same one.
Bootstrap(r, t) ==
    \/ Write(r, t, "bootActive", [store EXCEPT !.active = BootstrapKey], "bootKid")
    \/ Write(r, t, "bootKid", [store EXCEPT !.activeKid = 1], "bootCreated")
    \/ Write(r, t, "bootCreated", [store EXCEPT !.created = now], "bootPrevious")
    \/ Write(r, t, "bootPrevious", [store EXCEPT !.previous = None], "bootExpiry")
    \/ Write(r, t, "bootExpiry", [store EXCEPT !.expiry = None],
             IF t = "refresh" THEN "reread" ELSE "forget")

-----------------------------------------------------------------------------
(* RefreshFromSapAsync.  It holds _refreshLock from its first read to its  *)
(* end: a replica has one refresh at a time.                               *)

\* What a refresh does with the values it read.
Proceed(r, v) ==
    /\ view' = [view EXCEPT ![r] = Loaded(v)]
    /\ Goto(r, "refresh", IF PreviousExpired(v) THEN "cleanPrevious" ELSE "publish")

RefreshRead(r) ==
    /\ Idle(r, "refresh")
    /\ started' = [started EXCEPT ![r]["refresh"] = now]
    /\ \E v \in {store, NoValues} :
         /\ Receive(v)
         /\ \/ v.active = None /\ Goto(r, "refresh", "bootActive") /\ UNCHANGED view
            \/ v.active # None /\ Proceed(r, v)
    /\ UNCHANGED <<now, store, cache, job, checked, minted, kidOf, retiredAt>>

\* The read after a bootstrap; no active key even now fails in ParseKidCipher.
RefreshReread(r) ==
    /\ pc[r]["refresh"] = "reread"
    /\ \/ \E v \in {store, NoValues} :
            /\ Receive(v)
            /\ \/ v.active = None /\ Finish(r, "refresh")
               \/ v.active # None /\ Proceed(r, v) /\ UNCHANGED <<started, job>>
       \/ Fault("throw") /\ Finish(r, "refresh")
    /\ UNCHANGED <<now, store, cache, checked, minted, kidOf, retiredAt>>

\* The lazy clean-up of an expired previous key.
CleanUp(r) ==
    \/ Write(r, "refresh", "cleanPrevious", [store EXCEPT !.previous = None], "cleanExpiry")
    \/ Write(r, "refresh", "cleanExpiry", [store EXCEPT !.expiry = None], "publish")

\* Mutant: the state is cached for the overlap window instead of CacheTtl.
RefreshPublishTooLong(r) ==
    /\ pc[r]["refresh"] = "publish"
    /\ cache' = [cache EXCEPT ![r] =
                   [active |-> view[r].active, previous |-> view[r].previous,
                    expiry |-> view[r].expiry, created |-> view[r].created,
                    until |-> now + OverlapWindow + CacheTtl]]
    /\ Finish(r, "refresh")
    /\ UNCHANGED <<now, store, checked, minted, kidOf, retiredAt, faults>>

RefreshPublish(r) ==
    /\ pc[r]["refresh"] = "publish"
    /\ cache' = [cache EXCEPT ![r] =
                   [active |-> view[r].active, previous |-> view[r].previous,
                    expiry |-> view[r].expiry, created |-> view[r].created,
                    until |-> now + CacheTtl]]
    /\ Finish(r, "refresh")
    /\ UNCHANGED <<now, store, checked, minted, kidOf, retiredAt, faults>>

-----------------------------------------------------------------------------
(* JwtKeyRotationService and RotateKeysAsync.  Rotation takes no lock.     *)

\* A timer tick that finds no rotation due, or whose refresh threw.
RotationNotDue(r) ==
    /\ r \in Rotators /\ Idle(r, "rotate") /\ ~ checked[r]
    /\ \/ cache[r] # None /\ ~ RotationDue(r) /\ UNCHANGED faults
       \/ cache[r] = None /\ Fault("throw")
    /\ checked' = [checked EXCEPT ![r] = TRUE]
    /\ UNCHANGED <<now, store, cache, pc, view, job, started, minted, kidOf, retiredAt>>

\* Mutant: the kid is decremented.
MintDown(r, old) ==
    LET new == [kid |-> old.kid - 1, key |-> minted + 1] IN
    /\ job' = [job EXCEPT ![r] = [old |-> old, new |-> new]]
    /\ minted' = minted + 1
    /\ kidOf' = [kidOf EXCEPT ![minted + 1] = old.kid - 1]

\* A key pair replaces the parsed active one: its kid incremented, its bytes random.
Mint(r, old) ==
    LET new == [kid |-> old.kid + 1, key |-> minted + 1] IN
    /\ job' = [job EXCEPT ![r] = [old |-> old, new |-> new]]
    /\ minted' = minted + 1
    /\ kidOf' = [kidOf EXCEPT ![minted + 1] = old.kid + 1]

RotateRead(r) ==
    /\ r \in Rotators /\ Idle(r, "rotate") /\ ~ checked[r] /\ RotationDue(r)
    /\ minted < MaxMinted
    /\ checked' = [checked EXCEPT ![r] = TRUE]
    /\ \/ \E v \in {store, NoValues} :
            /\ Receive(v)
            /\ \/ OverlapOpen(v) /\ UNCHANGED <<pc, started, job, minted, kidOf>>
               \/ /\ ~ OverlapOpen(v) /\ v.active = None
                  /\ Begin(r, "rotate", "bootActive")
                  /\ UNCHANGED <<job, minted, kidOf>>
               \/ /\ ~ OverlapOpen(v) /\ v.active # None
                  /\ Begin(r, "rotate", "putPrevious")
                  /\ Mint(r, ParseKidCipher(v))
       \/ Fault("throw") /\ UNCHANGED <<pc, started, job, minted, kidOf>>
    /\ UNCHANGED <<now, store, cache, view, retiredAt>>

\* Mutant: the expiry is written before the previous key.
RotateWriteExpiryFirst(r) ==
    \/ Write(r, "rotate", "putPrevious", [store EXCEPT !.expiry = now + OverlapWindow], "putExpiry")
    \/ Write(r, "rotate", "putExpiry", [store EXCEPT !.previous = job[r].old], "putKid")
    \/ Write(r, "rotate", "putKid", [store EXCEPT !.activeKid = job[r].new.kid], "putCreated")
    \/ Write(r, "rotate", "putCreated", [store EXCEPT !.created = now], "putActive")
    \/ Write(r, "rotate", "putActive", [store EXCEPT !.active = job[r].new], "forget")

\* Mutant: the new active key is written before the previous records.
RotateWriteActiveFirst(r) ==
    \/ Write(r, "rotate", "putPrevious", [store EXCEPT !.active = job[r].new], "putExpiry")
    \/ Write(r, "rotate", "putExpiry", [store EXCEPT !.previous = job[r].old], "putKid")
    \/ Write(r, "rotate", "putKid", [store EXCEPT !.activeKid = job[r].new.kid], "putCreated")
    \/ Write(r, "rotate", "putCreated", [store EXCEPT !.created = now], "putActive")
    \/ Write(r, "rotate", "putActive", [store EXCEPT !.expiry = now + OverlapWindow], "forget")

\* The writes of a rotation in the code's order, the new active key last.
RotateWrite(r) ==
    \/ Write(r, "rotate", "putPrevious", [store EXCEPT !.previous = job[r].old], "putExpiry")
    \/ Write(r, "rotate", "putExpiry", [store EXCEPT !.expiry = now + OverlapWindow], "putKid")
    \/ Write(r, "rotate", "putKid", [store EXCEPT !.activeKid = job[r].new.kid], "putCreated")
    \/ Write(r, "rotate", "putCreated", [store EXCEPT !.created = now], "putActive")
    \/ Write(r, "rotate", "putActive", [store EXCEPT !.active = job[r].new], "forget")

\* _cache.Remove, so that this replica reloads the keys.
RotateForget(r) ==
    /\ pc[r]["rotate"] = "forget"
    /\ cache' = [cache EXCEPT ![r] = None]
    /\ Finish(r, "rotate")
    /\ UNCHANGED <<now, store, checked, minted, kidOf, retiredAt, faults>>

-----------------------------------------------------------------------------
(* The environment.                                                        *)

\* A replica stops wherever it is and starts again with nothing in memory.
Crash(r) ==
    /\ Fault("crash")
    /\ cache' = [cache EXCEPT ![r] = None]
    /\ view' = [view EXCEPT ![r] = NoValues]
    /\ job' = [job EXCEPT ![r] = NoJob]
    /\ pc' = [pc EXCEPT ![r] = [t \in Threads |-> "idle"]]
    /\ started' = [started EXCEPT ![r] = [t \in Threads |-> 0]]
    /\ UNCHANGED <<now, store, checked, minted, kidOf, retiredAt>>

TimerDue == now % CheckInterval = 0

\* Time passes: no operation outlasts its timeouts, no timer tick is skipped,
\* and the memory cache drops what has reached its absolute expiration.
Tick ==
    /\ now < MaxNow
    /\ \A r \in Replicas, t \in Threads : Idle(r, t) \/ now - started[r][t] < MaxOpTicks
    /\ TimerDue => \A r \in Rotators : checked[r] \/ ~ Idle(r, "rotate") \/ minted = MaxMinted
    /\ now' = now + 1
    /\ cache' = [r \in Replicas |->
                   IF cache[r] # None /\ cache[r].until <= now + 1 THEN None ELSE cache[r]]
    /\ checked' = [r \in Replicas |-> (now + 1) % CheckInterval # 0]
    /\ UNCHANGED <<store, pc, view, job, started, minted, kidOf, retiredAt, faults>>

Init ==
    /\ now = 0
    /\ store = IF LegacyStore THEN LegacyValues ELSE NoValues
    /\ cache = [r \in Replicas |-> None]
    /\ pc = [r \in Replicas |-> [t \in Threads |-> "idle"]]
    /\ view = [r \in Replicas |-> NoValues]
    /\ job = [r \in Replicas |-> NoJob]
    /\ started = [r \in Replicas |-> [t \in Threads |-> 0]]
    /\ checked = [r \in Replicas |-> TRUE]
    /\ minted = 0
    /\ kidOf = [k \in Keys |-> 1]
    /\ retiredAt = [k \in Keys |-> 0]
    /\ faults = 0

Refresh(r) == RefreshRead(r) \/ RefreshReread(r) \/ CleanUp(r) \/ RefreshPublish(r)
Rotate(r)  == RotationNotDue(r) \/ RotateRead(r) \/ RotateWrite(r) \/ RotateForget(r)

Next ==
    \/ \E r \in Replicas : Refresh(r) \/ Rotate(r) \/ Crash(r)
    \/ \E r \in Replicas, t \in Threads : Bootstrap(r, t)
    \/ Tick

Spec == Init /\ [][Next]_vars

-----------------------------------------------------------------------------
(* Properties.                                                             *)

\* Every variable holds a value of the kind the code gives it.
TypeOK ==
    /\ now \in Nat
    /\ store \in Values
    /\ cache \in [Replicas -> KeyState \cup {None}]
    /\ pc \in [Replicas -> [Threads -> PCs]]
    /\ view \in [Replicas -> Values]
    /\ job \in [Replicas -> [old : Pair, new : Pair]]
    /\ started \in [Replicas -> [Threads -> Nat]]
    /\ checked \in [Replicas -> BOOLEAN]
    /\ minted \in Keys
    /\ kidOf \in [Keys -> Kids]
    /\ retiredAt \in [Keys -> Nat]
    /\ faults \in 0 .. MaxFaults

Named(p) == p.kid = kidOf[p.key]

\* A cached state pairs every kid with the key generated under that kid, whatever
\* writes were under way when it was read: the purpose of the combined
\* "{kid}:{cipher}" field (JwtKeyManager.cs:126-139, 298-313).
KidsMatchKeys ==
    \A r \in Replicas : cache[r] # None =>
        /\ Named(cache[r].active)
        /\ cache[r].previous # None => Named(cache[r].previous)

\* A replica stops signing with a key that has been replaced in the store before the
\* cache TTL and the length of one refresh are over (the 30-minute CacheTtl).
RetiredKeyStopsSigning ==
    \A r \in Replicas :
        cache[r] # None /\ store.active # None /\ cache[r].active.key # store.active.key =>
            now < retiredAt[cache[r].active.key] + CacheTtl + MaxOpTicks

\* The keys replica r accepts a signature of.
AcceptedKeys(r) ==
    IF cache[r] = None THEN {}
    ELSE {cache[r].active.key} \cup
         {ResolveKey(cache[r], kid) : kid \in IF PreviousLive(cache[r])
                                               THEN {cache[r].previous.kid} ELSE {}}

\* A key that is no longer the stored active one is accepted nowhere once the overlap
\* window, counted from its replacement, and the length of two operations are over:
\* neither a crash between two writes nor two rotations at once revive an old key.
\* (Two: a rotation that began before the replacement may put the key back as the
\* previous one, and another one that is under way by then dates it.)
RetiredKeyStopsVerifying ==
    store.active # None =>
        \A r \in Replicas : \A k \in AcceptedKeys(r) \ {store.active.key} :
            now < retiredAt[k] + OverlapWindow + Skew + 2 * MaxOpTicks

\* A rotation replaces the active key only while the store holds that key as the
\* previous one with its overlap window open ("previous records first, new active
\* LAST (partial-write safety)", JwtKeyManager.cs:124).
ReplacedKeyKept ==
    [][\A r \in Replicas :
          RotateWrite(r) /\ store'.active # store.active =>
              store.previous = ParseKidCipher(store) /\ OverlapOpen(store)]_vars

\* The lazy clean-up removes a previous key only when its overlap window is over
\* ("Overlap window expired - clean up from the store", JwtKeyManager.cs:193).
CleanUpOnlyExpired ==
    [][\A r \in Replicas :
          CleanUp(r) /\ store.previous # None /\ store'.previous = None =>
              ~ OverlapOpen(store)]_vars

\* A bootstrap never overwrites an active key ("First run in this environment -
\* bootstrap", JwtKeyManager.cs:159).
BootstrapOnlyOnFirstRun ==
    [][\A r \in Replicas, t \in Threads :
          Bootstrap(r, t) /\ store'.active # store.active => store.active = None]_vars
=============================================================================
