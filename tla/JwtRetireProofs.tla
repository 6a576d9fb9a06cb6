--------------------------- MODULE JwtRetireProofs ---------------------------
(***************************************************************************)
(* Proofs that a replaced key stops signing and stops being accepted in    *)
(* time, for any replicas and rotators, any time constants and bounds.     *)
(* Every claim about an age has one form, Since: a key is the stored       *)
(* active one, or it was replaced no earlier than a given instant.         *)
(***************************************************************************)
EXTENDS JwtKeysProofs

LoadingPCs  == {"cleanPrevious", "cleanExpiry", "publish"}
RotatingPCs == {"putPrevious", "putExpiry", "putKid", "putCreated", "putActive"}

\* With s in the store and ra the times of replacement, key k is active or was at t.
Since(s, ra, k, t) == s.active # None /\ (k = s.active.key \/ t <= ra[k])

\* v offers its previous key for the overlap window and at most two operations more.
PreviousOk(s, ra, n, v) ==
    v.previous # None /\ v.expiry # None =>
        /\ v.expiry <= n + OverlapWindow
        /\ Since(s, ra, v.previous.key, v.expiry - OverlapWindow - 2 * MaxOpTicks)

\* No operation has outlasted its timeouts, and no key was replaced in the future.
ClockInv ==
    /\ \A k \in Keys : retiredAt[k] <= now
    /\ \A r \in Replicas, t \in Threads :
          pc[r][t] # "idle" => started[r][t] <= now /\ now <= started[r][t] + MaxOpTicks

\* The active key a refresh has loaded was active after the refresh began.
ViewSince ==
    \A r \in Replicas : pc[r]["refresh"] \in LoadingPCs =>
        Since(store, retiredAt, view[r].active.key, started[r]["refresh"])

\* The key a rotation replaces was active after the rotation began.
JobSince ==
    \A r \in Replicas : pc[r]["rotate"] \in RotatingPCs =>
        Since(store, retiredAt, job[r].old.key, started[r]["rotate"])

\* A cached active key was active at most one operation before it was cached.
CacheSince ==
    \A r \in Replicas : cache[r] # None =>
        /\ now < cache[r].until /\ cache[r].until <= now + CacheTtl
        /\ Since(store, retiredAt, cache[r].active.key, cache[r].until - CacheTtl - MaxOpTicks)

SinceInv == ClockInv /\ ViewSince /\ JobSince /\ CacheSince

\* The stored previous key is offered no longer than it may, and a rotation about to
\* date it began at most one operation after that key was replaced.
StorePrevious ==
    /\ PreviousOk(store, retiredAt, now, store)
    /\ store.expiry # None => store.expiry <= now + OverlapWindow
    /\ store.previous # None =>
          \A r \in Replicas : pc[r]["rotate"] = "putExpiry" =>
              Since(store, retiredAt, store.previous.key, started[r]["rotate"] - MaxOpTicks)

\* The same of what a refresh has loaded and of what a replica has cached.
ViewPrevious ==
    \A r \in Replicas : pc[r]["refresh"] \in LoadingPCs =>
        PreviousOk(store, retiredAt, now, view[r])
CachePrevious ==
    \A r \in Replicas : cache[r] # None => PreviousOk(store, retiredAt, now, cache[r])

PreviousInv == StorePrevious /\ ViewPrevious /\ CachePrevious

-----------------------------------------------------------------------------
(* What a step may do to the store, the threads and the caches.            *)

\* The store may get another active key; the one it had is replaced now.
Moves ==
    /\ store.active # None => store'.active # None
    /\ \A k \in Keys :
          /\ retiredAt[k] <= retiredAt'[k]
          /\ retiredAt'[k] = retiredAt[k] \/ retiredAt'[k] = now
          /\ store.active # None /\ k = store.active.key =>
                k = store'.active.key \/ retiredAt'[k] = now

\* A thread that is under way was so before, with the same locals.
ThreadsKept ==
    /\ \A r \in Replicas, t \in Threads :
          pc'[r][t] # "idle" => pc[r][t] # "idle" /\ started'[r][t] = started[r][t]
    /\ \A r \in Replicas :
          /\ pc'[r]["refresh"] \in LoadingPCs =>
                pc[r]["refresh"] \in LoadingPCs /\ view'[r] = view[r]
          /\ pc'[r]["rotate"] \in RotatingPCs =>
                pc[r]["rotate"] \in RotatingPCs /\ job'[r] = job[r]

CachesKept == \A r \in Replicas : cache'[r] \in {cache[r], None}

LEMMA ThreadFacts ==
    /\ "refresh" \in Threads /\ "rotate" \in Threads
    /\ LoadingPCs \subseteq PCs \ {"idle"} /\ RotatingPCs \subseteq PCs \ {"idle"}
    /\ MaxOpTicks \in Nat /\ CacheTtl \in Nat /\ OverlapWindow \in Nat /\ Skew \in Nat
    /\ CacheTtl > 0
BY TimeAssumption DEF Threads, LoadingPCs, RotatingPCs, PCs

\* One thread's entry is updated.
LEMMA UpdateOne ==
    ASSUME NEW S, NEW f \in [Replicas -> [Threads -> S]],
           NEW r \in Replicas, NEW t \in Threads, NEW x
    PROVE  /\ [f EXCEPT ![r][t] = x][r][t] = x
           /\ \A y \in Replicas, u \in Threads :
                 y # r \/ u # t => [f EXCEPT ![r][t] = x][y][u] = f[y][u]
OBVIOUS

LEMMA SinceKept ==
    ASSUME TypeOK, TypeOK', Moves, NEW k \in Keys, NEW t \in Int, t <= now,
           Since(store, retiredAt, k, t)
    PROVE  Since(store', retiredAt', k, t)
<1>1. retiredAt[k] \in Nat /\ retiredAt'[k] \in Nat /\ now \in Nat
  BY DEF TypeOK
<1>. QED
  BY <1>1 DEF Since, Moves

LEMMA SinceEarlier ==
    ASSUME NEW s, NEW ra \in [Keys -> Nat], NEW k \in Keys, NEW t \in Int, NEW u \in Int, u <= t,
           Since(s, ra, k, t)
    PROVE  Since(s, ra, k, u)
BY DEF Since

LEMMA PreviousKept ==
    ASSUME TypeOK, TypeOK', Moves, now <= now', NEW v,
           v.previous \in Pair \cup {None}, v.expiry \in Times,
           PreviousOk(store, retiredAt, now, v)
    PROVE  PreviousOk(store', retiredAt', now', v)
<1>. SUFFICES ASSUME v.previous # None, v.expiry # None
              PROVE  /\ v.expiry <= now' + OverlapWindow
                     /\ Since(store', retiredAt', v.previous.key,
                              v.expiry - OverlapWindow - 2 * MaxOpTicks)
  BY DEF PreviousOk
<1>1. v.previous.key \in Keys /\ v.expiry \in Nat /\ now \in Nat /\ now' \in Nat
  BY DEF Pair, Times, TypeOK
<1>2. /\ v.expiry <= now + OverlapWindow
      /\ Since(store, retiredAt, v.previous.key, v.expiry - OverlapWindow - 2 * MaxOpTicks)
  BY DEF PreviousOk
<1>3. v.expiry - OverlapWindow - 2 * MaxOpTicks \in Int
      /\ v.expiry - OverlapWindow - 2 * MaxOpTicks <= now
  BY <1>1, <1>2, ThreadFacts
<1>. QED
  BY <1>1, <1>2, <1>3, SinceKept, ThreadFacts

\* What is relevant of the types.
LEMMA KeyTypes ==
    ASSUME TypeInv, NEW r \in Replicas
    PROVE  /\ pc[r]["refresh"] \in LoadingPCs => view[r].active.key \in Keys
           /\ view[r].previous \in Pair \cup {None} /\ view[r].expiry \in Times
           /\ job[r].old.key \in Keys
           /\ cache[r] # None =>
                 /\ cache[r].active.key \in Keys /\ cache[r].until \in Nat
                 /\ cache[r].previous \in Pair \cup {None} /\ cache[r].expiry \in Times
           /\ started[r]["refresh"] \in Nat /\ started[r]["rotate"] \in Nat
           /\ now \in Nat
<1>1. view[r] \in Values /\ job[r] \in [old : Pair, new : Pair] /\ cache[r] \in KeyState \cup {None}
  BY DEF TypeInv, TypeOK
<1>2. view[r].previous \in Pair \cup {None} /\ view[r].expiry \in Times
  BY <1>1 DEF Values
<1>3. job[r].old.key \in Keys
  BY <1>1 DEF Pair
<1>4. pc[r]["refresh"] \in LoadingPCs => view[r].active.key \in Keys
  BY DEF TypeInv, ViewReady, LoadingPCs, Pair
<1>5. cache[r] # None =>
        /\ cache[r].active.key \in Keys /\ cache[r].until \in Nat
        /\ cache[r].previous \in Pair \cup {None} /\ cache[r].expiry \in Times
  BY <1>1 DEF KeyState, Pair
<1>6. started[r]["refresh"] \in Nat /\ started[r]["rotate"] \in Nat /\ now \in Nat
  BY ThreadFacts DEF TypeInv, TypeOK
<1>. QED
  BY <1>2, <1>3, <1>4, <1>5, <1>6

-----------------------------------------------------------------------------
(* Steps that load, date and cache nothing new.                            *)

LEMMA QuietThreads ==
    ASSUME TypeInv, TypeInv', SinceInv, Moves, ThreadsKept
    PROVE  ViewSince' /\ JobSince'
<1>. USE ThreadFacts DEF TypeInv, SinceInv
<1>1. ASSUME NEW r \in Replicas, pc'[r]["refresh"] \in LoadingPCs
      PROVE  Since(store', retiredAt', view'[r].active.key, started'[r]["refresh"])
  <2>1. /\ pc[r]["refresh"] \in LoadingPCs /\ pc[r]["refresh"] # "idle"
        /\ view'[r] = view[r] /\ started'[r]["refresh"] = started[r]["refresh"]
    BY <1>1 DEF ThreadsKept
  <2>2. /\ Since(store, retiredAt, view[r].active.key, started[r]["refresh"])
        /\ started[r]["refresh"] <= now
    BY <2>1 DEF ViewSince, ClockInv
  <2>. QED
    BY <2>1, <2>2, KeyTypes, SinceKept
<1>2. ASSUME NEW r \in Replicas, pc'[r]["rotate"] \in RotatingPCs
      PROVE  Since(store', retiredAt', job'[r].old.key, started'[r]["rotate"])
  <2>1. /\ pc[r]["rotate"] \in RotatingPCs /\ pc[r]["rotate"] # "idle"
        /\ job'[r] = job[r] /\ started'[r]["rotate"] = started[r]["rotate"]
    BY <1>2 DEF ThreadsKept
  <2>2. /\ Since(store, retiredAt, job[r].old.key, started[r]["rotate"])
        /\ started[r]["rotate"] <= now
    BY <2>1 DEF JobSince, ClockInv
  <2>. QED
    BY <2>1, <2>2, KeyTypes, SinceKept
<1>. QED
  BY <1>1, <1>2 DEF ViewSince, JobSince

LEMMA QuietCaches ==
    ASSUME TypeInv, TypeInv', SinceInv, Moves, CachesKept, now' = now
    PROVE  CacheSince'
<1>. USE ThreadFacts DEF TypeInv, SinceInv
<1>1. SUFFICES ASSUME NEW r \in Replicas, cache'[r] # None
               PROVE  /\ now' < cache'[r].until /\ cache'[r].until <= now' + CacheTtl
                      /\ Since(store', retiredAt', cache'[r].active.key,
                               cache'[r].until - CacheTtl - MaxOpTicks)
  BY DEF CacheSince
<1>2. cache'[r] = cache[r] /\ cache[r] # None
  BY <1>1 DEF CachesKept
<1>3. /\ now < cache[r].until /\ cache[r].until <= now + CacheTtl
      /\ Since(store, retiredAt, cache[r].active.key, cache[r].until - CacheTtl - MaxOpTicks)
  BY <1>2 DEF CacheSince
<1>4. /\ cache[r].active.key \in Keys /\ cache[r].until \in Nat /\ now \in Nat
  BY <1>2, KeyTypes
<1>5. /\ cache[r].until - CacheTtl - MaxOpTicks \in Int
      /\ cache[r].until - CacheTtl - MaxOpTicks <= now
  BY <1>3, <1>4
<1>. QED
  BY <1>2, <1>3, <1>4, <1>5, SinceKept

LEMMA QuietClock ==
    ASSUME TypeInv, TypeInv', SinceInv, Moves, ThreadsKept, now' = now
    PROVE  ClockInv'
<1>1. \A k \in Keys : retiredAt[k] <= now
  BY DEF SinceInv, ClockInv
<1>2. \A k \in Keys : retiredAt'[k] <= now'
  <2>1. now \in Nat
    BY DEF TypeInv, TypeOK
  <2>. QED
    BY <1>1, <2>1 DEF Moves
<1>3. ASSUME NEW r \in Replicas, NEW t \in Threads, pc'[r][t] # "idle"
      PROVE  started'[r][t] <= now' /\ now' <= started'[r][t] + MaxOpTicks
  BY <1>3 DEF SinceInv, ClockInv, ThreadsKept
<1>. QED
  BY <1>2, <1>3 DEF ClockInv

LEMMA QuietSince ==
    ASSUME TypeInv, TypeInv', SinceInv, Moves, ThreadsKept, CachesKept, now' = now
    PROVE  SinceInv'
BY QuietThreads, QuietCaches, QuietClock DEF SinceInv

LEMMA QuietLoaded ==
    ASSUME TypeInv, TypeInv', PreviousInv, Moves, ThreadsKept, CachesKept, now <= now'
    PROVE  ViewPrevious' /\ CachePrevious'
<1>. USE DEF TypeInv, PreviousInv
<1>1. ASSUME NEW r \in Replicas, pc'[r]["refresh"] \in LoadingPCs
      PROVE  PreviousOk(store', retiredAt', now', view'[r])
  <2>1. pc[r]["refresh"] \in LoadingPCs /\ view'[r] = view[r]
    BY <1>1 DEF ThreadsKept
  <2>2. PreviousOk(store, retiredAt, now, view[r])
    BY <2>1 DEF ViewPrevious
  <2>. QED
    BY <2>1, <2>2, KeyTypes, PreviousKept
<1>2. ASSUME NEW r \in Replicas, cache'[r] # None
      PROVE  PreviousOk(store', retiredAt', now', cache'[r])
  <2>1. cache'[r] = cache[r] /\ cache[r] # None
    BY <1>2 DEF CachesKept
  <2>2. PreviousOk(store, retiredAt, now, cache[r])
    BY <2>1 DEF CachePrevious
  <2>. QED
    BY <2>1, <2>2, KeyTypes, PreviousKept
<1>. QED
  BY <1>1, <1>2 DEF ViewPrevious, CachePrevious

\* The previous record stays as it is or loses a field, and no rotation comes to date it.
LEMMA QuietStore ==
    ASSUME TypeInv, TypeInv', SinceInv, PreviousInv, Moves, now <= now',
           store'.previous \in {store.previous, None}, store'.expiry \in {store.expiry, None},
           \A r \in Replicas : pc'[r]["rotate"] = "putExpiry" =>
               pc[r]["rotate"] = "putExpiry" /\ started'[r]["rotate"] = started[r]["rotate"]
    PROVE  StorePrevious'
<1>. USE ThreadFacts DEF TypeInv, SinceInv, PreviousInv
<1>1. /\ store.previous \in Pair \cup {None} /\ store.expiry \in Times
      /\ now \in Nat /\ now' \in Nat
  BY DEF TypeOK, Values
<1>2. PreviousOk(store', retiredAt', now', store')
  <2>1. PreviousOk(store', retiredAt', now', store)
    BY <1>1, PreviousKept DEF StorePrevious
  <2>. QED
    BY <2>1 DEF PreviousOk
<1>3. store'.expiry # None => store'.expiry <= now' + OverlapWindow
  BY <1>1 DEF StorePrevious, Times
<1>4. ASSUME store'.previous # None, NEW r \in Replicas, pc'[r]["rotate"] = "putExpiry"
      PROVE  Since(store', retiredAt', store'.previous.key, started'[r]["rotate"] - MaxOpTicks)
  <2>1. /\ store'.previous = store.previous /\ store.previous.key \in Keys
        /\ pc[r]["rotate"] = "putExpiry" /\ started'[r]["rotate"] = started[r]["rotate"]
    BY <1>1, <1>4 DEF Pair
  <2>2. /\ Since(store, retiredAt, store.previous.key, started[r]["rotate"] - MaxOpTicks)
        /\ started[r]["rotate"] <= now /\ started[r]["rotate"] \in Nat
    BY <1>4, <2>1, KeyTypes DEF StorePrevious, ClockInv
  <2>3. started[r]["rotate"] - MaxOpTicks \in Int /\ started[r]["rotate"] - MaxOpTicks <= now
    BY <1>1, <2>2
  <2>. QED
    BY <2>1, <2>2, <2>3, SinceKept
<1>. QED
  BY <1>2, <1>3, <1>4 DEF StorePrevious

LEMMA QuietPrevious ==
    ASSUME TypeInv, TypeInv', SinceInv, PreviousInv, Moves, ThreadsKept, CachesKept, now <= now',
           store'.previous \in {store.previous, None}, store'.expiry \in {store.expiry, None},
           \A r \in Replicas : pc'[r]["rotate"] = "putExpiry" => pc[r]["rotate"] = "putExpiry"
    PROVE  PreviousInv'
<1>1. \A r \in Replicas : pc'[r]["rotate"] = "putExpiry" =>
         pc[r]["rotate"] = "putExpiry" /\ started'[r]["rotate"] = started[r]["rotate"]
  BY ThreadFacts DEF ThreadsKept
<1>. QED
  BY <1>1, QuietLoaded, QuietStore DEF PreviousInv

-----------------------------------------------------------------------------
(* The writes.                                                             *)

\* What a write does, whichever of its outcomes it has.
LEMMA WriteFrame ==
    ASSUME TypeInv, ClockInv, NEW r \in Replicas, NEW t \in Threads, NEW p \in PCs \ {"idle"},
           NEW s \in Values, NEW q \in PCs, Write(r, t, p, s, q),
           s.active = store.active \/ s.active # None,
           q \in LoadingPCs => p \in LoadingPCs, q \in RotatingPCs => p \in RotatingPCs
    PROVE  /\ Moves /\ ThreadsKept /\ CachesKept /\ now' = now
           /\ store' \in {store, s}
           /\ "silent" \notin Faults /\ pc'[r][t] # "idle" => store' = s
           /\ pc'[r][t] \in {q, "idle"}
           /\ \A x \in Replicas, u \in Threads : x # r \/ u # t =>
                 pc'[x][u] = pc[x][u] /\ started'[x][u] = started[x][u]
<1>. USE ThreadFacts DEF TypeInv, TypeOK
<1>1. /\ pc[r][t] = p /\ now' = now /\ cache' = cache
      /\ \/ Applied(s)
         \/ UNCHANGED <<store, retiredAt>>
      /\ \/ Goto(r, t, q) /\ UNCHANGED <<started, view, job>>
         \/ Finish(r, t)
      /\ "silent" \notin Faults => Applied(s) \/ Finish(r, t)
  BY DEF Write, Fault
<1>2. Moves
  <2>1. CASE UNCHANGED <<store, retiredAt>>
    BY <2>1 DEF Moves
  <2>2. CASE Applied(s)
    <3>1. store' = s
      BY <2>2 DEF Applied
    <3>2. CASE store.active # None /\ store.active.key # s.active.key
      <4>1. retiredAt' = [retiredAt EXCEPT ![store.active.key] = now]
        BY <2>2, <3>2 DEF Applied
      <4>2. s.active # None
        BY <3>2
      <4>3. \A k \in Keys : retiredAt[k] \in Nat /\ retiredAt[k] <= now
        BY DEF ClockInv
      <4>. QED
        BY <3>1, <4>1, <4>2, <4>3 DEF Moves
    <3>3. CASE ~ (store.active # None /\ store.active.key # s.active.key)
      <4>1. retiredAt' = retiredAt
        BY <2>2, <3>3 DEF Applied
      <4>. QED
        BY <3>1, <3>3, <4>1 DEF Moves
    <3>. QED
      BY <3>2, <3>3
  <2>. QED
    BY <1>1, <2>1, <2>2
<1>3. /\ pc'[r][t] \in {q, "idle"}
      /\ pc'[r][t] # "idle" => started'[r][t] = started[r][t] /\ view' = view /\ job' = job
      /\ \A x \in Replicas, u \in Threads : <<x, u>> # <<r, t>> =>
            pc'[x][u] = pc[x][u] /\ started'[x][u] = started[x][u]
      /\ \A x \in Replicas : (<<x, "refresh">> # <<r, t>> => view'[x] = view[x])
                          /\ (<<x, "rotate">> # <<r, t>> => job'[x] = job[x])
  <2>1. CASE Goto(r, t, q) /\ UNCHANGED <<started, view, job>>
    BY <2>1, UpdateThread DEF Goto
  <2>2. CASE Finish(r, t)
    BY <2>2, UpdateThread DEF Finish, Goto
  <2>. QED
    BY <1>1, <2>1, <2>2
<1>4. ThreadsKept
  BY <1>1, <1>3 DEF ThreadsKept
<1>5. CachesKept /\ store' \in {store, s}
  BY <1>1 DEF CachesKept, Applied
<1>6. "silent" \notin Faults /\ pc'[r][t] # "idle" => store' = s
  <2>1. Finish(r, t) => pc'[r][t] = "idle"
    BY DEF Finish, Goto
  <2>. QED
    BY <1>1, <2>1 DEF Applied
<1>. QED
  BY <1>1, <1>2, <1>3, <1>4, <1>5, <1>6

LEMMA WriteSince ==
    ASSUME TypeInv, TypeInv', SinceInv,
           NEW r \in Replicas, NEW t \in Threads, NEW p \in PCs \ {"idle"},
           NEW s \in Values, NEW q \in PCs, Write(r, t, p, s, q),
           s.active = store.active \/ s.active # None,
           q \in LoadingPCs => p \in LoadingPCs, q \in RotatingPCs => p \in RotatingPCs
    PROVE  SinceInv'
BY WriteFrame, QuietSince DEF SinceInv

\* A write that leaves the previous record alone or clears a field of it.
LEMMA WritePrevious ==
    ASSUME TypeInv, TypeInv', SinceInv, PreviousInv,
           NEW r \in Replicas, NEW t \in Threads, NEW p \in PCs \ {"idle"},
           NEW s \in Values, NEW q \in PCs \ {"putExpiry"}, Write(r, t, p, s, q),
           s.active = store.active \/ s.active # None,
           q \in LoadingPCs => p \in LoadingPCs, q \in RotatingPCs => p \in RotatingPCs,
           s.previous \in {store.previous, None}, s.expiry \in {store.expiry, None}
    PROVE  PreviousInv'
<1>1. /\ Moves /\ ThreadsKept /\ CachesKept /\ now' = now
      /\ store' \in {store, s}
      /\ pc'[r][t] \in {q, "idle"}
      /\ \A x \in Replicas, u \in Threads : x # r \/ u # t => pc'[x][u] = pc[x][u]
  BY WriteFrame DEF SinceInv
<1>2. \A x \in Replicas : pc'[x]["rotate"] = "putExpiry" => pc[x]["rotate"] = "putExpiry"
  BY <1>1, ThreadFacts
<1>3. now <= now'
  BY <1>1 DEF TypeInv, TypeOK
<1>. QED
  BY <1>1, <1>2, <1>3, QuietPrevious

LEMMA StoreActives ==
    ASSUME TypeOK
    PROVE  /\ \A x : [store EXCEPT !.previous = x].active = store.active
           /\ \A x : [store EXCEPT !.expiry = x].active = store.active
           /\ \A x : [store EXCEPT !.activeKid = x].active = store.active
           /\ \A x : [store EXCEPT !.created = x].active = store.active
           /\ \A x : [store EXCEPT !.active = x].active = x
           /\ \A x : [store EXCEPT !.previous = x].previous = x
           /\ \A x : [store EXCEPT !.expiry = x].previous = store.previous
           /\ \A x : [store EXCEPT !.activeKid = x].previous = store.previous
           /\ \A x : [store EXCEPT !.created = x].previous = store.previous
           /\ \A x : [store EXCEPT !.active = x].previous = store.previous
           /\ \A x : [store EXCEPT !.previous = x].expiry = store.expiry
           /\ \A x : [store EXCEPT !.expiry = x].expiry = x
           /\ \A x : [store EXCEPT !.activeKid = x].expiry = store.expiry
           /\ \A x : [store EXCEPT !.created = x].expiry = store.expiry
           /\ \A x : [store EXCEPT !.active = x].expiry = store.expiry
BY DEF TypeOK, Values

LEMMA PairNotNone == None \notin Pair /\ BootstrapKey # None
<1>1. Pair \subseteq Raw
  BY DEF Pair, Raw
<1>. QED
  BY <1>1, NoneAssumption, ConstantTypes

LEMMA BootstrapRetire ==
    ASSUME TypeInv, TypeInv', SinceInv, NEW r \in Replicas, NEW t \in Threads, Bootstrap(r, t)
    PROVE  SinceInv' /\ (PreviousInv => PreviousInv')
<1>. USE StoreUpdates, StoreActives, ConstantTypes, PairNotNone
     DEF PCs, TypeInv, LoadingPCs, RotatingPCs
<1>1. CASE Write(r, t, "bootActive", [store EXCEPT !.active = BootstrapKey], "bootKid")
  BY <1>1, WriteSince, WritePrevious
<1>2. CASE Write(r, t, "bootKid", [store EXCEPT !.activeKid = 1], "bootCreated")
  <2>1. [store EXCEPT !.activeKid = 1] \in Values
    BY DEF Kids
  <2>. QED
    BY <1>2, <2>1, WriteSince, WritePrevious
<1>3. CASE Write(r, t, "bootCreated", [store EXCEPT !.created = now], "bootPrevious")
  BY <1>3, WriteSince, WritePrevious DEF Times, TypeOK
<1>4. CASE Write(r, t, "bootPrevious", [store EXCEPT !.previous = None], "bootExpiry")
  BY <1>4, WriteSince, WritePrevious
<1>5. CASE Write(r, t, "bootExpiry", [store EXCEPT !.expiry = None],
                 IF t = "refresh" THEN "reread" ELSE "forget")
  BY <1>5, WriteSince, WritePrevious DEF Times
<1>. QED
  BY <1>1, <1>2, <1>3, <1>4, <1>5 DEF Bootstrap

LEMMA CleanUpRetire ==
    ASSUME TypeInv, TypeInv', SinceInv, NEW r \in Replicas, CleanUp(r)
    PROVE  SinceInv' /\ (PreviousInv => PreviousInv')
<1>. USE StoreUpdates, StoreActives, ThreadFacts DEF PCs, TypeInv, LoadingPCs, RotatingPCs
<1>1. CASE Write(r, "refresh", "cleanPrevious", [store EXCEPT !.previous = None], "cleanExpiry")
  BY <1>1, WriteSince, WritePrevious
<1>2. CASE Write(r, "refresh", "cleanExpiry", [store EXCEPT !.expiry = None], "publish")
  BY <1>2, WriteSince, WritePrevious DEF Times
<1>. QED
  BY <1>1, <1>2 DEF CleanUp

LEMMA PutPreviousRetire ==
    ASSUME TypeInv, TypeInv', SinceInv, PreviousInv, "silent" \notin Faults, NEW r \in Replicas,
           Write(r, "rotate", "putPrevious", [store EXCEPT !.previous = job[r].old], "putExpiry")
    PROVE  PreviousInv'
<1>. USE ThreadFacts DEF TypeInv, SinceInv, PreviousInv
<1>0. job[r].old \in Pair /\ job[r].old.key \in Keys /\ now \in Nat
  BY DEF TypeOK, Pair
<1>1. /\ Moves /\ ThreadsKept /\ CachesKept /\ now' = now
      /\ store' \in {store, [store EXCEPT !.previous = job[r].old]}
      /\ pc'[r]["rotate"] # "idle" => store' = [store EXCEPT !.previous = job[r].old]
      /\ \A x \in Replicas : x # r =>
            pc'[x]["rotate"] = pc[x]["rotate"] /\ started'[x]["rotate"] = started[x]["rotate"]
  <2>1. [store EXCEPT !.previous = job[r].old] \in Values
    BY <1>0, StoreUpdates
  <2>2. /\ "putPrevious" \in PCs \ {"idle"} /\ "putExpiry" \in PCs
        /\ "putExpiry" \notin LoadingPCs /\ "putPrevious" \in RotatingPCs /\ "rotate" \in Threads
    BY ThreadFacts DEF PCs, RotatingPCs, LoadingPCs
  <2>. DEFINE s == [store EXCEPT !.previous = job[r].old]
  <2>3. s \in Values /\ s.active = store.active /\ Write(r, "rotate", "putPrevious", s, "putExpiry")
    BY <2>1, StoreActives
  <2>4. ClockInv
    OBVIOUS
  <2>. HIDE DEF s, SinceInv, PreviousInv, TypeInv
  <2>5. /\ Moves /\ ThreadsKept /\ CachesKept /\ now' = now
        /\ store' \in {store, s}
        /\ pc'[r]["rotate"] # "idle" => store' = s
        /\ \A x \in Replicas, u \in Threads : x # r \/ u # "rotate" =>
              pc'[x][u] = pc[x][u] /\ started'[x][u] = started[x][u]
    BY <2>2, <2>3, <2>4, WriteFrame
  <2>. QED
    BY <2>2, <2>5 DEF s
<1>2. now <= now'
  BY <1>0, <1>1
<1>3. ViewPrevious' /\ CachePrevious'
  BY <1>1, <1>2, QuietLoaded
<1>4. CASE store' = store /\ pc'[r]["rotate"] = "idle"
  BY <1>1, <1>2, <1>3, <1>4, QuietStore
<1>5. CASE store' = [store EXCEPT !.previous = job[r].old]
  <2>1. /\ store'.previous = job[r].old /\ store'.expiry = store.expiry
        /\ store.expiry # None => store.expiry \in Nat /\ store.expiry <= now + OverlapWindow
    BY <1>5, StoreActives DEF StorePrevious, TypeOK, Values, Times
  <2>2. /\ Since(store, retiredAt, job[r].old.key, started[r]["rotate"])
        /\ now <= started[r]["rotate"] + MaxOpTicks /\ started[r]["rotate"] \in Nat
    <3>1. pc[r]["rotate"] = "putPrevious"
      BY DEF Write
    <3>. QED
      BY <3>1, KeyTypes DEF JobSince, ClockInv, RotatingPCs
  <2>3. now - MaxOpTicks \in Int /\ now - MaxOpTicks <= started[r]["rotate"] /\ now - MaxOpTicks <= now
    BY <1>0, <2>2
  <2>4. Since(store', retiredAt', job[r].old.key, now - MaxOpTicks)
    BY <1>0, <1>1, <2>2, <2>3, SinceEarlier, SinceKept DEF TypeOK
  <2>5. PreviousOk(store', retiredAt', now', store')
    <3>1. SUFFICES ASSUME store'.expiry # None
                   PROVE  /\ store'.expiry <= now' + OverlapWindow
                          /\ Since(store', retiredAt', job[r].old.key,
                                   store'.expiry - OverlapWindow - 2 * MaxOpTicks)
      BY <2>1 DEF PreviousOk
    <3>2. /\ store'.expiry \in Nat /\ store'.expiry <= now + OverlapWindow
          /\ store'.expiry - OverlapWindow - 2 * MaxOpTicks \in Int
          /\ store'.expiry - OverlapWindow - 2 * MaxOpTicks <= now - MaxOpTicks
      BY <1>0, <2>1, <3>1
    <3>3. retiredAt' \in [Keys -> Nat]
      BY DEF TypeOK
    <3>. QED
      BY <1>0, <1>1, <2>3, <2>4, <3>2, <3>3, SinceEarlier
  <2>6. ASSUME NEW x \in Replicas, pc'[x]["rotate"] = "putExpiry"
        PROVE  Since(store', retiredAt', job[r].old.key, started'[x]["rotate"] - MaxOpTicks)
    <3>1. started'[x]["rotate"] \in Nat /\ started'[x]["rotate"] <= now
      <4>1. pc[x]["rotate"] # "idle" /\ started'[x]["rotate"] = started[x]["rotate"]
        BY <1>1, <2>6 DEF ThreadsKept
      <4>. QED
        BY <4>1, KeyTypes DEF ClockInv
    <3>2. started'[x]["rotate"] - MaxOpTicks \in Int
          /\ started'[x]["rotate"] - MaxOpTicks <= now - MaxOpTicks
      BY <1>0, <3>1
    <3>. QED
      BY <1>0, <2>3, <2>4, <3>2, SinceEarlier DEF TypeOK
  <2>. QED
    BY <1>0, <1>1, <1>3, <2>1, <2>5, <2>6 DEF StorePrevious
<1>. QED
  <2>1. pc'[r]["rotate"] = "idle" \/ pc'[r]["rotate"] # "idle"
    OBVIOUS
  <2>. QED
    BY <1>1, <1>3, <1>4, <1>5 DEF PreviousInv

LEMMA PutExpiryRetire ==
    ASSUME TypeInv, TypeInv', SinceInv, PreviousInv, NEW r \in Replicas,
           Write(r, "rotate", "putExpiry", [store EXCEPT !.expiry = now + OverlapWindow], "putKid")
    PROVE  PreviousInv'
<1>. USE ThreadFacts DEF TypeInv, SinceInv, PreviousInv
<1>0. now \in Nat /\ now + OverlapWindow \in Nat /\ store.previous \in Pair \cup {None}
  BY DEF TypeOK, Values
<1>1. /\ Moves /\ ThreadsKept /\ CachesKept /\ now' = now
      /\ store' \in {store, [store EXCEPT !.expiry = now + OverlapWindow]}
      /\ pc'[r]["rotate"] # "putExpiry"
      /\ \A x \in Replicas : x # r =>
            pc'[x]["rotate"] = pc[x]["rotate"] /\ started'[x]["rotate"] = started[x]["rotate"]
  <2>1. [store EXCEPT !.expiry = now + OverlapWindow] \in Values
    BY <1>0, StoreUpdates DEF Times
  <2>2. /\ "putExpiry" \in PCs \ {"idle"} /\ "putKid" \in PCs /\ "putExpiry" # "idle"
        /\ "putKid" \notin LoadingPCs /\ "putExpiry" \in RotatingPCs /\ "rotate" \in Threads
    BY ThreadFacts DEF PCs, RotatingPCs, LoadingPCs
  <2>. DEFINE s == [store EXCEPT !.expiry = now + OverlapWindow]
  <2>3. s \in Values /\ s.active = store.active /\ Write(r, "rotate", "putExpiry", s, "putKid")
    BY <2>1, StoreActives
  <2>4. ClockInv
    OBVIOUS
  <2>. HIDE DEF s, SinceInv, PreviousInv, TypeInv
  <2>5. /\ Moves /\ ThreadsKept /\ CachesKept /\ now' = now
        /\ store' \in {store, s}
        /\ pc'[r]["rotate"] \in {"putKid", "idle"}
        /\ \A x \in Replicas, u \in Threads : x # r \/ u # "rotate" =>
              pc'[x][u] = pc[x][u] /\ started'[x][u] = started[x][u]
    BY <2>2, <2>3, <2>4, WriteFrame
  <2>. QED
    BY <2>2, <2>5 DEF s
<1>2. now <= now'
  BY <1>0, <1>1
<1>3. ViewPrevious' /\ CachePrevious'
  BY <1>1, <1>2, QuietLoaded
<1>4. \A x \in Replicas : pc'[x]["rotate"] = "putExpiry" =>
         pc[x]["rotate"] = "putExpiry" /\ started'[x]["rotate"] = started[x]["rotate"]
  BY <1>1
<1>5. CASE store' = store
  BY <1>1, <1>2, <1>3, <1>4, <1>5, QuietStore
<1>6. CASE store' = [store EXCEPT !.expiry = now + OverlapWindow]
  <2>1. store'.previous = store.previous /\ store'.expiry = now + OverlapWindow
    BY <1>6, StoreActives
  <2>2. pc[r]["rotate"] = "putExpiry" /\ started[r]["rotate"] \in Nat
        /\ started[r]["rotate"] <= now /\ now <= started[r]["rotate"] + MaxOpTicks
    BY KeyTypes DEF Write, ClockInv
  <2>3. PreviousOk(store', retiredAt', now', store')
    <3>1. SUFFICES ASSUME store.previous # None
                   PROVE  Since(store', retiredAt', store.previous.key, now - 2 * MaxOpTicks)
      BY <1>0, <1>1, <2>1 DEF PreviousOk
    <3>2. store.previous.key \in Keys
      BY <1>0, <3>1 DEF Pair
    <3>3. Since(store, retiredAt, store.previous.key, started[r]["rotate"] - MaxOpTicks)
      BY <2>2, <3>1 DEF StorePrevious
    <3>4. /\ started[r]["rotate"] - MaxOpTicks \in Int /\ now - 2 * MaxOpTicks \in Int
          /\ now - 2 * MaxOpTicks <= started[r]["rotate"] - MaxOpTicks
          /\ now - 2 * MaxOpTicks <= now
      BY <1>0, <2>2
    <3>5. Since(store, retiredAt, store.previous.key, now - 2 * MaxOpTicks)
      BY <3>2, <3>3, <3>4, SinceEarlier DEF TypeOK
    <3>. QED
      BY <1>1, <3>2, <3>4, <3>5, SinceKept
  <2>4. ASSUME store'.previous # None, NEW x \in Replicas, pc'[x]["rotate"] = "putExpiry"
        PROVE  Since(store', retiredAt', store'.previous.key, started'[x]["rotate"] - MaxOpTicks)
    <3>1. pc[x]["rotate"] = "putExpiry" /\ started'[x]["rotate"] = started[x]["rotate"]
      BY <1>4, <2>4
    <3>2. /\ Since(store, retiredAt, store.previous.key, started[x]["rotate"] - MaxOpTicks)
          /\ store.previous.key \in Keys
      BY <1>0, <2>1, <2>4, <3>1 DEF StorePrevious, Pair
    <3>3. started[x]["rotate"] - MaxOpTicks \in Int /\ started[x]["rotate"] - MaxOpTicks <= now
      BY <1>0, <3>1, KeyTypes DEF ClockInv
    <3>. QED
      BY <1>1, <2>1, <3>1, <3>2, <3>3, SinceKept
  <2>. QED
    BY <1>0, <1>1, <1>3, <2>1, <2>3, <2>4 DEF StorePrevious
<1>. QED
  BY <1>1, <1>5, <1>6

LEMMA RotateWriteRetire ==
    ASSUME TypeInv, TypeInv', SinceInv, NEW r \in Replicas, RotateWrite(r)
    PROVE  SinceInv' /\ ("silent" \notin Faults /\ PreviousInv => PreviousInv')
<1>. USE StoreUpdates, StoreActives, PairNotNone, ThreadFacts
     DEF PCs, TypeInv, LoadingPCs, RotatingPCs
<1>0. job[r].old \in Pair /\ job[r].new \in Pair /\ job[r].new.kid \in Kids /\ now \in Nat
      /\ now \in Times /\ now + OverlapWindow \in Times
  BY DEF TypeOK, Pair, Times
<1>1. CASE Write(r, "rotate", "putPrevious", [store EXCEPT !.previous = job[r].old], "putExpiry")
  <2>1. SinceInv'
    BY <1>0, <1>1, WriteSince
  <2>. QED
    BY <1>1, <2>1, PutPreviousRetire
<1>2. CASE Write(r, "rotate", "putExpiry", [store EXCEPT !.expiry = now + OverlapWindow], "putKid")
  <2>1. SinceInv'
    BY <1>0, <1>2, WriteSince
  <2>. QED
    BY <1>2, <2>1, PutExpiryRetire
<1>3. CASE Write(r, "rotate", "putKid", [store EXCEPT !.activeKid = job[r].new.kid], "putCreated")
  <2>1. [store EXCEPT !.activeKid = job[r].new.kid] \in Values
    BY <1>0
  <2>. DEFINE s == [store EXCEPT !.activeKid = job[r].new.kid]
  <2>2. /\ s \in Values /\ s.active = store.active /\ s.previous = store.previous
        /\ s.expiry = store.expiry /\ Write(r, "rotate", "putKid", s, "putCreated")
    BY <1>3, <2>1
  <2>. HIDE DEF s, TypeInv
  <2>. QED
    BY <2>2, WriteSince, WritePrevious
<1>4. CASE Write(r, "rotate", "putCreated", [store EXCEPT !.created = now], "putActive")
  BY <1>0, <1>4, WriteSince, WritePrevious
<1>5. CASE Write(r, "rotate", "putActive", [store EXCEPT !.active = job[r].new], "forget")
  BY <1>0, <1>5, WriteSince, WritePrevious
<1>. QED
  BY <1>1, <1>2, <1>3, <1>4, <1>5 DEF RotateWrite

-----------------------------------------------------------------------------
(* The reads, the publication and the environment.                         *)

\* What the read of a refresh may leave behind.
LEMMA ReadRetire ==
    ASSUME TypeInv, TypeInv', SinceInv, NEW r \in Replicas, NEW v \in {store, NoValues},
           UNCHANGED <<now, store, retiredAt, cache, job>>,
           \A x \in Replicas, u \in Threads : x # r \/ u # "refresh" =>
               pc'[x][u] = pc[x][u] /\ started'[x][u] = started[x][u],
           \A x \in Replicas : x # r => view'[x] = view[x],
           pc'[r]["refresh"] # "idle" =>
               started'[r]["refresh"] <= now /\ now <= started'[r]["refresh"] + MaxOpTicks,
           pc'[r]["refresh"] \in LoadingPCs => v.active # None /\ view'[r] = Loaded(v)
    PROVE  SinceInv' /\ (PreviousInv => PreviousInv')
<1>. USE ThreadFacts DEF TypeInv, TypeOK
<1>1. Moves /\ CachesKept /\ now <= now'
  BY DEF Moves, CachesKept
<1>2. ClockInv'
  BY DEF SinceInv, ClockInv
<1>3. CacheSince'
  BY <1>1, QuietCaches
<1>4. v.active # None => v = store
  BY DEF NoValues
<1>5. ASSUME pc'[r]["refresh"] \in LoadingPCs
      PROVE  /\ store.active # None /\ view'[r].active.key = store.active.key
             /\ view'[r].previous \in {store.previous, None} /\ view'[r].expiry = store.expiry
  <2>1. v = store /\ view'[r] = Loaded(store) /\ store.active # None
    BY <1>4, <1>5
  <2>2. Loaded(store).active = ParseKidCipher(store)
        /\ Loaded(store).previous \in {store.previous, None} /\ Loaded(store).expiry = store.expiry
    BY <2>1, LoadedType
  <2>. QED
    BY <2>1, <2>2 DEF ParseKidCipher
<1>6. ViewSince'
  <2>1. ASSUME NEW x \in Replicas, x # r, pc'[x]["refresh"] \in LoadingPCs
        PROVE  Since(store', retiredAt', view'[x].active.key, started'[x]["refresh"])
    BY <2>1 DEF SinceInv, ViewSince
  <2>. QED
    BY <1>5, <2>1 DEF ViewSince, Since
<1>7. JobSince'
  BY DEF SinceInv, JobSince
<1>8. ASSUME PreviousInv PROVE PreviousInv'
  <2>1. StorePrevious'
    BY <1>8 DEF PreviousInv, StorePrevious
  <2>2. CachePrevious'
    BY <1>8 DEF PreviousInv, CachePrevious
  <2>3. ASSUME NEW x \in Replicas, pc'[x]["refresh"] \in LoadingPCs
        PROVE  PreviousOk(store', retiredAt', now', view'[x])
    <3>1. CASE x # r
      BY <1>8, <2>3, <3>1 DEF PreviousInv, ViewPrevious
    <3>2. CASE x = r
      BY <1>5, <1>8, <2>3, <3>2 DEF PreviousInv, StorePrevious, PreviousOk
    <3>. QED
      BY <3>1, <3>2
  <2>. QED
    BY <2>1, <2>2, <2>3 DEF PreviousInv, ViewPrevious
<1>. QED
  BY <1>2, <1>3, <1>6, <1>7, <1>8 DEF SinceInv

LEMMA RefreshReadRetire ==
    ASSUME TypeInv, TypeInv', SinceInv, NEW r \in Replicas, RefreshRead(r)
    PROVE  SinceInv' /\ (PreviousInv => PreviousInv')
<1>. USE ThreadFacts
<1>1. PICK v \in {store, NoValues} :
        \/ v.active = None /\ Goto(r, "refresh", "bootActive") /\ UNCHANGED view
        \/ v.active # None /\ Proceed(r, v)
  BY DEF RefreshRead
<1>2. started' = [started EXCEPT ![r]["refresh"] = now]
      /\ UNCHANGED <<now, store, cache, job, retiredAt>>
  BY DEF RefreshRead
<1>3. PICK q \in PCs : /\ pc' = [pc EXCEPT ![r]["refresh"] = q]
                       /\ q \in LoadingPCs => v.active # None /\ Proceed(r, v)
  BY <1>1 DEF Goto, Proceed, PCs, LoadingPCs
<1>4. \A x \in Replicas, u \in Threads : x # r \/ u # "refresh" =>
         pc'[x][u] = pc[x][u] /\ started'[x][u] = started[x][u]
  BY <1>2, <1>3, UpdateOne DEF TypeInv, TypeOK
<1>5. pc'[r]["refresh"] = q /\ started'[r]["refresh"] = now /\ now \in Nat
  BY <1>2, <1>3, UpdateOne DEF TypeInv, TypeOK
<1>6. Proceed(r, v) => view'[r] = Loaded(v)
  BY DEF Proceed, TypeInv, TypeOK
<1>7. \A x \in Replicas : x # r => view'[x] = view[x]
  BY <1>1 DEF Proceed, TypeInv, TypeOK
<1>8. now <= now /\ now <= now + MaxOpTicks
  BY <1>5
<1>. QED
  BY <1>2, <1>3, <1>4, <1>5, <1>6, <1>7, <1>8, ReadRetire

LEMMA RefreshRereadRetire ==
    ASSUME TypeInv, TypeInv', SinceInv, NEW r \in Replicas, RefreshReread(r)
    PROVE  SinceInv' /\ (PreviousInv => PreviousInv')
<1>. USE ThreadFacts
<1>0. pc[r]["refresh"] = "reread" /\ UNCHANGED <<now, store, cache, retiredAt>>
  BY DEF RefreshReread
<1>1. CASE Finish(r, "refresh")
  <2>1. /\ pc' = [pc EXCEPT ![r]["refresh"] = "idle"]
        /\ started' = [started EXCEPT ![r]["refresh"] = 0]
        /\ view' = [view EXCEPT ![r] = NoValues] /\ job' = job
    BY <1>1 DEF Finish, Goto
  <2>2. \A x \in Replicas, u \in Threads : x # r \/ u # "refresh" =>
           pc'[x][u] = pc[x][u] /\ started'[x][u] = started[x][u]
    BY <2>1 DEF TypeInv, TypeOK
  <2>3. pc'[r]["refresh"] = "idle" /\ \A x \in Replicas : x # r => view'[x] = view[x]
    BY <2>1 DEF TypeInv, TypeOK
  <2>4. \A q \in LoadingPCs : q # "idle"
    BY DEF LoadingPCs
  <2>. QED
    BY <1>0, <2>1, <2>2, <2>3, <2>4, ReadRetire
<1>2. CASE \E v \in {store, NoValues} :
             v.active # None /\ Proceed(r, v) /\ UNCHANGED <<started, job>>
  <2>1. PICK v \in {store, NoValues} :
             v.active # None /\ Proceed(r, v) /\ UNCHANGED <<started, job>>
    BY <1>2
  <2>2. PICK q \in PCs : pc' = [pc EXCEPT ![r]["refresh"] = q]
    BY <2>1 DEF Proceed, Goto, PCs
  <2>3. \A x \in Replicas, u \in Threads : x # r \/ u # "refresh" =>
           pc'[x][u] = pc[x][u] /\ started'[x][u] = started[x][u]
    BY <2>1, <2>2 DEF TypeInv, TypeOK
  <2>4. view'[r] = Loaded(v) /\ \A x \in Replicas : x # r => view'[x] = view[x]
    BY <2>1 DEF Proceed, TypeInv, TypeOK
  <2>5. started'[r]["refresh"] <= now /\ now <= started'[r]["refresh"] + MaxOpTicks
    BY <1>0, <2>1 DEF SinceInv, ClockInv
  <2>. QED
    BY <1>0, <2>1, <2>3, <2>4, <2>5, ReadRetire
<1>. QED
  BY <1>1, <1>2 DEF RefreshReread

\* A step that leaves the store alone and begins and caches nothing.
LEMMA IdleRetire ==
    ASSUME TypeInv, TypeInv', SinceInv, UNCHANGED <<now, store, retiredAt>>, ThreadsKept, CachesKept,
           \A r \in Replicas : pc'[r]["rotate"] = "putExpiry" => pc[r]["rotate"] = "putExpiry"
    PROVE  SinceInv' /\ (PreviousInv => PreviousInv')
<1>1. Moves /\ now <= now'
  BY DEF Moves, TypeInv, TypeOK
<1>. QED
  BY <1>1, QuietSince, QuietPrevious

LEMMA FinishKeeps ==
    ASSUME TypeInv, NEW r \in Replicas, NEW t \in Threads, Finish(r, t)
    PROVE  /\ ThreadsKept
           /\ \A x \in Replicas : pc'[x]["rotate"] = "putExpiry" => pc[x]["rotate"] = "putExpiry"
<1>. USE ThreadFacts DEF TypeInv, TypeOK
<1>1. /\ pc' = [pc EXCEPT ![r][t] = "idle"] /\ started' = [started EXCEPT ![r][t] = 0]
      /\ view' = IF t = "refresh" THEN [view EXCEPT ![r] = NoValues] ELSE view
      /\ job' = IF t = "rotate" THEN [job EXCEPT ![r] = NoJob] ELSE job
  BY DEF Finish, Goto
<1>2. \A x \in Replicas, u \in Threads : x # r \/ u # t =>
         pc'[x][u] = pc[x][u] /\ started'[x][u] = started[x][u]
  BY <1>1, UpdateOne
<1>3. pc'[r][t] = "idle"
  BY <1>1, UpdateOne
<1>4. \A x \in Replicas : (x # r \/ t # "refresh" => view'[x] = view[x])
                        /\ (x # r \/ t # "rotate" => job'[x] = job[x])
  BY <1>1
<1>. QED
  BY <1>2, <1>3, <1>4 DEF ThreadsKept

LEMMA RefreshPublishRetire ==
    ASSUME TypeInv, TypeInv', SinceInv, NEW r \in Replicas, RefreshPublish(r)
    PROVE  SinceInv' /\ (PreviousInv => PreviousInv')
<1>. USE ThreadFacts
<1>1. /\ pc[r]["refresh"] = "publish" /\ pc[r]["refresh"] \in LoadingPCs
      /\ UNCHANGED <<now, store, retiredAt>>
      /\ cache' = [cache EXCEPT ![r] =
                      [active |-> view[r].active, previous |-> view[r].previous,
                       expiry |-> view[r].expiry, created |-> view[r].created,
                       until |-> now + CacheTtl]]
      /\ Finish(r, "refresh")
  BY DEF RefreshPublish, LoadingPCs
<1>2. Moves /\ now <= now'
  BY <1>1 DEF Moves, TypeInv, TypeOK
<1>3. /\ ThreadsKept
      /\ \A x \in Replicas : pc'[x]["rotate"] = "putExpiry" => pc[x]["rotate"] = "putExpiry"
  BY <1>1, FinishKeeps
<1>4. ClockInv' /\ ViewSince' /\ JobSince'
  BY <1>1, <1>2, <1>3, QuietClock, QuietThreads
<1>5. /\ cache'[r].active = view[r].active /\ cache'[r].previous = view[r].previous
      /\ cache'[r].expiry = view[r].expiry /\ cache'[r].until = now + CacheTtl
      /\ \A x \in Replicas : x # r => cache'[x] = cache[x]
  BY <1>1 DEF TypeInv, TypeOK
<1>6. CacheSince'
  <2>1. ASSUME NEW x \in Replicas, x # r, cache'[x] # None
        PROVE  /\ now' < cache'[x].until /\ cache'[x].until <= now' + CacheTtl
               /\ Since(store', retiredAt', cache'[x].active.key,
                        cache'[x].until - CacheTtl - MaxOpTicks)
    BY <1>1, <1>5, <2>1 DEF SinceInv, CacheSince
  <2>2. /\ Since(store, retiredAt, view[r].active.key, started[r]["refresh"])
        /\ now <= started[r]["refresh"] + MaxOpTicks
        /\ view[r].active.key \in Keys /\ now \in Nat /\ started[r]["refresh"] \in Nat
    BY <1>1, KeyTypes DEF SinceInv, ClockInv, ViewSince
  <2>3. /\ now - MaxOpTicks \in Int /\ now - MaxOpTicks <= started[r]["refresh"]
        /\ now + CacheTtl - CacheTtl - MaxOpTicks = now - MaxOpTicks
        /\ now < now + CacheTtl
    BY <2>2
  <2>4. Since(store, retiredAt, view[r].active.key, now - MaxOpTicks)
    BY <2>2, <2>3, SinceEarlier DEF TypeInv, TypeOK
  <2>5. /\ now' < cache'[r].until /\ cache'[r].until <= now' + CacheTtl
        /\ Since(store', retiredAt', cache'[r].active.key,
                 cache'[r].until - CacheTtl - MaxOpTicks)
    BY <1>1, <1>5, <2>2, <2>3, <2>4
  <2>. QED
    BY <2>1, <2>5 DEF CacheSince
<1>7. ASSUME PreviousInv PROVE PreviousInv'
  <2>1. ViewPrevious'
    <3>1. ASSUME NEW x \in Replicas, pc'[x]["refresh"] \in LoadingPCs
          PROVE  PreviousOk(store', retiredAt', now', view'[x])
      BY <1>1, <1>3, <1>7, <3>1 DEF PreviousInv, ViewPrevious, ThreadsKept
    <3>. QED
      BY <3>1 DEF ViewPrevious
  <2>2. StorePrevious'
    <3>1. \A x \in Replicas : pc'[x]["rotate"] = "putExpiry" =>
             pc[x]["rotate"] = "putExpiry" /\ started'[x]["rotate"] = started[x]["rotate"]
      BY <1>3 DEF ThreadsKept
    <3>. QED
      BY <1>1, <1>2, <1>7, <3>1, QuietStore
  <2>3. PreviousOk(store, retiredAt, now, cache'[r])
    BY <1>1, <1>5, <1>7 DEF PreviousInv, ViewPrevious, PreviousOk
  <2>4. CachePrevious'
    BY <1>1, <1>5, <1>7, <2>3 DEF PreviousInv, CachePrevious
  <2>. QED
    BY <2>1, <2>2, <2>4 DEF PreviousInv
<1>. QED
  BY <1>4, <1>6, <1>7 DEF SinceInv

LEMMA RotateForgetRetire ==
    ASSUME TypeInv, TypeInv', SinceInv, NEW r \in Replicas, RotateForget(r)
    PROVE  SinceInv' /\ (PreviousInv => PreviousInv')
<1>1. /\ Finish(r, "rotate") /\ UNCHANGED <<now, store, retiredAt>>
      /\ cache' = [cache EXCEPT ![r] = None]
  BY DEF RotateForget
<1>2. CachesKept
  BY <1>1 DEF CachesKept, TypeInv, TypeOK
<1>. QED
  BY <1>1, <1>2, ThreadFacts, FinishKeeps, IdleRetire

LEMMA RotationNotDueRetire ==
    ASSUME TypeInv, TypeInv', SinceInv, NEW r \in Replicas, RotationNotDue(r)
    PROVE  SinceInv' /\ (PreviousInv => PreviousInv')
<1>1. UNCHANGED <<now, store, cache, pc, view, job, started, retiredAt>>
  BY DEF RotationNotDue
<1>2. CachesKept /\ ThreadsKept
  BY <1>1 DEF CachesKept, ThreadsKept
<1>. QED
  BY <1>1, <1>2, IdleRetire

LEMMA CrashRetire ==
    ASSUME TypeInv, TypeInv', SinceInv, NEW r \in Replicas, Crash(r)
    PROVE  SinceInv' /\ (PreviousInv => PreviousInv')
<1>. USE ThreadFacts DEF TypeInv, TypeOK
<1>1. /\ UNCHANGED <<now, store, retiredAt>>
      /\ \A x \in Replicas : x # r =>
            /\ pc'[x] = pc[x] /\ started'[x] = started[x]
            /\ view'[x] = view[x] /\ job'[x] = job[x] /\ cache'[x] = cache[x]
      /\ \A t \in Threads : pc'[r][t] = "idle"
      /\ cache'[r] = None
  BY DEF Crash
<1>2. CachesKept /\ ThreadsKept
  BY <1>1 DEF CachesKept, ThreadsKept
<1>3. \A x \in Replicas : pc'[x]["rotate"] = "putExpiry" => pc[x]["rotate"] = "putExpiry"
  BY <1>1
<1>. QED
  BY <1>1, <1>2, <1>3, IdleRetire

LEMMA RotateReadRetire ==
    ASSUME TypeInv, TypeInv', SinceInv, NEW r \in Replicas, RotateRead(r)
    PROVE  SinceInv' /\ (PreviousInv => PreviousInv')
<1>. USE ThreadFacts
<1>1. UNCHANGED <<now, store, cache, view, retiredAt>>
  BY DEF RotateRead
<1>2. CASE UNCHANGED <<pc, started, job>>
  <2>1. CachesKept /\ ThreadsKept
    BY <1>1, <1>2 DEF CachesKept, ThreadsKept
  <2>. QED
    BY <1>1, <1>2, <2>1, IdleRetire
<1>3. CASE \E v \in {store, NoValues} :
             \/ Begin(r, "rotate", "bootActive") /\ UNCHANGED job
             \/ /\ v.active # None /\ Begin(r, "rotate", "putPrevious")
                /\ Mint(r, ParseKidCipher(v))
  <2>1. PICK v \in {store, NoValues} :
             \/ Begin(r, "rotate", "bootActive") /\ UNCHANGED job
             \/ /\ v.active # None /\ Begin(r, "rotate", "putPrevious")
                /\ Mint(r, ParseKidCipher(v))
    BY <1>3
  <2>2. PICK q \in {"bootActive", "putPrevious"} :
          /\ pc' = [pc EXCEPT ![r]["rotate"] = q]
          /\ started' = [started EXCEPT ![r]["rotate"] = now]
          /\ q = "putPrevious" => v.active # None /\ Mint(r, ParseKidCipher(v))
    BY <2>1 DEF Begin, Goto
  <2>3. \A x \in Replicas, u \in Threads : x # r \/ u # "rotate" =>
           pc'[x][u] = pc[x][u] /\ started'[x][u] = started[x][u]
    BY <2>2, UpdateOne DEF TypeInv, TypeOK
  <2>4. pc'[r]["rotate"] = q /\ started'[r]["rotate"] = now /\ now \in Nat
    BY <2>2, UpdateOne DEF TypeInv, TypeOK
  <2>5. \A x \in Replicas : x # r => job'[x] = job[x]
    BY <2>1 DEF Mint, TypeInv, TypeOK
  <2>6. q = "putPrevious" => store.active # None /\ job'[r].old.key = store.active.key
    <3>1. SUFFICES ASSUME q = "putPrevious"
                   PROVE  store.active # None /\ job'[r].old.key = store.active.key
      OBVIOUS
    <3>2. v = store /\ v.active # None
      BY <2>2, <3>1 DEF NoValues
    <3>3. job'[r].old = ParseKidCipher(store)
      BY <2>2, <3>1, <3>2 DEF Mint, TypeInv, TypeOK
    <3>. QED
      BY <3>2, <3>3 DEF ParseKidCipher
  <2>7. Moves /\ CachesKept /\ now <= now'
    BY <1>1, <2>4 DEF Moves, CachesKept, TypeInv, TypeOK
  <2>8. ClockInv'
    <3>1. now <= now /\ now <= now + MaxOpTicks
      BY <2>4
    <3>. QED
      BY <1>1, <2>3, <2>4, <3>1 DEF SinceInv, ClockInv
  <2>9. CacheSince'
    BY <1>1, <2>7, QuietCaches
  <2>10. ViewSince'
    BY <1>1, <2>3 DEF SinceInv, ViewSince
  <2>11. JobSince'
    <3>1. ASSUME NEW x \in Replicas, x # r, pc'[x]["rotate"] \in RotatingPCs
          PROVE  Since(store', retiredAt', job'[x].old.key, started'[x]["rotate"])
      BY <1>1, <2>3, <2>5, <3>1 DEF SinceInv, JobSince
    <3>2. pc'[r]["rotate"] \in RotatingPCs => q = "putPrevious"
      BY <2>4 DEF RotatingPCs
    <3>. QED
      BY <1>1, <2>6, <3>1, <3>2 DEF JobSince, Since
  <2>12. ASSUME PreviousInv PROVE PreviousInv'
    <3>1. ViewPrevious' /\ CachePrevious'
      BY <1>1, <2>3, <2>12 DEF PreviousInv, ViewPrevious, CachePrevious
    <3>2. StorePrevious'
      BY <1>1, <2>3, <2>4, <2>12 DEF PreviousInv, StorePrevious
    <3>. QED
      BY <3>1, <3>2 DEF PreviousInv
  <2>. QED
    BY <2>8, <2>9, <2>10, <2>11, <2>12 DEF SinceInv
<1>. QED
  BY <1>2, <1>3 DEF RotateRead

LEMMA TickRetire ==
    ASSUME TypeInv, TypeInv', SinceInv, Tick
    PROVE  SinceInv' /\ (PreviousInv => PreviousInv')
<1>. USE ThreadFacts DEF TypeInv, TypeOK
<1>1. /\ UNCHANGED <<store, pc, view, job, started, retiredAt>>
      /\ now' = now + 1 /\ now \in Nat
      /\ \A r \in Replicas : cache'[r] = IF cache[r] # None /\ cache[r].until <= now + 1
                                        THEN None ELSE cache[r]
  BY DEF Tick
<1>2. Moves /\ ThreadsKept /\ CachesKept /\ now <= now'
  BY <1>1 DEF Moves, ThreadsKept, CachesKept
<1>3. ClockInv'
  <2>1. \A r \in Replicas, t \in Threads :
           pc[r][t] # "idle" => started[r][t] \in Nat /\ now - started[r][t] < MaxOpTicks
    BY DEF Tick, Idle
  <2>2. \A k \in Keys : retiredAt[k] \in Nat
    OBVIOUS
  <2>. QED
    BY <1>1, <2>1, <2>2 DEF SinceInv, ClockInv
<1>4. ViewSince' /\ JobSince'
  BY <1>2, QuietThreads
<1>5. CacheSince'
  <2>1. SUFFICES ASSUME NEW r \in Replicas, cache'[r] # None
                 PROVE  /\ now' < cache'[r].until /\ cache'[r].until <= now' + CacheTtl
                        /\ Since(store', retiredAt', cache'[r].active.key,
                                 cache'[r].until - CacheTtl - MaxOpTicks)
    BY DEF CacheSince
  <2>2. cache'[r] = cache[r] /\ cache[r] # None /\ ~ cache[r].until <= now + 1
        /\ cache[r].until \in Nat
    BY <1>1, <2>1, KeyTypes
  <2>. QED
    BY <1>1, <2>2 DEF SinceInv, CacheSince
<1>6. PreviousInv => PreviousInv'
  BY <1>1, <1>2, QuietPrevious
<1>. QED
  BY <1>3, <1>4, <1>5, <1>6 DEF SinceInv

-----------------------------------------------------------------------------
(* The theorems.                                                           *)

LEMMA InitRetire == Init => SinceInv /\ PreviousInv
<1>1. SUFFICES ASSUME Init PROVE SinceInv /\ PreviousInv
  OBVIOUS
<1>2. /\ \A r \in Replicas : cache[r] = None
      /\ \A r \in Replicas, t \in Threads : pc[r][t] = "idle"
      /\ now = 0 /\ \A k \in Keys : retiredAt[k] = 0
      /\ store.previous = None /\ store.expiry = None
  BY <1>1 DEF Init, NoValues, LegacyValues
<1>3. SinceInv
  BY <1>2, ThreadFacts
     DEF SinceInv, ClockInv, ViewSince, JobSince, CacheSince, LoadingPCs, RotatingPCs
<1>4. PreviousInv
  BY <1>2, ThreadFacts
     DEF PreviousInv, StorePrevious, ViewPrevious, CachePrevious, PreviousOk, LoadingPCs
<1>. QED
  BY <1>3, <1>4

LEMMA NextRetire ==
    TypeInv /\ SinceInv /\ [Next]_vars =>
        SinceInv' /\ ("silent" \notin Faults /\ PreviousInv => PreviousInv')
<1>1. SUFFICES ASSUME TypeInv, TypeInv', SinceInv, [Next]_vars
               PROVE  SinceInv' /\ ("silent" \notin Faults /\ PreviousInv => PreviousInv')
  BY NextType
<1>2. ASSUME NEW r \in Replicas, Refresh(r)
      PROVE  SinceInv' /\ (PreviousInv => PreviousInv')
  BY <1>1, <1>2, RefreshReadRetire, RefreshRereadRetire, CleanUpRetire, RefreshPublishRetire
     DEF Refresh
<1>3. ASSUME NEW r \in Replicas, Rotate(r)
      PROVE  SinceInv' /\ ("silent" \notin Faults /\ PreviousInv => PreviousInv')
  BY <1>1, <1>3, RotationNotDueRetire, RotateReadRetire, RotateWriteRetire, RotateForgetRetire
     DEF Rotate
<1>4. ASSUME NEW r \in Replicas, Crash(r)
      PROVE  SinceInv' /\ (PreviousInv => PreviousInv')
  BY <1>1, <1>4, CrashRetire
<1>5. ASSUME NEW r \in Replicas, NEW t \in Threads, Bootstrap(r, t)
      PROVE  SinceInv' /\ (PreviousInv => PreviousInv')
  BY <1>1, <1>5, BootstrapRetire
<1>6. CASE Tick
  BY <1>1, <1>6, TickRetire
<1>7. CASE UNCHANGED vars
  <2>1. UNCHANGED <<now, store, cache, pc, view, job, started, retiredAt>>
    BY <1>7 DEF vars
  <2>2. CachesKept /\ ThreadsKept
    BY <2>1 DEF CachesKept, ThreadsKept
  <2>. QED
    BY <1>1, <2>1, <2>2, IdleRetire
<1>. QED
  BY <1>1, <1>2, <1>3, <1>4, <1>5, <1>6, <1>7 DEF Next

LEMMA SigningFollows == TypeInv /\ SinceInv => RetiredKeyStopsSigning
<1>1. SUFFICES ASSUME TypeInv, SinceInv, NEW r \in Replicas, cache[r] # None,
                      cache[r].active.key # store.active.key
               PROVE  now < retiredAt[cache[r].active.key] + CacheTtl + MaxOpTicks
  BY DEF RetiredKeyStopsSigning
<1>2. /\ cache[r].active.key \in Keys /\ cache[r].until \in Nat /\ now \in Nat
      /\ retiredAt[cache[r].active.key] \in Nat
  BY <1>1, KeyTypes DEF TypeInv, TypeOK
<1>3. /\ now < cache[r].until
      /\ cache[r].until - CacheTtl - MaxOpTicks <= retiredAt[cache[r].active.key]
  BY <1>1 DEF SinceInv, CacheSince, Since
<1>. QED
  BY <1>2, <1>3, ThreadFacts

\* A replica never signs with a key that was replaced in the store a cache life and one
\* operation ago: for any number of replicas and rotators, whatever writes are lost, half
\* done or refused, whoever crashes and whenever a live key is bootstrapped over.
THEOREM SigningStops == Spec => []RetiredKeyStopsSigning
<1>1. Init => TypeInv /\ SinceInv
  BY InitType, InitRetire
<1>2. (TypeInv /\ SinceInv) /\ [Next]_vars => (TypeInv /\ SinceInv)'
  BY NextType, NextRetire
<1>3. TypeInv /\ SinceInv => RetiredKeyStopsSigning
  BY SigningFollows
<1>. QED
  BY <1>1, <1>2, <1>3, PTL DEF Spec

LEMMA VerifyingFollows ==
    ASSUME CacheTtl <= OverlapWindow, TypeInv, SinceInv, PreviousInv
    PROVE  RetiredKeyStopsVerifying
<1>1. SUFFICES ASSUME NEW r \in Replicas, NEW k \in AcceptedKeys(r), k # store.active.key,
                      store.active # None
               PROVE  now < retiredAt[k] + OverlapWindow + Skew + 2 * MaxOpTicks
  BY DEF RetiredKeyStopsVerifying
<1>2. cache[r] # None
  BY <1>1 DEF AcceptedKeys
<1>3. /\ cache[r].active.key \in Keys /\ cache[r].until \in Nat /\ now \in Nat
      /\ cache[r].previous \in Pair \cup {None} /\ cache[r].expiry \in Times
  BY <1>2, KeyTypes
<1>4. CASE k = cache[r].active.key
  <2>1. /\ now < cache[r].until
        /\ cache[r].until - CacheTtl - MaxOpTicks <= retiredAt[k] /\ retiredAt[k] \in Nat
    BY <1>1, <1>2, <1>3, <1>4 DEF SinceInv, CacheSince, Since, TypeInv, TypeOK
  <2>. QED
    BY <1>3, <2>1, ThreadFacts
<1>5. CASE k # cache[r].active.key
  <2>1. PreviousLive(cache[r]) /\ k = ResolveKey(cache[r], cache[r].previous.kid)
    BY <1>1, <1>2, <1>5 DEF AcceptedKeys
  <2>2. k = cache[r].previous.key
    BY <1>2, <1>5, <2>1 DEF ResolveKey
  <2>3. /\ cache[r].previous # None /\ cache[r].expiry # None
        /\ cache[r].expiry + Skew > now /\ cache[r].expiry \in Nat /\ k \in Keys
    BY <1>3, <2>1, <2>2 DEF PreviousLive, Times, Pair
  <2>4. /\ cache[r].expiry - OverlapWindow - 2 * MaxOpTicks <= retiredAt[k]
        /\ retiredAt[k] \in Nat
    BY <1>1, <1>2, <2>2, <2>3 DEF PreviousInv, CachePrevious, PreviousOk, Since, TypeInv, TypeOK
  <2>. QED
    BY <1>3, <2>3, <2>4, ThreadFacts
<1>. QED
  BY <1>4, <1>5

\* No replica accepts a signature of a key that was replaced an overlap window, the clock
\* skew and two operations ago: for any number of replicas that rotate at once, crash
\* between two writes, read nothing or lose writes with an exception; provided that SAP
\* refuses no write in silence (then a new expiry may date an old key) and that a cached
\* state does not outlive the overlap window (JwtKeyManager.cs:16-17).
THEOREM VerifyingStops ==
    ASSUME "silent" \notin Faults, CacheTtl <= OverlapWindow
    PROVE  Spec => []RetiredKeyStopsVerifying
<1>1. Init => TypeInv /\ SinceInv /\ PreviousInv
  BY InitType, InitRetire
<1>2. (TypeInv /\ SinceInv /\ PreviousInv) /\ [Next]_vars =>
         (TypeInv /\ SinceInv /\ PreviousInv)'
  BY NextType, NextRetire
<1>3. TypeInv /\ SinceInv /\ PreviousInv => RetiredKeyStopsVerifying
  BY VerifyingFollows
<1>. QED
  BY <1>1, <1>2, <1>3, PTL DEF Spec
=============================================================================
