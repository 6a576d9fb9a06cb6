-------------------------- MODULE JwtScheduleProofs --------------------------
(***************************************************************************)
(* Proofs about an orderly deployment: any number of replicas of which one *)
(* rotates, SAP answering, and any times in the order OrderlySchedule      *)
(* states: a rotation period has room for an overlap window, the life of a *)
(* cached state, two operations and a timer period.                        *)
(* The argument: a rotation begins only when the first bootstrap is over   *)
(* and the previous key of the last rotation has been cleaned up, so no    *)
(* clean-up runs beside a rotation and every stored value has one writer.  *)
(***************************************************************************)
EXTENDS JwtRetireProofs

BootPCs  == {"bootActive", "bootKid", "bootCreated", "bootPrevious", "bootExpiry"}
CleanPCs == {"cleanPrevious", "cleanExpiry"}

TheRotator == CHOOSE r \in Replicas : Rotators = {r}
Phase == pc[TheRotator]["rotate"]
Began == started[TheRotator]["rotate"]
Job   == job[TheRotator]

\* A rotation that has not written the creation time of the new key yet.
Early == Phase \in RotatingPCs \ {"putActive"}

-----------------------------------------------------------------------------
(* The inductive invariant, in the order of the argument.                  *)

\* Only the rotator rotates, and nothing is stored or loaded before the first bootstrap.
FirstRun ==
    /\ \A r \in Replicas : r # TheRotator => pc[r]["rotate"] = "idle"
    /\ Phase \in {"idle", "forget"} \cup RotatingPCs
    /\ store.active = None =>
          /\ store.created = None /\ store.previous = None /\ store.expiry = None
          /\ minted = 0 /\ Phase = "idle"
          /\ \A r \in Replicas : cache[r] = None /\ pc[r]["refresh"] \notin LoadingPCs
    /\ \A r \in Replicas :
          pc[r]["refresh"] \in (BootPCs \ {"bootActive"}) \cup {"reread"} => store.active # None

\* No creation time is older than a bootstrap that is still under way.
NotBefore(t, s) == s # None => t <= s
Booting ==
    \A x \in Replicas : pc[x]["refresh"] \in BootPCs \cup {"reread"} =>
        /\ minted = 0
        /\ NotBefore(started[x]["refresh"], store.created)
        /\ \A r \in Replicas :
              /\ pc[r]["refresh"] \in LoadingPCs =>
                    NotBefore(started[x]["refresh"], view[r].created)
              /\ cache[r] # None => NotBefore(started[x]["refresh"], cache[r].created)

\* The kids count the keys, and a rotation replaces the youngest one.
Numbered(p) == p # None => p.kid = p.key + 1 /\ p.key <= minted
Numbering ==
    /\ \A k \in 0 .. minted : kidOf[k] = k + 1
    /\ Numbered(store.active) /\ Numbered(store.previous)
    /\ \A r \in Replicas :
          /\ pc[r]["refresh"] \in LoadingPCs =>
                Numbered(view[r].active) /\ Numbered(view[r].previous)
          /\ cache[r] # None => Numbered(cache[r].active) /\ Numbered(cache[r].previous)
    /\ Phase \in RotatingPCs =>
          /\ Job.old = store.active /\ Job.old.key + 1 = minted
          /\ Job.new = [kid |-> minted + 1, key |-> minted]
    /\ store.active # None /\ Phase \notin RotatingPCs => store.active.key = minted

\* What a rotation has stored by the time it comes to each of its writes.
Rotation ==
    /\ Phase \in RotatingPCs => \A x \in Replicas : pc[x]["refresh"] \notin CleanPCs
    /\ Phase = "putPrevious" => store.previous = None /\ store.expiry = None
    /\ Phase = "putExpiry" => store.previous = Job.old /\ store.expiry = None
    /\ Phase \in {"putKid", "putCreated", "putActive"} => store.previous = Job.old
    /\ Phase \in {"putKid", "putCreated", "putActive", "forget"} =>
          /\ store.expiry # None
          /\ Began + OverlapWindow <= store.expiry /\ store.expiry <= now + OverlapWindow
    /\ Phase \in {"putActive", "forget"} => store.created # None /\ Began <= store.created

\* The previous key is the one before the active one; it is kept with its expiry, an
\* overlap window after the creation of the active key or one operation less.
Overlap ==
    /\ store.previous # None => minted > 0 /\ store.previous.key + 1 = minted
    /\ store.expiry # None => minted > 0
    /\ store.previous # None /\ store.expiry = None => Phase = "putExpiry"
    /\ store.previous = None /\ store.expiry # None =>
          \E x \in Replicas : pc[x]["refresh"] = "cleanExpiry"
    /\ store.expiry # None /\ ~ Early =>
          /\ store.created # None /\ store.expiry <= store.created + OverlapWindow
          /\ store.created + OverlapWindow <= store.expiry + MaxOpTicks

\* A clean-up begins after the overlap window, and long before the next rotation.
Cleaning ==
    \A x \in Replicas :
        /\ pc[x]["refresh"] \in CleanPCs =>
              /\ minted > 0 /\ store.created # None
              /\ store.expiry # None => store.expiry + Skew <= now
              /\ store.created + CacheTtl + MaxOpTicks <= started[x]["refresh"]
              /\ minted < MaxMinted =>
                    started[x]["refresh"] < store.created + OverlapWindow + Skew + CacheTtl
                                              + MaxOpTicks + CheckInterval
        /\ pc[x]["refresh"] = "cleanExpiry" => store.previous = None

\* A creation time read no earlier than t is the stored one, or that is no earlier than t.
ReadOk(c, t) ==
    \/ c = store.created
    \/ store.created # None /\ t <= store.created

\* While a previous key is stored every loaded and cached state is from before its expiry.
Reading ==
    \A r \in Replicas :
        /\ pc[r]["refresh"] = "publish" /\ store.previous # None /\ store.expiry # None =>
              started[r]["refresh"] < store.expiry + Skew
        /\ cache[r] # None /\ store.previous # None /\ store.expiry # None =>
              cache[r].until < store.expiry + Skew + CacheTtl + MaxOpTicks
        /\ pc[r]["refresh"] \in LoadingPCs => ReadOk(view[r].created, started[r]["refresh"])
        /\ cache[r] # None => ReadOk(cache[r].created, cache[r].until - CacheTtl - MaxOpTicks)

\* The last timer tick the rotation service has handled.
Handled == IF checked[TheRotator] THEN now - (now % CheckInterval)
                                  ELSE now - (now % CheckInterval) - CheckInterval

\* The service loads a state at each of its ticks, so one soon after the expiry cleans up.
Timing ==
    /\ ~ checked[TheRotator] => TimerDue
    /\ store.previous # None /\ store.expiry # None /\ minted < MaxMinted =>
          Handled < store.expiry + Skew + CacheTtl + MaxOpTicks

\* And it rotates at the first of its ticks that finds the active key too old.
Age ==
    store.created # None /\ minted < MaxMinted =>
        IF Early THEN Began < store.created + RotationDuration + CheckInterval
                 ELSE Handled < store.created + RotationDuration

\* The time that a signature is good for, at the least.
Guarantee == OverlapWindow - CacheTtl - 2 * MaxOpTicks

\* At n, with s in the store, a signature of key k that was made at t or before will be
\* accepted for that time.
Good(s, n, k, t) ==
    \/ s.active # None /\ k = s.active.key
    \/ /\ s.previous # None /\ k = s.previous.key
       /\ s.expiry # None /\ t + Guarantee <= s.expiry
    \/ t + Guarantee <= n

\* Every loaded and cached active key is good for as long as it may sign.
Signers ==
    \A r \in Replicas :
        /\ pc[r]["refresh"] \in LoadingPCs =>
              Good(store, now, view[r].active.key,
                   started[r]["refresh"] + MaxOpTicks + CacheTtl)
        /\ cache[r] # None => Good(store, now, cache[r].active.key, cache[r].until)

DailyInv == /\ FirstRun /\ Booting /\ Numbering /\ Rotation /\ Overlap
            /\ Cleaning /\ Reading /\ Timing /\ Age /\ Signers

-----------------------------------------------------------------------------
(* The steps of this deployment, one field at a time.                      *)

LoaderKept(x) ==
    /\ pc'[x]["refresh"] = pc[x]["refresh"] /\ started'[x]["refresh"] = started[x]["refresh"]
    /\ view'[x] = view[x]
LoadersKept == \A x \in Replicas : LoaderKept(x)
RotatorKept == Phase' = Phase /\ Began' = Began /\ Job' = Job

StoreIs(a, c, p, e) ==
    store'.active = a /\ store'.created = c /\ store'.previous = p /\ store'.expiry = e

\* Of the loaders only x moves.
LoaderStep(x) ==
    /\ \A y \in Replicas : y # x => LoaderKept(y)
    /\ RotatorKept /\ UNCHANGED <<now, checked, minted, kidOf>>

BootReadStep(x) ==
    /\ LoaderStep(x) /\ UNCHANGED <<store, cache>>
    /\ store.active = None /\ pc[x]["refresh"] = "idle" /\ pc'[x]["refresh"] = "bootActive"
    /\ started'[x]["refresh"] = now

BootStep(x) ==
    /\ LoaderStep(x) /\ UNCHANGED cache /\ pc[x]["refresh"] \in BootPCs
    /\ pc'[x]["refresh"] \in (BootPCs \ {"bootActive"}) \cup {"reread"}
    /\ started'[x]["refresh"] = started[x]["refresh"]
    /\ \/ /\ pc[x]["refresh"] = "bootActive"
          /\ StoreIs(BootstrapKey, store.created, store.previous, store.expiry)
       \/ /\ pc[x]["refresh"] # "bootActive"
          /\ store'.active = store.active
          /\ store'.created \in {store.created, now}
          /\ store'.previous \in {store.previous, None} /\ store'.expiry \in {store.expiry, None}

LoadStep(x) ==
    /\ LoaderStep(x) /\ UNCHANGED <<store, cache>>
    /\ store.active # None
    /\ \/ pc[x]["refresh"] = "idle" /\ started'[x]["refresh"] = now
       \/ pc[x]["refresh"] = "reread" /\ started'[x]["refresh"] = started[x]["refresh"]
    /\ pc'[x]["refresh"] = IF PreviousExpired(store) THEN "cleanPrevious" ELSE "publish"
    /\ view'[x].active = ParseKidCipher(store) /\ view'[x].created = store.created
    /\ view'[x].previous \in {store.previous, None} /\ view'[x].expiry = store.expiry
    /\ PreviousLive(store) => view'[x].previous = store.previous

CleanStep(x) ==
    /\ LoaderStep(x) /\ UNCHANGED cache
    /\ started'[x]["refresh"] = started[x]["refresh"] /\ view'[x] = view[x]
    /\ \/ /\ pc[x]["refresh"] = "cleanPrevious" /\ pc'[x]["refresh"] = "cleanExpiry"
          /\ StoreIs(store.active, store.created, None, store.expiry)
       \/ /\ pc[x]["refresh"] = "cleanExpiry" /\ pc'[x]["refresh"] = "publish"
          /\ StoreIs(store.active, store.created, store.previous, None)

PublishStep(x) ==
    /\ LoaderStep(x) /\ UNCHANGED store
    /\ pc[x]["refresh"] = "publish" /\ pc'[x]["refresh"] = "idle"
    /\ \A y \in Replicas : y # x => cache'[y] = cache[y]
    /\ cache'[x].active = view[x].active /\ cache'[x].previous = view[x].previous
    /\ cache'[x].created = view[x].created /\ cache'[x].until = now + CacheTtl
    /\ cache'[x].expiry = view[x].expiry

CheckStep ==
    /\ LoadersKept /\ RotatorKept /\ UNCHANGED <<now, store, cache, minted, kidOf>>
    /\ ~ checked[TheRotator] /\ checked'[TheRotator] = TRUE /\ Phase = "idle"
    /\ \/ cache[TheRotator] # None /\ ~ RotationDue(TheRotator)
       \/ OverlapOpen(store)

StartStep ==
    /\ LoadersKept /\ UNCHANGED <<now, store, cache>>
    /\ ~ checked[TheRotator] /\ checked'[TheRotator] = TRUE
    /\ RotationDue(TheRotator) /\ minted < MaxMinted
    /\ ~ OverlapOpen(store) /\ store.active # None
    /\ Phase = "idle" /\ Phase' = "putPrevious" /\ Began' = now
    /\ minted' = minted + 1
    /\ kidOf' = [kidOf EXCEPT ![minted + 1] = ParseKidCipher(store).kid + 1]
    /\ Job'.old = ParseKidCipher(store)
    /\ Job'.new = [kid |-> ParseKidCipher(store).kid + 1, key |-> minted + 1]

PutStep ==
    /\ LoadersKept /\ Began' = Began /\ Job' = Job
    /\ UNCHANGED <<now, cache, checked, minted, kidOf>>
    /\ \/ /\ Phase = "putPrevious" /\ Phase' = "putExpiry"
          /\ StoreIs(store.active, store.created, Job.old, store.expiry)
       \/ /\ Phase = "putExpiry" /\ Phase' = "putKid"
          /\ StoreIs(store.active, store.created, store.previous, now + OverlapWindow)
       \/ /\ Phase = "putKid" /\ Phase' = "putCreated"
          /\ StoreIs(store.active, store.created, store.previous, store.expiry)
       \/ /\ Phase = "putCreated" /\ Phase' = "putActive"
          /\ StoreIs(store.active, now, store.previous, store.expiry)
       \/ /\ Phase = "putActive" /\ Phase' = "forget"
          /\ StoreIs(Job.new, store.created, store.previous, store.expiry)

ForgetStep ==
    /\ LoadersKept /\ CachesKept /\ UNCHANGED <<now, store, checked, minted, kidOf>>
    /\ Phase = "forget" /\ Phase' = "idle"

TickStep ==
    /\ LoadersKept /\ RotatorKept /\ CachesKept /\ UNCHANGED <<store, minted, kidOf>>
    /\ now' = now + 1
    /\ checked'[TheRotator] = ((now + 1) % CheckInterval # 0)
    /\ TimerDue => checked[TheRotator] \/ Phase # "idle" \/ minted = MaxMinted

QuietStep ==
    LoadersKept /\ RotatorKept /\ UNCHANGED <<now, store, cache, checked, minted, kidOf>>

DailyStep ==
    \/ \E x \in Replicas : \/ BootReadStep(x) \/ BootStep(x) \/ LoadStep(x) \/ CleanStep(x)
                           \/ PublishStep(x)
    \/ CheckStep \/ StartStep \/ PutStep \/ ForgetStep \/ TickStep \/ QuietStep

LEMMA RotatorFacts ==
    ASSUME OrderlySchedule
    PROVE  /\ TheRotator \in Replicas /\ Rotators = {TheRotator}
           /\ CacheTtl + 2 * MaxOpTicks <= OverlapWindow
           /\ OverlapWindow + Skew + CacheTtl + 2 * MaxOpTicks + CheckInterval <= RotationDuration
           /\ CheckInterval \in Nat /\ CheckInterval > 0 /\ RotationDuration \in Nat
           /\ \A kind : ~ Fault(kind)
BY TimeAssumption DEF OrderlySchedule, TheRotator, Fault

\* One thread has moved.
Moved(r, t, q) ==
    /\ pc'[r][t] = q
    /\ \A y \in Replicas, u \in Threads : y # r \/ u # t => pc'[y][u] = pc[y][u]

LEMMA GotoMoves ==
    ASSUME TypeInv, NEW r \in Replicas, NEW t \in Threads, NEW q, Goto(r, t, q)
    PROVE  Moved(r, t, q)
BY UpdateOne DEF Goto, Moved, TypeInv, TypeOK

LEMMA WriteStep ==
    ASSUME OrderlySchedule, TypeInv, NEW r \in Replicas, NEW t \in Threads, NEW p, NEW s, NEW q,
           Write(r, t, p, s, q)
    PROVE  /\ pc[r][t] = p /\ Moved(r, t, q) /\ store' = s
           /\ UNCHANGED <<started, view, job, now, cache, checked, minted, kidOf>>
<1>1. /\ pc[r][t] = p /\ Goto(r, t, q) /\ store' = s
      /\ UNCHANGED <<started, view, job, now, cache, checked, minted, kidOf>>
  BY RotatorFacts DEF Write, Applied
<1>. QED
  BY <1>1, GotoMoves

\* A step of a loader does nothing to the rotator.
LEMMA MovedLoader ==
    ASSUME OrderlySchedule, NEW x \in Replicas, NEW q, Moved(x, "refresh", q)
    PROVE  /\ \A r \in Replicas : pc'[r]["rotate"] = pc[r]["rotate"]
           /\ Phase' = Phase
           /\ \A y \in Replicas : y # x => pc'[y]["refresh"] = pc[y]["refresh"]
           /\ pc'[x]["refresh"] = q
BY RotatorFacts, ThreadFacts DEF Moved, Phase

LEMMA MovedRotator ==
    ASSUME OrderlySchedule, NEW q, Moved(TheRotator, "rotate", q)
    PROVE  /\ \A r \in Replicas : r # TheRotator => pc'[r]["rotate"] = pc[r]["rotate"]
           /\ \A r \in Replicas : pc'[r]["refresh"] = pc[r]["refresh"]
           /\ Phase' = q
BY RotatorFacts, ThreadFacts DEF Moved, Phase

\* The fields of a store after a write to one of them.
LEMMA StoreSets ==
    ASSUME TypeInv, NEW x
    PROVE  /\ store' = [store EXCEPT !.active = x] =>
                 StoreIs(x, store.created, store.previous, store.expiry)
           /\ store' = [store EXCEPT !.activeKid = x] =>
                 StoreIs(store.active, store.created, store.previous, store.expiry)
           /\ store' = [store EXCEPT !.created = x] =>
                 StoreIs(store.active, x, store.previous, store.expiry)
           /\ store' = [store EXCEPT !.previous = x] =>
                 StoreIs(store.active, store.created, x, store.expiry)
           /\ store' = [store EXCEPT !.expiry = x] =>
                 StoreIs(store.active, store.created, store.previous, x)
BY DEF StoreIs, TypeInv, TypeOK, Values

OnlyRotator == \A r \in Replicas : r # TheRotator => pc'[r]["rotate"] = "idle"

LEMMA BootstrapDaily ==
    ASSUME OrderlySchedule, TypeInv, FirstRun, NEW r \in Replicas, NEW t \in Threads,
           Bootstrap(r, t)
    PROVE  OnlyRotator /\ t = "refresh" /\ BootStep(r)
<1>1. PICK p, s, q :
        /\ p \in BootPCs /\ Write(r, t, p, s, q)
        /\ t = "refresh" => q \in (BootPCs \ {"bootActive"}) \cup {"reread"}
        /\ \/ p = "bootActive" /\ s = [store EXCEPT !.active = BootstrapKey]
           \/ /\ p # "bootActive"
              /\ \/ s = [store EXCEPT !.activeKid = 1] \/ s = [store EXCEPT !.created = now]
                 \/ s = [store EXCEPT !.previous = None] \/ s = [store EXCEPT !.expiry = None]
  <2>1. CASE Write(r, t, "bootActive", [store EXCEPT !.active = BootstrapKey], "bootKid")
    BY <2>1 DEF BootPCs
  <2>2. CASE Write(r, t, "bootKid", [store EXCEPT !.activeKid = 1], "bootCreated")
    BY <2>2 DEF BootPCs
  <2>3. CASE Write(r, t, "bootCreated", [store EXCEPT !.created = now], "bootPrevious")
    BY <2>3 DEF BootPCs
  <2>4. CASE Write(r, t, "bootPrevious", [store EXCEPT !.previous = None], "bootExpiry")
    BY <2>4 DEF BootPCs
  <2>5. CASE Write(r, t, "bootExpiry", [store EXCEPT !.expiry = None],
                   IF t = "refresh" THEN "reread" ELSE "forget")
    BY <2>5 DEF BootPCs
  <2>. QED
    BY <2>1, <2>2, <2>3, <2>4, <2>5 DEF Bootstrap
<1>2. /\ pc[r][t] = p /\ Moved(r, t, q) /\ store' = s
      /\ UNCHANGED <<started, view, job, now, cache, checked, minted, kidOf>>
  BY <1>1, WriteStep
<1>3. pc[r]["rotate"] \notin BootPCs
  BY RotatorFacts DEF FirstRun, BootPCs, RotatingPCs, Phase
<1>4. t = "refresh"
  BY <1>1, <1>2, <1>3 DEF Threads
<1>5. /\ \A x \in Replicas : pc'[x]["rotate"] = pc[x]["rotate"]
      /\ Phase' = Phase
      /\ \A y \in Replicas : y # r => pc'[y]["refresh"] = pc[y]["refresh"]
      /\ pc'[r]["refresh"] = q
  BY <1>2, <1>4, MovedLoader
<1>6. OnlyRotator
  BY <1>5 DEF OnlyRotator, FirstRun
<1>7. LoaderStep(r)
  BY <1>2, <1>5 DEF LoaderStep, LoaderKept, RotatorKept, Began, Job
<1>8. \/ p = "bootActive" /\ StoreIs(BootstrapKey, store.created, store.previous, store.expiry)
      \/ /\ p # "bootActive"
         /\ \/ StoreIs(store.active, store.created, store.previous, store.expiry)
            \/ StoreIs(store.active, now, store.previous, store.expiry)
            \/ StoreIs(store.active, store.created, None, store.expiry)
            \/ StoreIs(store.active, store.created, store.previous, None)
  BY <1>1, <1>2, StoreSets
<1>9. \/ p = "bootActive" /\ StoreIs(BootstrapKey, store.created, store.previous, store.expiry)
      \/ /\ p # "bootActive"
         /\ store'.active = store.active
         /\ store'.created \in {store.created, now}
         /\ store'.previous \in {store.previous, None} /\ store'.expiry \in {store.expiry, None}
  BY <1>8 DEF StoreIs
<1>. QED
  BY <1>1, <1>2, <1>4, <1>5, <1>6, <1>7, <1>9 DEF BootStep

LEMMA CleanUpDaily ==
    ASSUME OrderlySchedule, TypeInv, FirstRun, NEW r \in Replicas, CleanUp(r)
    PROVE  OnlyRotator /\ CleanStep(r)
<1>1. PICK p, s, q :
        /\ Write(r, "refresh", p, s, q)
        /\ \/ /\ p = "cleanPrevious" /\ q = "cleanExpiry"
              /\ s = [store EXCEPT !.previous = None]
           \/ p = "cleanExpiry" /\ q = "publish" /\ s = [store EXCEPT !.expiry = None]
  BY DEF CleanUp
<1>2. /\ pc[r]["refresh"] = p /\ Moved(r, "refresh", q) /\ store' = s
      /\ UNCHANGED <<started, view, job, now, cache, checked, minted, kidOf>>
  BY <1>1, WriteStep, ThreadFacts
<1>3. /\ \A x \in Replicas : pc'[x]["rotate"] = pc[x]["rotate"]
      /\ Phase' = Phase
      /\ \A y \in Replicas : y # r => pc'[y]["refresh"] = pc[y]["refresh"]
      /\ pc'[r]["refresh"] = q
  BY <1>2, MovedLoader
<1>4. OnlyRotator
  BY <1>3 DEF OnlyRotator, FirstRun
<1>5. LoaderStep(r)
  BY <1>2, <1>3 DEF LoaderStep, LoaderKept, RotatorKept, Began, Job
<1>6. \/ p = "cleanPrevious" /\ StoreIs(store.active, store.created, None, store.expiry)
      \/ p = "cleanExpiry" /\ StoreIs(store.active, store.created, store.previous, None)
  BY <1>1, <1>2, StoreSets
<1>. QED
  BY <1>1, <1>2, <1>3, <1>4, <1>5, <1>6 DEF CleanStep

LEMMA RotateWriteDaily ==
    ASSUME OrderlySchedule, TypeInv, FirstRun, NEW r \in Replicas, RotateWrite(r)
    PROVE  OnlyRotator /\ r = TheRotator /\ PutStep
<1>1. PICK p, s, q :
        /\ p \in RotatingPCs /\ Write(r, "rotate", p, s, q)
        /\ \/ /\ p = "putPrevious" /\ q = "putExpiry"
              /\ s = [store EXCEPT !.previous = job[r].old]
           \/ /\ p = "putExpiry" /\ q = "putKid"
              /\ s = [store EXCEPT !.expiry = now + OverlapWindow]
           \/ /\ p = "putKid" /\ q = "putCreated"
              /\ s = [store EXCEPT !.activeKid = job[r].new.kid]
           \/ /\ p = "putCreated" /\ q = "putActive"
              /\ s = [store EXCEPT !.created = now]
           \/ /\ p = "putActive" /\ q = "forget"
              /\ s = [store EXCEPT !.active = job[r].new]
  BY DEF RotateWrite, RotatingPCs
<1>2. /\ pc[r]["rotate"] = p /\ Moved(r, "rotate", q) /\ store' = s
      /\ UNCHANGED <<started, view, job, now, cache, checked, minted, kidOf>>
  BY <1>1, WriteStep, ThreadFacts
<1>3. r = TheRotator
  BY <1>1, <1>2 DEF FirstRun, RotatingPCs
<1>4. /\ \A x \in Replicas : x # TheRotator => pc'[x]["rotate"] = pc[x]["rotate"]
      /\ \A x \in Replicas : pc'[x]["refresh"] = pc[x]["refresh"]
      /\ Phase' = q /\ Phase = p
  BY <1>2, <1>3, MovedRotator DEF Phase
<1>5. OnlyRotator
  BY <1>4 DEF OnlyRotator, FirstRun
<1>6. /\ LoadersKept /\ Began' = Began /\ Job' = Job
      /\ UNCHANGED <<now, cache, checked, minted, kidOf>>
  BY <1>2, <1>4 DEF LoadersKept, LoaderKept, Began, Job
<1>7. \/ /\ p = "putPrevious" /\ q = "putExpiry"
         /\ StoreIs(store.active, store.created, Job.old, store.expiry)
      \/ /\ p = "putExpiry" /\ q = "putKid"
         /\ StoreIs(store.active, store.created, store.previous, now + OverlapWindow)
      \/ /\ p = "putKid" /\ q = "putCreated"
         /\ StoreIs(store.active, store.created, store.previous, store.expiry)
      \/ /\ p = "putCreated" /\ q = "putActive"
         /\ StoreIs(store.active, now, store.previous, store.expiry)
      \/ /\ p = "putActive" /\ q = "forget"
         /\ StoreIs(Job.new, store.created, store.previous, store.expiry)
  BY <1>1, <1>2, <1>3, StoreSets DEF Job
<1>. QED
  BY <1>3, <1>4, <1>5, <1>6, <1>7 DEF PutStep

\* Both reads of a refresh, when they find an active key.
LEMMA ProceedDaily ==
    ASSUME OrderlySchedule, TypeInv, FirstRun, NEW r \in Replicas,
           Proceed(r, store), store.active # None, UNCHANGED <<now, store, cache, job, checked, minted, kidOf>>,
           \/ pc[r]["refresh"] = "idle" /\ started' = [started EXCEPT ![r]["refresh"] = now]
           \/ pc[r]["refresh"] = "reread" /\ started' = started
    PROVE  OnlyRotator /\ LoadStep(r)
<1>1. Moved(r, "refresh", IF PreviousExpired(store) THEN "cleanPrevious" ELSE "publish")
  BY GotoMoves, ThreadFacts DEF Proceed
<1>2. /\ \A x \in Replicas : pc'[x]["rotate"] = pc[x]["rotate"]
      /\ Phase' = Phase
      /\ \A y \in Replicas : y # r => pc'[y]["refresh"] = pc[y]["refresh"]
      /\ pc'[r]["refresh"] = IF PreviousExpired(store) THEN "cleanPrevious" ELSE "publish"
  BY <1>1, MovedLoader
<1>3. /\ \A x \in Replicas : started'[x]["rotate"] = started[x]["rotate"]
      /\ \A y \in Replicas : y # r => started'[y]["refresh"] = started[y]["refresh"]
      /\ \/ pc[r]["refresh"] = "idle" /\ started'[r]["refresh"] = now
         \/ pc[r]["refresh"] = "reread" /\ started'[r]["refresh"] = started[r]["refresh"]
  BY UpdateOne, ThreadFacts DEF TypeInv, TypeOK
<1>4. /\ view'[r] = Loaded(store)
      /\ \A y \in Replicas : y # r => view'[y] = view[y]
  BY DEF Proceed, TypeInv, TypeOK
<1>5. /\ view'[r].active = ParseKidCipher(store) /\ view'[r].created = store.created
      /\ view'[r].previous \in {store.previous, None} /\ view'[r].expiry = store.expiry
      /\ PreviousLive(store) => view'[r].previous = store.previous
  BY <1>4 DEF Loaded, NoValues
<1>6. OnlyRotator
  BY <1>2 DEF OnlyRotator, FirstRun
<1>7. LoaderStep(r)
  BY <1>2, <1>3, <1>4, RotatorFacts DEF LoaderStep, LoaderKept, RotatorKept, Began, Job
<1>. QED
  BY <1>2, <1>3, <1>5, <1>6, <1>7 DEF LoadStep

LEMMA ReceiveDaily ==
    ASSUME OrderlySchedule, NEW v, Receive(v)
    PROVE  v = store
BY RotatorFacts DEF Receive

LEMMA RefreshReadDaily ==
    ASSUME OrderlySchedule, TypeInv, FirstRun, NEW r \in Replicas, RefreshRead(r)
    PROVE  OnlyRotator /\ (BootReadStep(r) \/ LoadStep(r))
<1>1. /\ pc[r]["refresh"] = "idle" /\ started' = [started EXCEPT ![r]["refresh"] = now]
      /\ \/ store.active = None /\ Goto(r, "refresh", "bootActive") /\ UNCHANGED view
         \/ store.active # None /\ Proceed(r, store)
      /\ UNCHANGED <<now, store, cache, job, checked, minted, kidOf>>
  BY ReceiveDaily DEF RefreshRead, Idle
<1>2. CASE store.active # None
  BY <1>1, <1>2, ProceedDaily
<1>3. CASE store.active = None
  <2>1. Moved(r, "refresh", "bootActive") /\ UNCHANGED view
    BY <1>1, <1>3, GotoMoves, ThreadFacts
  <2>2. /\ \A x \in Replicas : pc'[x]["rotate"] = pc[x]["rotate"]
        /\ Phase' = Phase
        /\ \A y \in Replicas : y # r => pc'[y]["refresh"] = pc[y]["refresh"]
        /\ pc'[r]["refresh"] = "bootActive"
    BY <2>1, MovedLoader
  <2>3. /\ \A x \in Replicas : started'[x]["rotate"] = started[x]["rotate"]
        /\ \A y \in Replicas : y # r => started'[y]["refresh"] = started[y]["refresh"]
        /\ started'[r]["refresh"] = now
    BY <1>1, UpdateOne, ThreadFacts DEF TypeInv, TypeOK
  <2>4. OnlyRotator
    BY <2>2 DEF OnlyRotator, FirstRun
  <2>5. LoaderStep(r)
    BY <1>1, <2>1, <2>2, <2>3, RotatorFacts DEF LoaderStep, LoaderKept, RotatorKept, Began, Job
  <2>. QED
    BY <1>1, <1>3, <2>2, <2>3, <2>4, <2>5 DEF BootReadStep
<1>. QED
  BY <1>2, <1>3

LEMMA RefreshRereadDaily ==
    ASSUME OrderlySchedule, TypeInv, FirstRun, NEW r \in Replicas, RefreshReread(r)
    PROVE  OnlyRotator /\ LoadStep(r)
<1>1. pc[r]["refresh"] = "reread" /\ store.active # None
  BY DEF RefreshReread, FirstRun
<1>2. /\ Proceed(r, store) /\ UNCHANGED <<started, job>>
      /\ UNCHANGED <<now, store, cache, checked, minted, kidOf>>
  BY <1>1, ReceiveDaily, RotatorFacts DEF RefreshReread
<1>. QED
  BY <1>1, <1>2, ProceedDaily

LEMMA RefreshPublishDaily ==
    ASSUME OrderlySchedule, TypeInv, FirstRun, NEW r \in Replicas, RefreshPublish(r)
    PROVE  OnlyRotator /\ PublishStep(r)
<1>1. /\ pc[r]["refresh"] = "publish" /\ Moved(r, "refresh", "idle")
      /\ started' = [started EXCEPT ![r]["refresh"] = 0] /\ view' = [view EXCEPT ![r] = NoValues]
      /\ job' = job /\ UNCHANGED <<now, store, checked, minted, kidOf>>
  BY GotoMoves, ThreadFacts DEF RefreshPublish, Finish
<1>2. /\ \A x \in Replicas : pc'[x]["rotate"] = pc[x]["rotate"]
      /\ Phase' = Phase
      /\ \A y \in Replicas : y # r => pc'[y]["refresh"] = pc[y]["refresh"]
      /\ pc'[r]["refresh"] = "idle"
  BY <1>1, MovedLoader
<1>3. /\ \A x \in Replicas : started'[x]["rotate"] = started[x]["rotate"]
      /\ \A y \in Replicas : y # r => /\ started'[y]["refresh"] = started[y]["refresh"]
                                      /\ view'[y] = view[y]
  BY <1>1, UpdateOne, ThreadFacts DEF TypeInv, TypeOK
<1>4. /\ \A y \in Replicas : y # r => cache'[y] = cache[y]
      /\ cache'[r].active = view[r].active /\ cache'[r].previous = view[r].previous
      /\ cache'[r].created = view[r].created /\ cache'[r].until = now + CacheTtl
      /\ cache'[r].expiry = view[r].expiry
  BY DEF RefreshPublish, TypeInv, TypeOK
<1>5. OnlyRotator
  BY <1>2 DEF OnlyRotator, FirstRun
<1>6. LoaderStep(r)
  BY <1>1, <1>2, <1>3, RotatorFacts DEF LoaderStep, LoaderKept, RotatorKept, Began, Job
<1>. QED
  BY <1>1, <1>2, <1>4, <1>5, <1>6 DEF PublishStep

LEMMA RotationNotDueDaily ==
    ASSUME OrderlySchedule, TypeInv, FirstRun, NEW r \in Replicas, RotationNotDue(r)
    PROVE  OnlyRotator /\ CheckStep
<1>1. /\ r = TheRotator /\ pc[r]["rotate"] = "idle" /\ ~ checked[r]
      /\ cache[r] # None /\ ~ RotationDue(r)
      /\ checked' = [checked EXCEPT ![r] = TRUE]
      /\ UNCHANGED <<now, store, cache, pc, view, job, started, minted, kidOf>>
  BY RotatorFacts DEF RotationNotDue, Idle
<1>2. checked'[TheRotator] = TRUE
  BY <1>1 DEF TypeInv, TypeOK
<1>. QED
  BY <1>1, <1>2 DEF CheckStep, LoadersKept, LoaderKept, RotatorKept, Phase, Began, Job,
                    OnlyRotator, FirstRun

LEMMA RotateReadDaily ==
    ASSUME OrderlySchedule, TypeInv, FirstRun, NEW r \in Replicas, RotateRead(r)
    PROVE  OnlyRotator /\ (CheckStep \/ StartStep)
<1>1. /\ r = TheRotator /\ pc[r]["rotate"] = "idle" /\ ~ checked[r] /\ RotationDue(r)
      /\ minted < MaxMinted /\ checked' = [checked EXCEPT ![r] = TRUE]
      /\ UNCHANGED <<now, store, cache, view>>
      /\ \/ OverlapOpen(store) /\ UNCHANGED <<pc, started, job, minted, kidOf>>
         \/ ~ OverlapOpen(store) /\ store.active = None
         \/ /\ ~ OverlapOpen(store) /\ store.active # None
            /\ Begin(r, "rotate", "putPrevious") /\ Mint(r, ParseKidCipher(store))
  BY ReceiveDaily, RotatorFacts DEF RotateRead, Idle
<1>2. store.active # None
  BY <1>1 DEF FirstRun, RotationDue
<1>3. checked'[TheRotator] = TRUE
  BY <1>1 DEF TypeInv, TypeOK
<1>4. CASE OverlapOpen(store) /\ UNCHANGED <<pc, started, job, minted, kidOf>>
  BY <1>1, <1>3, <1>4 DEF CheckStep, LoadersKept, LoaderKept, RotatorKept, Phase, Began, Job,
                          OnlyRotator, FirstRun
<1>5. CASE /\ ~ OverlapOpen(store)
           /\ Begin(r, "rotate", "putPrevious") /\ Mint(r, ParseKidCipher(store))
  <2>1. /\ Moved(TheRotator, "rotate", "putPrevious")
        /\ started' = [started EXCEPT ![r]["rotate"] = now]
    BY <1>1, <1>5, GotoMoves, ThreadFacts DEF Begin
  <2>2. /\ \A x \in Replicas : x # TheRotator => pc'[x]["rotate"] = pc[x]["rotate"]
        /\ \A x \in Replicas : pc'[x]["refresh"] = pc[x]["refresh"]
        /\ Phase' = "putPrevious"
    BY <2>1, MovedRotator
  <2>3. /\ \A x \in Replicas : started'[x]["refresh"] = started[x]["refresh"]
        /\ Began' = now
    BY <1>1, <2>1, UpdateOne, ThreadFacts DEF TypeInv, TypeOK, Began
  <2>4. /\ minted' = minted + 1
        /\ kidOf' = [kidOf EXCEPT ![minted + 1] = ParseKidCipher(store).kid + 1]
        /\ Job' = [old |-> ParseKidCipher(store),
                   new |-> [kid |-> ParseKidCipher(store).kid + 1, key |-> minted + 1]]
    BY <1>1, <1>5 DEF Mint, Job, TypeInv, TypeOK
  <2>5. OnlyRotator
    BY <2>2 DEF OnlyRotator, FirstRun
  <2>6. LoadersKept
    BY <1>1, <2>2, <2>3 DEF LoadersKept, LoaderKept
  <2>7. Job'.old = ParseKidCipher(store)
        /\ Job'.new = [kid |-> ParseKidCipher(store).kid + 1, key |-> minted + 1]
    BY <2>4
  <2>. QED
    BY <1>1, <1>2, <1>3, <1>5, <2>2, <2>3, <2>4, <2>5, <2>6, <2>7 DEF StartStep, Phase
<1>. QED
  BY <1>1, <1>2, <1>4, <1>5

LEMMA RotateForgetDaily ==
    ASSUME OrderlySchedule, TypeInv, FirstRun, NEW r \in Replicas, RotateForget(r)
    PROVE  OnlyRotator /\ ForgetStep
<1>1. /\ pc[r]["rotate"] = "forget" /\ Moved(r, "rotate", "idle")
      /\ started' = [started EXCEPT ![r]["rotate"] = 0] /\ view' = view
      /\ cache' = [cache EXCEPT ![r] = None] /\ UNCHANGED <<now, store, checked, minted, kidOf>>
  BY GotoMoves, ThreadFacts DEF RotateForget, Finish
<1>2. r = TheRotator
  BY <1>1 DEF FirstRun
<1>3. /\ \A x \in Replicas : x # TheRotator => pc'[x]["rotate"] = pc[x]["rotate"]
      /\ \A x \in Replicas : pc'[x]["refresh"] = pc[x]["refresh"]
      /\ Phase' = "idle"
  BY <1>1, <1>2, MovedRotator
<1>4. /\ \A x \in Replicas : started'[x]["refresh"] = started[x]["refresh"]
      /\ CachesKept
  BY <1>1, UpdateOne, ThreadFacts DEF TypeInv, TypeOK, CachesKept
<1>5. OnlyRotator
  BY <1>3 DEF OnlyRotator, FirstRun
<1>. QED
  BY <1>1, <1>2, <1>3, <1>4, <1>5 DEF ForgetStep, LoadersKept, LoaderKept, Phase

LEMMA TickDaily ==
    ASSUME OrderlySchedule, TypeInv, FirstRun, Tick
    PROVE  OnlyRotator /\ TickStep
<1>1. /\ UNCHANGED <<store, pc, view, job, started, minted, kidOf>> /\ now' = now + 1
      /\ checked'[TheRotator] = ((now + 1) % CheckInterval # 0)
      /\ TimerDue => checked[TheRotator] \/ Phase # "idle" \/ minted = MaxMinted
  BY RotatorFacts DEF Tick, Idle, Phase
<1>2. CachesKept
  BY DEF Tick, CachesKept
<1>. QED
  BY <1>1, <1>2 DEF TickStep, LoadersKept, LoaderKept, RotatorKept, Phase, Began, Job,
                    OnlyRotator, FirstRun

LEMMA NextDaily ==
    ASSUME OrderlySchedule, TypeInv, FirstRun, [Next]_vars
    PROVE  OnlyRotator /\ DailyStep
<1>1. ASSUME NEW r \in Replicas, Refresh(r)
      PROVE  OnlyRotator /\ DailyStep
  BY <1>1, RefreshReadDaily, RefreshRereadDaily, CleanUpDaily, RefreshPublishDaily
     DEF Refresh, DailyStep
<1>2. ASSUME NEW r \in Replicas, Rotate(r)
      PROVE  OnlyRotator /\ DailyStep
  BY <1>2, RotationNotDueDaily, RotateReadDaily, RotateWriteDaily, RotateForgetDaily
     DEF Rotate, DailyStep
<1>3. ASSUME NEW r \in Replicas, NEW t \in Threads, Bootstrap(r, t)
      PROVE  OnlyRotator /\ DailyStep
  BY <1>3, BootstrapDaily DEF DailyStep
<1>4. CASE Tick
  BY <1>4, TickDaily DEF DailyStep
<1>5. CASE UNCHANGED vars
  <2>1. UNCHANGED <<now, store, cache, pc, view, job, started, checked, minted, kidOf>>
    BY <1>5 DEF vars
  <2>. QED
    BY <2>1 DEF DailyStep, QuietStep, LoadersKept, LoaderKept, RotatorKept, Phase, Began, Job,
                OnlyRotator, FirstRun
<1>6. ~ \E r \in Replicas : Crash(r)
  BY RotatorFacts DEF Crash
<1>. QED
  BY <1>1, <1>2, <1>3, <1>4, <1>5, <1>6 DEF Next

-----------------------------------------------------------------------------
(* Remainders, for the timer.                                              *)

LEMMA Multiple ==
    ASSUME NEW c \in Nat \ {0}, NEW p \in Int, NEW q \in Int, c * p < c * q + c
    PROVE  p <= q
<1>1. SUFFICES ASSUME p >= q + 1 PROVE FALSE
  OBVIOUS
<1>2. c * p >= c * (q + 1)
  BY <1>1
<1>3. c * (q + 1) = c * q + c
  OBVIOUS
<1>. QED
  BY <1>2, <1>3

\* A number has one remainder.
LEMMA OneRemainder ==
    ASSUME NEW c \in Nat \ {0}, NEW p \in Int, NEW q \in Int,
           NEW a \in 0 .. c - 1, NEW b \in 0 .. c - 1, c * p + a = c * q + b
    PROVE  a = b
<1>1. c * p \in Int /\ c * q \in Int
  OBVIOUS
<1>2. c * p < c * q + c /\ c * q < c * p + c
  BY <1>1
<1>3. p = q
  BY <1>2, Multiple
<1>. QED
  BY <1>1, <1>3

LEMMA Divided ==
    ASSUME NEW n \in Nat, NEW c \in Nat \ {0}
    PROVE  n = c * (n \div c) + (n % c) /\ n \div c \in Nat /\ n % c \in 0 .. c - 1
OBVIOUS

LEMMA NextRemainder ==
    ASSUME NEW n \in Nat, NEW c \in Nat \ {0}
    PROVE  (n + 1) % c = IF n % c = c - 1 THEN 0 ELSE (n % c) + 1
<1>1. n = c * (n \div c) + (n % c) /\ n \div c \in Nat /\ n % c \in 0 .. c - 1
  BY Divided
<1>2. n + 1 \in Nat
  OBVIOUS
<1>3. /\ n + 1 = c * ((n + 1) \div c) + ((n + 1) % c)
      /\ (n + 1) \div c \in Nat /\ (n + 1) % c \in 0 .. c - 1
  BY <1>2, Divided
<1>. DEFINE k == n \div c
            m == n % c
            y == (n + 1) \div c
            x == (n + 1) % c
<1>4. n = c * k + m /\ n + 1 = c * y + x /\ m \in 0 .. c - 1 /\ x \in 0 .. c - 1
      /\ k \in Int /\ y \in Int
  BY <1>1, <1>3
<1>. HIDE DEF k, m, x, y
<1>5. c * k \in Int /\ c * y \in Int /\ c * (k + 1) = c * k + c
  BY <1>4
<1>6. CASE m = c - 1
  <2>1. c * y + x = c * (k + 1) + 0 /\ 0 \in 0 .. c - 1
    BY <1>4, <1>5, <1>6
  <2>2. x = 0
    BY <1>4, <2>1, OneRemainder
  <2>. QED
    BY <1>6, <2>2 DEF x, m
<1>7. CASE m # c - 1
  <2>1. c * y + x = c * k + (m + 1) /\ m + 1 \in 0 .. c - 1
    BY <1>4, <1>5, <1>7
  <2>2. x = m + 1
    BY <1>4, <2>1, OneRemainder
  <2>. QED
    BY <1>7, <2>2 DEF x, m
<1>. QED
  BY <1>6, <1>7

-----------------------------------------------------------------------------
(* What the types and the clock say of a state, and a rotation's start.    *)

Facts ==
    /\ now \in Nat /\ minted \in Nat /\ minted <= MaxMinted
    /\ Handled \in Int /\ Handled <= now
    /\ store.active \in Raw \cup {None} /\ store.previous \in Pair \cup {None}
    /\ store.created \in Times /\ store.expiry \in Times
    /\ Began \in Nat /\ Job.old \in Pair /\ Job.new \in Pair
    /\ Phase # "idle" => Began <= now /\ now <= Began + MaxOpTicks
    /\ \A x \in Replicas :
          /\ started[x]["refresh"] \in Nat
          /\ view[x].created \in Times /\ view[x].previous \in Pair \cup {None}
          /\ pc[x]["refresh"] # "idle" =>
                started[x]["refresh"] <= now /\ now <= started[x]["refresh"] + MaxOpTicks
          /\ pc[x]["refresh"] \in LoadingPCs => view[x].active \in Pair
          /\ cache[x] # None =>
                /\ cache[x].until \in Nat /\ now < cache[x].until
                /\ cache[x].until <= now + CacheTtl
                /\ cache[x].created \in Times
                /\ cache[x].active \in Pair /\ cache[x].previous \in Pair \cup {None}

\* The constants of the deployment, for the steps below.
LEMMA Schedule ==
    ASSUME OrderlySchedule
    PROVE  /\ TheRotator \in Replicas
           /\ MaxOpTicks \in Nat /\ CacheTtl \in Nat /\ OverlapWindow \in Nat /\ Skew \in Nat
           /\ CheckInterval \in Nat /\ RotationDuration \in Nat /\ MaxMinted \in Nat
           /\ CacheTtl > 0 /\ CheckInterval > 0 /\ CheckInterval \in Nat \ {0}
           /\ CacheTtl + 2 * MaxOpTicks <= OverlapWindow
           /\ OverlapWindow + Skew + CacheTtl + 2 * MaxOpTicks + CheckInterval <= RotationDuration
           /\ None \notin Nat
BY RotatorFacts, ThreadFacts, NoneAssumption, BoundAssumption

LEMMA FactsHold ==
    ASSUME OrderlySchedule, TypeInv, SinceInv
    PROVE  Facts
<1>. USE RotatorFacts, ThreadFacts
<1>1. /\ now \in Nat /\ minted \in Nat /\ minted <= MaxMinted
      /\ store.active \in Raw \cup {None} /\ store.previous \in Pair \cup {None}
      /\ store.created \in Times /\ store.expiry \in Times
      /\ Began \in Nat /\ Job \in [old : Pair, new : Pair]
  BY BoundAssumption DEF TypeInv, TypeOK, Values, Keys, Began, Job
<1>2. Phase # "idle" => Began <= now /\ now <= Began + MaxOpTicks
  BY DEF SinceInv, ClockInv, Phase, Began
<1>3. ASSUME NEW x \in Replicas
      PROVE  /\ started[x]["refresh"] \in Nat
             /\ view[x].created \in Times /\ view[x].previous \in Pair \cup {None}
             /\ pc[x]["refresh"] # "idle" =>
                  started[x]["refresh"] <= now /\ now <= started[x]["refresh"] + MaxOpTicks
             /\ pc[x]["refresh"] \in LoadingPCs => view[x].active \in Pair
             /\ cache[x] # None =>
                   /\ cache[x].until \in Nat /\ now < cache[x].until
                   /\ cache[x].until <= now + CacheTtl
                   /\ cache[x].created \in Times
                   /\ cache[x].active \in Pair /\ cache[x].previous \in Pair \cup {None}
  <2>1. view[x] \in Values /\ cache[x] \in KeyState \cup {None} /\ started[x]["refresh"] \in Nat
    BY DEF TypeInv, TypeOK
  <2>2. view[x].created \in Times /\ view[x].previous \in Pair \cup {None}
    BY <2>1 DEF Values
  <2>3. cache[x] # None => /\ cache[x].until \in Nat /\ cache[x].created \in Times
                           /\ cache[x].active \in Pair /\ cache[x].previous \in Pair \cup {None}
    BY <2>1 DEF KeyState
  <2>4. pc[x]["refresh"] \in LoadingPCs => view[x].active \in Pair
    BY DEF TypeInv, ViewReady, LoadingPCs
  <2>5. /\ pc[x]["refresh"] # "idle" =>
             started[x]["refresh"] <= now /\ now <= started[x]["refresh"] + MaxOpTicks
        /\ cache[x] # None => now < cache[x].until /\ cache[x].until <= now + CacheTtl
    BY DEF SinceInv, ClockInv, CacheSince
  <2>. QED
    BY <2>1, <2>2, <2>3, <2>4, <2>5
<1>4. Job.old \in Pair /\ Job.new \in Pair
  BY <1>1
<1>5. Handled \in Int /\ Handled <= now
  <2>1. now % CheckInterval \in 0 .. CheckInterval - 1
    BY <1>1, Schedule, Divided
  <2>. QED
    BY <1>1, <2>1 DEF Handled
<1>. QED
  BY <1>1, <1>2, <1>3, <1>4, <1>5 DEF Facts

\* The stored active key, when it is numbered, is what a reader makes of it.
LEMMA ParsedActive ==
    ASSUME OrderlySchedule, Facts, Numbering, store.active # None
    PROVE  /\ ParseKidCipher(store) = store.active
           /\ store.active.kid = store.active.key + 1 /\ store.active.key \in Nat
           /\ store.active.key <= minted
<1>1. /\ store.active \in Raw /\ store.active.kid = store.active.key + 1
      /\ store.active.key <= minted
  BY DEF Facts, Numbering, Numbered
<1>2. store.active.key \in Nat /\ store.active.kid # None
  BY <1>1, Schedule DEF Raw, Keys
<1>3. ParseKidCipher(store) = [kid |-> store.active.kid, key |-> store.active.key]
  BY <1>2 DEF ParseKidCipher
<1>. QED
  BY <1>1, <1>2, <1>3 DEF Raw

\* While a previous key of the last rotation is stored, a cached creation time that is
\* not the stored one means that the overlap window is still open.
LEMMA StaleIsOpen ==
    ASSUME OrderlySchedule, Facts, DailyInv, ~ Early, cache[TheRotator] # None,
           cache[TheRotator].created # store.created, store.expiry # None
    PROVE  OverlapOpen(store)
<1>1. /\ store.created # None
      /\ cache[TheRotator].until - CacheTtl - MaxOpTicks <= store.created
  BY Schedule DEF DailyInv, Reading, ReadOk
<1>2. store.created + OverlapWindow <= store.expiry + MaxOpTicks
  BY <1>1 DEF DailyInv, Overlap
<1>3. now < cache[TheRotator].until /\ cache[TheRotator].until \in Nat /\ now \in Nat
      /\ store.created \in Nat /\ store.expiry \in Nat
  BY <1>1, Schedule DEF Facts, Times
<1>. QED
  BY <1>1, <1>2, <1>3, Schedule DEF OverlapOpen

\* A rotation begins when all that came before it is over.
LEMMA StartClear ==
    ASSUME OrderlySchedule, Facts, DailyInv, StartStep
    PROVE  /\ \A x \in Replicas : pc[x]["refresh"] \notin BootPCs \cup {"reread"}
           /\ \A x \in Replicas : pc[x]["refresh"] \notin CleanPCs
           /\ store.previous = None /\ store.expiry = None
<1>. USE Schedule
<1>1. /\ cache[TheRotator] # None /\ cache[TheRotator].created # None
      /\ now - cache[TheRotator].created >= RotationDuration
      /\ ~ OverlapOpen(store) /\ Phase = "idle" /\ minted < MaxMinted
      /\ ~ checked[TheRotator]
  BY DEF StartStep, RotationDue
<1>2. /\ cache[TheRotator].created \in Nat /\ cache[TheRotator].until \in Nat /\ now \in Nat
      /\ now < cache[TheRotator].until
  BY <1>1 DEF Facts, Times
<1>3. ~ Early /\ Phase \notin RotatingPCs
  BY <1>1 DEF Early, RotatingPCs
<1>4. ASSUME NEW x \in Replicas, pc[x]["refresh"] \in BootPCs \cup {"reread"}
      PROVE  FALSE
  <2>1. started[x]["refresh"] <= cache[TheRotator].created
    BY <1>1, <1>4 DEF DailyInv, Booting, NotBefore
  <2>2. now <= started[x]["refresh"] + MaxOpTicks /\ started[x]["refresh"] \in Nat
    BY <1>4 DEF Facts, BootPCs
  <2>. QED
    BY <1>1, <1>2, <2>1, <2>2
<1>5. ASSUME NEW x \in Replicas, pc[x]["refresh"] \in CleanPCs
      PROVE  FALSE
  <2>1. /\ store.created # None
        /\ store.created + CacheTtl + MaxOpTicks <= started[x]["refresh"]
        /\ started[x]["refresh"] < store.created + OverlapWindow + Skew + CacheTtl
                                     + MaxOpTicks + CheckInterval
    BY <1>1, <1>5 DEF DailyInv, Cleaning
  <2>2. /\ started[x]["refresh"] <= now /\ now <= started[x]["refresh"] + MaxOpTicks
        /\ started[x]["refresh"] \in Nat
        /\ store.created \in Nat
    BY <1>5, <2>1 DEF Facts, CleanPCs, Times
  <2>3. CASE cache[TheRotator].created = store.created
    BY <1>1, <1>2, <2>1, <2>2, <2>3
  <2>4. CASE cache[TheRotator].created # store.created
    <3>1. cache[TheRotator].until - CacheTtl - MaxOpTicks <= store.created
      BY <1>1, <2>4 DEF DailyInv, Reading, ReadOk
    <3>. QED
      BY <1>2, <2>1, <2>2, <3>1
  <2>. QED
    BY <2>3, <2>4
<1>6. store.expiry # None => cache[TheRotator].created = store.created
  BY <1>1, <1>3, StaleIsOpen
<1>7. store.previous = None
  <2>1. SUFFICES ASSUME store.previous # None PROVE FALSE
    OBVIOUS
  <2>2. store.expiry # None
    BY <1>1, <2>1 DEF DailyInv, Overlap
  <2>3. /\ store.expiry <= store.created + OverlapWindow
        /\ cache[TheRotator].created = store.created
    BY <1>3, <1>6, <2>2 DEF DailyInv, Overlap
  <2>4. Handled < store.expiry + Skew + CacheTtl + MaxOpTicks
    BY <1>1, <2>1, <2>2 DEF DailyInv, Timing
  <2>5. Handled = now - CheckInterval
    BY <1>1, <1>2 DEF DailyInv, Timing, TimerDue, Handled
  <2>6. store.expiry \in Nat
    BY <2>2 DEF Facts, Times
  <2>. QED
    BY <1>1, <1>2, <2>3, <2>4, <2>5, <2>6
<1>8. store.expiry = None
  BY <1>5, <1>7 DEF DailyInv, Overlap, CleanPCs
<1>. QED
  BY <1>4, <1>5, <1>7, <1>8

LEMMA HandledFacts ==
    ASSUME OrderlySchedule, Facts
    PROVE  /\ checked[TheRotator] => now < Handled + CheckInterval
           /\ Timing => now <= Handled + CheckInterval
           /\ Timing /\ ~ checked[TheRotator] => now = Handled + CheckInterval
<1>1. now % CheckInterval \in 0 .. CheckInterval - 1 /\ now \in Nat
  BY Schedule, Divided DEF Facts
<1>2. Timing /\ ~ checked[TheRotator] => now % CheckInterval = 0
  BY DEF Timing, TimerDue
<1>. QED
  BY <1>1, <1>2, Schedule DEF Handled

\* An hour of the timer begins with a tick that is not handled yet, and it ends only when
\* that is handled or the rotation that a tick began is still under way.
LEMMA HandledTick ==
    ASSUME OrderlySchedule, Facts, Timing, TickStep
    PROVE  /\ ~ checked'[TheRotator] => TimerDue'
           /\ Handled' = Handled \/ (Handled' <= now /\ (Phase # "idle" \/ minted = MaxMinted))
<1>. USE Schedule
<1>1. /\ now' = now + 1 /\ now \in Nat
      /\ checked'[TheRotator] = ((now + 1) % CheckInterval # 0)
      /\ TimerDue => checked[TheRotator] \/ Phase # "idle" \/ minted = MaxMinted
  BY DEF TickStep, Facts
<1>. DEFINE m == now % CheckInterval
            x == (now + 1) % CheckInterval
<1>2. m \in 0 .. CheckInterval - 1 /\ x = (IF m = CheckInterval - 1 THEN 0 ELSE m + 1)
  BY <1>1, Divided, NextRemainder
<1>3. /\ x # 0 => checked'[TheRotator]
      /\ x = 0 => ~ checked'[TheRotator] /\ TimerDue'
  BY <1>1 DEF TimerDue
<1>4. /\ checked[TheRotator] => Handled = now - m
      /\ ~ checked[TheRotator] => Handled = now - m - CheckInterval
      /\ ~ checked[TheRotator] => m = 0
      /\ m = 0 => checked[TheRotator] \/ Phase # "idle" \/ minted = MaxMinted
  BY <1>1 DEF Handled, Timing, TimerDue
<1>5. /\ checked'[TheRotator] => Handled' = now + 1 - x
      /\ ~ checked'[TheRotator] => Handled' = now + 1 - x - CheckInterval
  BY <1>1 DEF Handled
<1>. HIDE DEF m, x
<1>6. CASE checked[TheRotator]
  <2>1. Handled = now - m
    BY <1>4, <1>6
  <2>2. CASE m = CheckInterval - 1
    <3>1. x = 0
      BY <1>2, <2>2
    <3>2. Handled' = now + 1 - x - CheckInterval
      BY <1>3, <1>5, <3>1
    <3>. QED
      BY <1>1, <1>3, <2>1, <2>2, <3>1, <3>2
  <2>3. CASE m # CheckInterval - 1
    <3>1. x = m + 1 /\ x # 0
      BY <1>2, <2>3
    <3>2. Handled' = now + 1 - x
      BY <1>3, <1>5, <3>1
    <3>. QED
      BY <1>1, <1>2, <1>3, <2>1, <3>1, <3>2
  <2>. QED
    BY <2>2, <2>3
<1>7. CASE ~ checked[TheRotator]
  <2>1. m = 0 /\ (Phase # "idle" \/ minted = MaxMinted)
    BY <1>4, <1>7
  <2>2. x \in {0, 1}
    BY <1>2, <2>1
  <2>3. Handled' <= now
    BY <1>1, <1>3, <1>5, <2>2
  <2>. QED
    BY <1>3, <1>5, <1>2, <2>1, <2>2, <2>3
<1>. QED
  BY <1>6, <1>7

\* The overlap window of the key being replaced is open for the rest of a rotation.
LEMMA StillOpen ==
    ASSUME OrderlySchedule, Facts, DailyInv, Phase \in {"putKid", "putCreated", "putActive", "forget"}
    PROVE  store.expiry \in Nat /\ now < store.expiry
<1>1. /\ store.expiry # None /\ Began + OverlapWindow <= store.expiry
      /\ now <= Began + MaxOpTicks /\ now \in Nat /\ Began \in Nat
  BY DEF DailyInv, Rotation, Facts
<1>2. store.expiry \in Nat
  BY <1>1 DEF Facts, Times
<1>. QED
  BY <1>1, <1>2, Schedule

LEMMA NoCleanWhileRotating ==
    ASSUME OrderlySchedule, Facts, DailyInv, NEW x \in Replicas, pc[x]["refresh"] \in CleanPCs,
           store.expiry # None \/ Phase # "forget"
    PROVE  Phase = "idle"
<1>1. store.expiry # None => store.expiry + Skew <= now
  BY DEF DailyInv, Cleaning
<1>2. Phase # "forget"
  <2>1. SUFFICES ASSUME Phase = "forget" PROVE FALSE
    OBVIOUS
  <2>2. store.expiry \in Nat /\ now < store.expiry /\ store.expiry # None /\ now \in Nat
    BY <2>1, StillOpen DEF DailyInv, Rotation, Facts
  <2>. QED
    BY <1>1, <2>2, Schedule
<1>. QED
  BY <1>2 DEF DailyInv, Rotation, FirstRun

-----------------------------------------------------------------------------
(* Each part of the invariant is preserved.                                *)

LEMMA FirstRunNext ==
    ASSUME OrderlySchedule, Facts, Facts', DailyInv, OnlyRotator, DailyStep
    PROVE  FirstRun'
<1>. USE Schedule DEF FirstRun, LoadingPCs, RotatingPCs, BootPCs
<1>1. FirstRun
  BY DEF DailyInv
<1>2. ASSUME NEW x \in Replicas, BootReadStep(x) \/ LoadStep(x)
      PROVE  FirstRun'
  BY <1>1, <1>2 DEF BootReadStep, LoadStep, LoaderStep, LoaderKept, RotatorKept, OnlyRotator
<1>3. ASSUME NEW x \in Replicas, BootStep(x)
      PROVE  FirstRun'
  <2>1. BootstrapKey # None
    BY ConstantTypes, NoneAssumption
  <2>2. store'.active # None
    BY <1>1, <1>3, <2>1 DEF BootStep, StoreIs
  <2>. QED
    BY <1>1, <1>3, <2>2 DEF BootStep, LoaderStep, LoaderKept, RotatorKept, OnlyRotator
<1>4. ASSUME NEW x \in Replicas, CleanStep(x) \/ PublishStep(x)
      PROVE  FirstRun'
  <2>1. store.active # None /\ store'.active # None
    BY <1>1, <1>4 DEF CleanStep, PublishStep, StoreIs
  <2>. QED
    BY <1>1, <1>4, <2>1
       DEF CleanStep, PublishStep, LoaderStep, LoaderKept, RotatorKept, OnlyRotator
<1>5. CASE CheckStep \/ QuietStep \/ TickStep
  BY <1>1, <1>5 DEF CheckStep, QuietStep, TickStep, LoadersKept, LoaderKept, RotatorKept,
                    CachesKept, OnlyRotator
<1>6. CASE StartStep
  BY <1>1, <1>6 DEF StartStep, LoadersKept, LoaderKept, OnlyRotator
<1>7. CASE PutStep
  <2>1. Job.new # None
    BY NoneAssumption DEF Facts, Pair, Raw
  <2>2. store.active # None /\ store'.active # None
    BY <1>1, <1>7, <2>1 DEF PutStep, StoreIs
  <2>3. Phase' \in {"idle", "forget"} \cup RotatingPCs
    BY <1>7 DEF PutStep
  <2>. QED
    BY <1>1, <1>7, <2>2, <2>3 DEF PutStep, LoadersKept, LoaderKept, OnlyRotator
<1>8. CASE ForgetStep
  BY <1>1, <1>8 DEF ForgetStep, LoadersKept, LoaderKept, CachesKept, OnlyRotator
<1>. QED
  BY <1>2, <1>3, <1>4, <1>5, <1>6, <1>7, <1>8 DEF DailyStep

LEMMA BootingNext ==
    ASSUME OrderlySchedule, Facts, Facts', DailyInv, OnlyRotator, DailyStep
    PROVE  Booting'
<1>. USE Schedule DEF Booting, NotBefore, LoadingPCs, RotatingPCs, BootPCs
<1>1. Booting /\ FirstRun
  BY DEF DailyInv
<1>2. ASSUME NEW x \in Replicas, BootReadStep(x)
      PROVE  Booting'
  BY <1>1, <1>2 DEF BootReadStep, LoaderStep, LoaderKept, FirstRun
<1>3. ASSUME NEW x \in Replicas, LoadStep(x)
      PROVE  Booting'
  BY <1>1, <1>3 DEF LoadStep, LoaderStep, LoaderKept
<1>4. ASSUME NEW x \in Replicas, BootStep(x)
      PROVE  Booting'
  <2>1. store'.created \in {store.created, now}
    BY <1>4 DEF BootStep, StoreIs
  <2>2. \A y \in Replicas :
           /\ pc'[y]["refresh"] \in BootPCs \cup {"reread"} =>
                 /\ pc[y]["refresh"] \in BootPCs \cup {"reread"}
                 /\ started'[y]["refresh"] = started[y]["refresh"]
                 /\ started[y]["refresh"] <= now
           /\ pc'[y]["refresh"] \in LoadingPCs =>
                 pc[y]["refresh"] \in LoadingPCs /\ view'[y] = view[y]
           /\ cache'[y] = cache[y]
    BY <1>4 DEF BootStep, LoaderStep, LoaderKept, Facts
  <2>3. minted' = minted
    BY <1>4 DEF BootStep, LoaderStep
  <2>. QED
    BY <1>1, <2>1, <2>2, <2>3
<1>5. ASSUME NEW x \in Replicas, CleanStep(x) \/ PublishStep(x)
      PROVE  Booting'
  <2>1. store'.created = store.created
    BY <1>5 DEF CleanStep, PublishStep, StoreIs
  <2>. QED
    BY <1>1, <1>5, <2>1 DEF CleanStep, PublishStep, LoaderStep, LoaderKept
<1>6. CASE CheckStep \/ QuietStep \/ TickStep \/ ForgetStep
  BY <1>1, <1>6 DEF CheckStep, QuietStep, TickStep, ForgetStep, LoadersKept, LoaderKept, CachesKept
<1>7. CASE StartStep
  <2>1. \A x \in Replicas : pc'[x]["refresh"] \notin BootPCs \cup {"reread"}
    BY <1>7, StartClear DEF StartStep, LoadersKept, LoaderKept
  <2>. QED
    BY <2>1
<1>8. CASE PutStep
  <2>1. minted # 0
    BY <1>8 DEF PutStep, DailyInv, Numbering, Facts, Pair, Keys
  <2>2. \A x \in Replicas : pc'[x]["refresh"] \notin BootPCs \cup {"reread"}
    BY <1>1, <1>8, <2>1 DEF PutStep, LoadersKept, LoaderKept
  <2>. QED
    BY <2>2
<1>. QED
  BY <1>2, <1>3, <1>4, <1>5, <1>6, <1>7, <1>8 DEF DailyStep

LEMMA NumberingNext ==
    ASSUME OrderlySchedule, TypeOK, Facts, Facts', DailyInv, OnlyRotator, DailyStep
    PROVE  Numbering'
<1>. USE Schedule DEF Numbering, Numbered, LoadingPCs, RotatingPCs, BootPCs
<1>1. Numbering
  BY DEF DailyInv
<1>2. ASSUME NEW x \in Replicas, BootReadStep(x)
      PROVE  Numbering'
  BY <1>1, <1>2 DEF BootReadStep, LoaderStep, LoaderKept, RotatorKept
<1>3. ASSUME NEW x \in Replicas, LoadStep(x)
      PROVE  Numbering'
  <2>1. view'[x].active = store.active /\ view'[x].previous \in {store.previous, None}
    BY <1>1, <1>3, ParsedActive DEF LoadStep
  <2>. QED
    BY <1>1, <1>3, <2>1 DEF LoadStep, LoaderStep, LoaderKept, RotatorKept
<1>4. ASSUME NEW x \in Replicas, BootStep(x)
      PROVE  Numbering'
  <2>1. minted = 0 /\ Phase \notin RotatingPCs
    BY <1>1, <1>4 DEF BootStep, DailyInv, Booting, Facts, Pair, Keys
  <2>2. /\ store'.active \in {store.active, BootstrapKey}
        /\ store'.previous \in {store.previous, None}
        /\ store'.active # None => store'.active.key = 0 /\ store'.active.kid = 1
    BY <1>1, <1>4, <2>1 DEF BootStep, StoreIs, BootstrapKey
  <2>. QED
    BY <1>1, <1>4, <2>1, <2>2 DEF BootStep, LoaderStep, LoaderKept, RotatorKept
<1>5. ASSUME NEW x \in Replicas, CleanStep(x)
      PROVE  Numbering'
  <2>1. store'.active = store.active /\ store'.previous \in {store.previous, None}
    BY <1>5 DEF CleanStep, StoreIs
  <2>. QED
    BY <1>1, <1>5, <2>1 DEF CleanStep, LoaderStep, LoaderKept, RotatorKept
<1>6. ASSUME NEW x \in Replicas, PublishStep(x)
      PROVE  Numbering'
  BY <1>1, <1>6 DEF PublishStep, LoaderStep, LoaderKept, RotatorKept
<1>7. CASE CheckStep \/ QuietStep \/ TickStep
  BY <1>1, <1>7 DEF CheckStep, QuietStep, TickStep, LoadersKept, LoaderKept, RotatorKept, CachesKept
<1>8. CASE StartStep
  <2>1. /\ store.active # None /\ Phase = "idle" /\ minted < MaxMinted
        /\ minted' = minted + 1 /\ Phase' = "putPrevious"
        /\ UNCHANGED <<store, cache>>
    BY <1>8 DEF StartStep
  <2>2. /\ ParseKidCipher(store) = store.active
        /\ store.active.key = minted /\ store.active.kid = minted + 1
    BY <1>1, <2>1, ParsedActive
  <2>3. /\ Job'.old = store.active /\ Job'.old.key + 1 = minted'
        /\ Job'.new = [kid |-> minted' + 1, key |-> minted']
    BY <1>8, <2>1, <2>2 DEF StartStep, Facts
  <2>4. \A k \in 0 .. minted' : kidOf'[k] = k + 1
    <3>1. kidOf' = [kidOf EXCEPT ![minted + 1] = minted + 2] /\ minted + 1 \in Keys
      BY <1>8, <2>1, <2>2 DEF StartStep, Facts, Keys
    <3>2. \A k \in 0 .. minted : k \in Keys /\ k # minted + 1
      BY DEF Facts, Keys
    <3>3. \A k \in 0 .. minted' : k \in 0 .. minted \/ k = minted + 1
      BY <2>1 DEF Facts
    <3>4. minted + 1 + 1 = minted + 2
      BY DEF Facts
    <3>. QED
      BY <1>1, <3>1, <3>2, <3>3, <3>4 DEF TypeOK
  <2>5. \A p \in Raw \cup {None} : Numbered(p) => Numbered(p)'
    BY <2>1 DEF Facts, Raw, Keys
  <2>6. \A p \in Pair \cup {None} : Numbered(p) => Numbered(p)'
    BY <2>1 DEF Facts, Pair, Keys
  <2>. QED
    BY <1>1, <1>8, <2>1, <2>3, <2>4, <2>5, <2>6 DEF StartStep, LoadersKept, LoaderKept, Facts
<1>9. CASE PutStep
  <2>1. /\ minted' = minted /\ kidOf' = kidOf /\ Job' = Job /\ cache' = cache
        /\ Phase \in RotatingPCs /\ Phase' \in RotatingPCs \cup {"forget"}
        /\ store'.previous \in {store.previous, Job.old}
        /\ Phase' \in RotatingPCs => store'.active = store.active
        /\ Phase' = "forget" => store'.active = Job.new
    BY <1>9 DEF PutStep, StoreIs
  <2>2. Job.new.kid = minted + 1 /\ Job.new.key = minted
    BY <1>1, <2>1
  <2>3. Numbered(store.active)' /\ Numbered(store.previous)'
    BY <1>1, <2>1, <2>2 DEF Facts
  <2>4. store'.active # None /\ Phase' \notin RotatingPCs => store'.active.key = minted
    BY <2>1, <2>2
  <2>. QED
    BY <1>1, <1>9, <2>1, <2>3, <2>4 DEF PutStep, LoadersKept, LoaderKept
<1>10. CASE ForgetStep
  BY <1>1, <1>10 DEF ForgetStep, LoadersKept, LoaderKept, CachesKept
<1>. QED
  BY <1>2, <1>3, <1>4, <1>5, <1>6, <1>7, <1>8, <1>9, <1>10 DEF DailyStep

LEMMA RotationNext ==
    ASSUME OrderlySchedule, Facts, Facts', DailyInv, OnlyRotator, DailyStep
    PROVE  Rotation'
<1>. USE Schedule DEF Rotation, LoadingPCs, RotatingPCs, BootPCs, CleanPCs
<1>1. Rotation
  BY DEF DailyInv
<1>2. ASSUME NEW x \in Replicas, BootReadStep(x) \/ PublishStep(x)
      PROVE  Rotation'
  BY <1>1, <1>2 DEF BootReadStep, PublishStep, LoaderStep, LoaderKept, RotatorKept
<1>3. ASSUME NEW x \in Replicas, LoadStep(x)
      PROVE  Rotation'
  <2>1. Phase \in RotatingPCs => ~ PreviousExpired(store)
    <3>1. Phase \in {"putKid", "putCreated", "putActive"} => ~ PreviousExpired(store)
      BY StillOpen DEF PreviousExpired, Facts
    <3>. QED
      BY <1>1, <3>1 DEF PreviousExpired
  <2>. QED
    BY <1>1, <1>3, <2>1 DEF LoadStep, LoaderStep, LoaderKept, RotatorKept
<1>4. ASSUME NEW x \in Replicas, BootStep(x)
      PROVE  Rotation'
  <2>1. Phase = "idle"
    <3>1. minted = 0
      BY <1>4 DEF BootStep, DailyInv, Booting
    <3>2. Phase \notin RotatingPCs
      BY <3>1 DEF DailyInv, Numbering, Facts, Pair, Keys
    <3>3. Phase # "forget"
      BY <1>1, <3>1 DEF DailyInv, Overlap
    <3>. QED
      BY <3>2, <3>3 DEF DailyInv, FirstRun
  <2>. QED
    BY <1>4, <2>1 DEF BootStep, LoaderStep, RotatorKept
<1>5. ASSUME NEW x \in Replicas, CleanStep(x)
      PROVE  Rotation'
  <2>1. pc[x]["refresh"] \in CleanPCs
    BY <1>5 DEF CleanStep
  <2>2. Phase # "idle" => Phase = "forget" /\ store.expiry = None
    BY <2>1, NoCleanWhileRotating
  <2>3. Phase = "idle"
    BY <1>1, <2>2 DEF DailyInv, FirstRun
  <2>. QED
    BY <1>5, <2>3 DEF CleanStep, LoaderStep, RotatorKept
<1>6. CASE CheckStep \/ QuietStep
  BY <1>1, <1>6 DEF CheckStep, QuietStep, LoadersKept, LoaderKept, RotatorKept
<1>7. CASE TickStep
  <2>1. store.expiry # None /\ store.expiry <= now + OverlapWindow =>
          store.expiry <= now' + OverlapWindow
    BY <1>7 DEF TickStep, Facts, Times
  <2>. QED
    BY <1>1, <1>7, <2>1 DEF TickStep, LoadersKept, LoaderKept, RotatorKept
<1>8. CASE StartStep
  <2>1. /\ \A x \in Replicas : pc'[x]["refresh"] \notin CleanPCs
        /\ store'.previous = None /\ store'.expiry = None
    BY <1>8, StartClear DEF StartStep, LoadersKept, LoaderKept
  <2>. QED
    BY <1>8, <2>1 DEF StartStep
<1>9. CASE PutStep
  <2>1. \A x \in Replicas : pc'[x]["refresh"] \notin CleanPCs
    BY <1>1, <1>9 DEF PutStep, LoadersKept, LoaderKept
  <2>2. Began <= now /\ now \in Nat /\ Began \in Nat /\ now' = now /\ Began' = Began /\ Job' = Job
    BY <1>9 DEF PutStep, Facts
  <2>3. now # None /\ now + OverlapWindow # None /\ Began + OverlapWindow <= now + OverlapWindow
    BY <2>2
  <2>. QED
    BY <1>1, <1>9, <2>1, <2>2, <2>3 DEF PutStep, StoreIs
<1>10. CASE ForgetStep
  BY <1>1, <1>10 DEF ForgetStep
<1>. QED
  BY <1>2, <1>3, <1>4, <1>5, <1>6, <1>7, <1>8, <1>9, <1>10 DEF DailyStep

LEMMA OverlapNext ==
    ASSUME OrderlySchedule, Facts, Facts', DailyInv, OnlyRotator, DailyStep
    PROVE  Overlap'
<1>. USE Schedule DEF Overlap, RotatingPCs, Early
<1>1. Overlap
  BY DEF DailyInv
<1>2. ASSUME NEW x \in Replicas, BootReadStep(x) \/ LoadStep(x) \/ PublishStep(x)
      PROVE  Overlap'
  <2>1. UNCHANGED <<store, minted>> /\ Phase' = Phase
    BY <1>2 DEF BootReadStep, LoadStep, PublishStep, LoaderStep, RotatorKept
  <2>2. \A y \in Replicas : pc[y]["refresh"] = "cleanExpiry" => pc'[y]["refresh"] = "cleanExpiry"
    BY <1>2 DEF BootReadStep, LoadStep, PublishStep, LoaderStep, LoaderKept
  <2>. QED
    BY <1>1, <2>1, <2>2
<1>3. ASSUME NEW x \in Replicas, BootStep(x)
      PROVE  Overlap'
  <2>1. minted = 0
    BY <1>3 DEF BootStep, DailyInv, Booting
  <2>2. store'.previous = None /\ store'.expiry = None
    BY <1>1, <1>3, <2>1 DEF BootStep, StoreIs
  <2>. QED
    BY <2>2
<1>4. ASSUME NEW x \in Replicas, CleanStep(x)
      PROVE  Overlap'
  <2>1. minted' = minted /\ Phase' = Phase
    BY <1>4 DEF CleanStep, LoaderStep, RotatorKept
  <2>2. CASE pc[x]["refresh"] = "cleanPrevious"
    <3>1. pc'[x]["refresh"] = "cleanExpiry" /\ StoreIs(store.active, store.created, None, store.expiry)
      BY <1>4, <2>2 DEF CleanStep
    <3>. QED
      BY <1>1, <2>1, <3>1 DEF StoreIs
  <2>3. CASE pc[x]["refresh"] = "cleanExpiry"
    <3>1. StoreIs(store.active, store.created, store.previous, None)
      BY <1>4, <2>3 DEF CleanStep
    <3>2. store.previous = None
      BY <2>3 DEF DailyInv, Cleaning
    <3>. QED
      BY <3>1, <3>2 DEF StoreIs
  <2>. QED
    BY <1>4, <2>2, <2>3 DEF CleanStep
<1>5. CASE CheckStep \/ QuietStep \/ TickStep
  <2>1. UNCHANGED <<store, minted>> /\ Phase' = Phase
    BY <1>5 DEF CheckStep, QuietStep, TickStep, RotatorKept
  <2>2. \A y \in Replicas : pc'[y]["refresh"] = pc[y]["refresh"]
    BY <1>5 DEF CheckStep, QuietStep, TickStep, LoadersKept, LoaderKept
  <2>. QED
    BY <1>1, <2>1, <2>2
<1>6. CASE StartStep
  <2>1. store'.previous = None /\ store'.expiry = None
    BY <1>6, StartClear DEF StartStep
  <2>. QED
    BY <2>1
<1>7. CASE PutStep
  <2>1. \A y \in Replicas : pc'[y]["refresh"] = pc[y]["refresh"]
    BY <1>7 DEF PutStep, LoadersKept, LoaderKept
  <2>2. /\ minted' = minted /\ Phase \in RotatingPCs
        /\ minted > 0 /\ Job.old.key + 1 = minted /\ Job.old # None
    BY <1>7, NoneAssumption DEF PutStep, DailyInv, Numbering, Facts, Pair, Raw, Keys
  <2>3. CASE Phase \in {"putPrevious", "putExpiry", "putKid"}
    <3>1. /\ Phase' \in {"putExpiry", "putKid", "putCreated"}
          /\ store'.previous = Job.old
          /\ Phase' = "putExpiry" \/ store'.expiry # None
      BY <1>7, <2>3 DEF PutStep, StoreIs, DailyInv, Rotation, Facts
    <3>. QED
      BY <2>2, <3>1
  <2>4. CASE Phase = "putCreated"
    <3>1. StoreIs(store.active, now, store.previous, store.expiry) /\ Phase' = "putActive"
      BY <1>7, <2>4 DEF PutStep
    <3>2. /\ store.previous = Job.old /\ store.expiry # None /\ now # None
          /\ Began + OverlapWindow <= store.expiry /\ store.expiry <= now + OverlapWindow
          /\ now <= Began + MaxOpTicks /\ now \in Nat /\ Began \in Nat
      BY <2>4 DEF DailyInv, Rotation, Facts
    <3>3. now + OverlapWindow <= store.expiry + MaxOpTicks
      BY <3>2 DEF Facts, Times
    <3>. QED
      BY <2>2, <3>1, <3>2, <3>3 DEF StoreIs
  <2>5. CASE Phase = "putActive"
    <3>1. StoreIs(Job.new, store.created, store.previous, store.expiry) /\ Phase' = "forget"
      BY <1>7, <2>5 DEF PutStep
    <3>2. store.previous = Job.old /\ store.expiry # None
      BY <2>5 DEF DailyInv, Rotation
    <3>. QED
      BY <1>1, <2>2, <2>5, <3>1, <3>2 DEF StoreIs
  <2>. QED
    BY <2>2, <2>3, <2>4, <2>5
<1>8. CASE ForgetStep
  <2>1. UNCHANGED <<store, minted>> /\ Phase = "forget" /\ Phase' = "idle"
    BY <1>8 DEF ForgetStep
  <2>2. \A y \in Replicas : pc'[y]["refresh"] = pc[y]["refresh"]
    BY <1>8 DEF ForgetStep, LoadersKept, LoaderKept
  <2>. QED
    BY <1>1, <2>1, <2>2
<1>. QED
  BY <1>2, <1>3, <1>4, <1>5, <1>6, <1>7, <1>8 DEF DailyStep

LEMMA CleaningNext ==
    ASSUME OrderlySchedule, Facts, Facts', DailyInv, OnlyRotator, DailyStep
    PROVE  Cleaning'
<1>. USE Schedule DEF Cleaning, CleanPCs
<1>1. Cleaning
  BY DEF DailyInv
<1>2. ASSUME NEW x \in Replicas, BootReadStep(x) \/ PublishStep(x)
      PROVE  Cleaning'
  BY <1>1, <1>2, HandledFacts DEF BootReadStep, PublishStep, LoaderStep, LoaderKept
<1>3. ASSUME NEW x \in Replicas, LoadStep(x)
      PROVE  Cleaning'
  <2>1. /\ UNCHANGED <<store, now, minted>>
        /\ \A y \in Replicas : y # x => LoaderKept(y)
    BY <1>3 DEF LoadStep, LoaderStep
  <2>2. ASSUME PreviousExpired(store)
        PROVE  /\ minted > 0 /\ store.created # None
               /\ store.expiry # None => store.expiry + Skew <= now
               /\ store.created + CacheTtl + MaxOpTicks <= started'[x]["refresh"]
               /\ minted < MaxMinted =>
                    started'[x]["refresh"] < store.created + OverlapWindow + Skew + CacheTtl
                                              + MaxOpTicks + CheckInterval
    <3>1. /\ store.previous # None /\ store.expiry # None /\ store.expiry + Skew <= now
          /\ store.expiry \in Nat /\ now \in Nat /\ minted > 0
      BY <2>2 DEF PreviousExpired, Facts, Times, DailyInv, Overlap
    <3>2. ~ Early
      <4>1. ~ Phase \in {"putKid", "putCreated", "putActive", "forget"}
        BY <3>1, StillOpen
      <4>2. Phase \notin {"putPrevious", "putExpiry"}
        BY <3>1 DEF DailyInv, Rotation
      <4>. QED
        BY <4>1, <4>2 DEF Early, RotatingPCs
    <3>3. /\ store.created # None /\ store.expiry <= store.created + OverlapWindow
          /\ store.created + OverlapWindow <= store.expiry + MaxOpTicks
          /\ store.created \in Nat
      BY <3>1, <3>2 DEF DailyInv, Overlap, Facts, Times
    <3>4. started'[x]["refresh"] = now
      BY <1>3, <3>1 DEF LoadStep, DailyInv, Booting
    <3>5. minted < MaxMinted => now < store.expiry + Skew + CacheTtl + MaxOpTicks + CheckInterval
      <4>1. SUFFICES ASSUME minted < MaxMinted
                     PROVE  now < store.expiry + Skew + CacheTtl + MaxOpTicks + CheckInterval
        OBVIOUS
      <4>2. Handled < store.expiry + Skew + CacheTtl + MaxOpTicks /\ Timing
        BY <3>1, <4>1 DEF DailyInv, Timing
      <4>3. now <= Handled + CheckInterval /\ Handled \in Int
        BY <4>2, HandledFacts DEF Facts
      <4>. QED
        BY <3>1, <4>2, <4>3
    <3>. QED
      BY <3>1, <3>3, <3>4, <3>5
  <2>3. pc'[x]["refresh"] # "cleanExpiry" /\ (pc'[x]["refresh"] = "cleanPrevious" => PreviousExpired(store))
    BY <1>3 DEF LoadStep
  <2>. QED
    BY <1>1, <2>1, <2>2, <2>3 DEF LoaderKept
<1>4. ASSUME NEW x \in Replicas, BootStep(x)
      PROVE  Cleaning'
  <2>1. minted = 0 /\ minted' = minted
    BY <1>4 DEF BootStep, LoaderStep, DailyInv, Booting
  <2>2. \A y \in Replicas : pc[y]["refresh"] \notin CleanPCs
    BY <1>1, <2>1
  <2>3. \A y \in Replicas : pc'[y]["refresh"] \notin CleanPCs
    BY <1>4, <2>2 DEF BootStep, LoaderStep, LoaderKept, BootPCs
  <2>. QED
    BY <2>3
<1>5. ASSUME NEW x \in Replicas, CleanStep(x)
      PROVE  Cleaning'
  <2>1. /\ now' = now /\ minted' = minted /\ store'.created = store.created
        /\ store'.previous \in {store.previous, None} /\ store'.expiry \in {store.expiry, None}
        /\ pc[x]["refresh"] = "cleanPrevious" => store'.previous = None
    BY <1>5 DEF CleanStep, LoaderStep, StoreIs
  <2>2. \A y \in Replicas :
           /\ pc'[y]["refresh"] \in CleanPCs =>
                pc[y]["refresh"] \in CleanPCs /\ started'[y]["refresh"] = started[y]["refresh"]
           /\ pc'[y]["refresh"] = "cleanExpiry" =>
                pc[y]["refresh"] = "cleanExpiry" \/ store'.previous = None
    BY <1>5, <2>1 DEF CleanStep, LoaderStep, LoaderKept
  <2>. QED
    BY <1>1, <2>1, <2>2
<1>6. CASE CheckStep \/ QuietStep \/ ForgetStep
  <2>1. UNCHANGED <<store, now, minted>> /\ LoadersKept
    BY <1>6 DEF CheckStep, QuietStep, ForgetStep
  <2>. QED
    BY <1>1, <2>1 DEF LoadersKept, LoaderKept
<1>7. CASE TickStep
  <2>1. UNCHANGED <<store, minted>> /\ now' = now + 1 /\ LoadersKept
    BY <1>7 DEF TickStep
  <2>2. store.expiry # None /\ store.expiry + Skew <= now => store.expiry + Skew <= now'
    BY <2>1 DEF Facts, Times
  <2>. QED
    BY <1>1, <2>1, <2>2 DEF LoadersKept, LoaderKept
<1>8. CASE StartStep
  <2>1. \A x \in Replicas : pc'[x]["refresh"] \notin CleanPCs
    BY <1>8, StartClear DEF StartStep, LoadersKept, LoaderKept
  <2>. QED
    BY <2>1
<1>9. CASE PutStep
  <2>1. \A x \in Replicas : pc'[x]["refresh"] \notin CleanPCs
    BY <1>9 DEF PutStep, LoadersKept, LoaderKept, DailyInv, Rotation, RotatingPCs
  <2>. QED
    BY <2>1
<1>. QED
  BY <1>2, <1>3, <1>4, <1>5, <1>6, <1>7, <1>8, <1>9 DEF DailyStep

LEMMA ReadingNext ==
    ASSUME OrderlySchedule, Facts, Facts', DailyInv, OnlyRotator, DailyStep
    PROVE  Reading'
<1>. USE Schedule DEF Reading, ReadOk, LoadingPCs
<1>1. Reading
  BY DEF DailyInv
<1>2. ASSUME NEW x \in Replicas, BootReadStep(x)
      PROVE  Reading'
  BY <1>1, <1>2 DEF BootReadStep, LoaderStep, LoaderKept
<1>3. ASSUME NEW x \in Replicas, LoadStep(x)
      PROVE  Reading'
  <2>1. /\ UNCHANGED <<store, cache>> /\ view'[x].created = store.created
        /\ \A y \in Replicas : y # x => LoaderKept(y)
    BY <1>3 DEF LoadStep, LoaderStep
  <2>2. started'[x]["refresh"] <= now /\ now \in Nat /\ started'[x]["refresh"] \in Nat
    BY <1>3 DEF LoadStep, Facts
  <2>3. pc'[x]["refresh"] = "publish" /\ store.previous # None /\ store.expiry # None =>
          started'[x]["refresh"] < store.expiry + Skew
    BY <1>3, <2>2 DEF LoadStep, PreviousExpired, Facts, Times
  <2>. QED
    BY <1>1, <2>1, <2>3 DEF LoaderKept
<1>4. ASSUME NEW x \in Replicas, BootStep(x)
      PROVE  Reading'
  <2>1. minted = 0
    BY <1>4 DEF BootStep, DailyInv, Booting
  <2>2. store'.previous = None
    BY <1>4, <2>1 DEF BootStep, StoreIs, DailyInv, Overlap
  <2>3. store'.created \in {store.created, now} /\ now' = now /\ cache' = cache
    BY <1>4 DEF BootStep, LoaderStep, StoreIs
  <2>4. \A y \in Replicas : pc'[y]["refresh"] \in LoadingPCs =>
          /\ pc[y]["refresh"] \in LoadingPCs /\ pc[y]["refresh"] # "idle" /\ view'[y] = view[y]
          /\ started'[y]["refresh"] = started[y]["refresh"]
    BY <1>4 DEF BootStep, BootPCs, LoaderStep, LoaderKept
  <2>5. ASSUME NEW y \in Replicas, pc'[y]["refresh"] \in LoadingPCs
        PROVE  ReadOk(view[y].created, started[y]["refresh"])'
    <3>1. started[y]["refresh"] <= now /\ now # None
      BY <2>4, <2>5 DEF Facts
    <3>. QED
      BY <1>1, <2>3, <2>4, <2>5, <3>1
  <2>6. ASSUME NEW y \in Replicas, cache'[y] # None
        PROVE  ReadOk(cache[y].created, cache[y].until - CacheTtl - MaxOpTicks)'
    <3>1. cache[y].until - CacheTtl - MaxOpTicks <= now /\ now # None
      BY <2>3, <2>6 DEF Facts
    <3>. QED
      BY <1>1, <2>3, <2>6, <3>1
  <2>. QED
    BY <2>2, <2>5, <2>6
<1>5. ASSUME NEW x \in Replicas, CleanStep(x)
      PROVE  Reading'
  <2>1. /\ now' = now /\ cache' = cache /\ store'.created = store.created
        /\ store'.previous \in {store.previous, None} /\ store'.expiry \in {store.expiry, None}
        /\ pc[x]["refresh"] = "cleanExpiry" => store'.expiry = None
    BY <1>5 DEF CleanStep, LoaderStep, StoreIs
  <2>2. \A y \in Replicas :
           /\ pc'[y]["refresh"] \in LoadingPCs =>
                /\ pc[y]["refresh"] \in LoadingPCs /\ started'[y]["refresh"] = started[y]["refresh"]
                /\ view'[y] = view[y]
           /\ pc'[y]["refresh"] = "publish" =>
                pc[y]["refresh"] = "publish" \/ store'.expiry = None
    BY <1>5, <2>1 DEF CleanStep, LoaderStep, LoaderKept
  <2>. QED
    BY <1>1, <2>1, <2>2
<1>6. ASSUME NEW x \in Replicas, PublishStep(x)
      PROVE  Reading'
  <2>1. /\ UNCHANGED <<store, now>> /\ pc[x]["refresh"] = "publish" /\ pc'[x]["refresh"] = "idle"
        /\ \A y \in Replicas : y # x => LoaderKept(y) /\ cache'[y] = cache[y]
        /\ cache'[x].created = view[x].created /\ cache'[x].until = now + CacheTtl
    BY <1>6 DEF PublishStep, LoaderStep
  <2>2. /\ started[x]["refresh"] \in Nat /\ now \in Nat /\ now <= started[x]["refresh"] + MaxOpTicks
        /\ ReadOk(view[x].created, started[x]["refresh"])
    BY <1>1, <2>1 DEF Facts
  <2>3. ReadOk(cache'[x].created, cache'[x].until - CacheTtl - MaxOpTicks)
    <3>1. /\ cache'[x].until - CacheTtl - MaxOpTicks \in Int
          /\ cache'[x].until - CacheTtl - MaxOpTicks <= started[x]["refresh"]
      BY <2>1, <2>2
    <3>. QED
      BY <2>1, <2>2, <3>1 DEF Facts, Times
  <2>4. store.previous # None /\ store.expiry # None =>
          cache'[x].until < store.expiry + Skew + CacheTtl + MaxOpTicks
    <3>1. SUFFICES ASSUME store.previous # None, store.expiry # None
                   PROVE  cache'[x].until < store.expiry + Skew + CacheTtl + MaxOpTicks
      OBVIOUS
    <3>2. started[x]["refresh"] < store.expiry + Skew /\ store.expiry \in Nat
      BY <1>1, <2>1, <3>1 DEF Facts, Times
    <3>. QED
      BY <2>1, <2>2, <3>2
  <2>. QED
    BY <1>1, <2>1, <2>3, <2>4 DEF LoaderKept
<1>7. CASE CheckStep \/ QuietStep \/ StartStep \/ TickStep \/ ForgetStep
  <2>1. /\ UNCHANGED store /\ LoadersKept /\ CachesKept
    BY <1>7 DEF CheckStep, QuietStep, StartStep, TickStep, ForgetStep, CachesKept
  <2>. QED
    BY <1>1, <2>1 DEF LoadersKept, LoaderKept, CachesKept
<1>8. CASE PutStep
  <2>1. /\ now' = now /\ cache' = cache /\ LoadersKept /\ now \in Nat
        /\ store'.created \in {store.created, now}
        /\ \/ store'.previous = store.previous /\ store'.expiry = store.expiry
           \/ store'.expiry = None
           \/ store'.expiry = now + OverlapWindow
    BY <1>8 DEF PutStep, StoreIs, DailyInv, Rotation, Facts
  <2>2. ASSUME NEW y \in Replicas, pc'[y]["refresh"] \in LoadingPCs
        PROVE  /\ ReadOk(view[y].created, started[y]["refresh"])'
               /\ pc'[y]["refresh"] = "publish" /\ store'.previous # None /\ store'.expiry # None =>
                    started'[y]["refresh"] < store'.expiry + Skew
    <3>1. /\ pc'[y]["refresh"] = pc[y]["refresh"] /\ view'[y] = view[y]
          /\ started'[y]["refresh"] = started[y]["refresh"]
          /\ started[y]["refresh"] <= now /\ started[y]["refresh"] \in Nat
      BY <2>1, <2>2 DEF LoadersKept, LoaderKept, Facts
    <3>2. started[y]["refresh"] < now + OverlapWindow + Skew /\ now # None
      BY <2>1, <3>1
    <3>. QED
      BY <1>1, <2>1, <2>2, <3>1, <3>2
  <2>3. ASSUME NEW y \in Replicas, cache'[y] # None
        PROVE  /\ ReadOk(cache[y].created, cache[y].until - CacheTtl - MaxOpTicks)'
               /\ store'.previous # None /\ store'.expiry # None =>
                    cache'[y].until < store'.expiry + Skew + CacheTtl + MaxOpTicks
    <3>1. /\ cache'[y] = cache[y] /\ cache[y] # None
          /\ cache[y].until <= now + CacheTtl /\ cache[y].until \in Nat
      BY <2>1, <2>3 DEF Facts
    <3>2. /\ cache[y].until - CacheTtl - MaxOpTicks <= now /\ now # None
          /\ cache[y].until < now + OverlapWindow + Skew + CacheTtl + MaxOpTicks
      BY <2>1, <3>1
    <3>. QED
      BY <1>1, <2>1, <3>1, <3>2
  <2>. QED
    BY <2>2, <2>3
<1>. QED
  BY <1>2, <1>3, <1>4, <1>5, <1>6, <1>7, <1>8 DEF DailyStep

\* A check that starts no rotation has seen a state in which none is due.
LEMMA CheckSeen ==
    ASSUME OrderlySchedule, Facts, DailyInv, CheckStep
    PROVE  /\ store.previous # None /\ store.expiry # None =>
                now < store.expiry + Skew + CacheTtl + MaxOpTicks
           /\ store.created # None => now < store.created + RotationDuration
<1>. USE Schedule
<1>1. /\ now \in Nat
      /\ store.expiry # None => store.expiry \in Nat
      /\ store.created # None => store.created \in Nat
      /\ ~ Early
  BY DEF Facts, Times, CheckStep, Early, RotatingPCs
<1>2. CASE OverlapOpen(store)
  <2>1. /\ store.expiry # None /\ now < store.expiry
        /\ store.created # None /\ store.expiry <= store.created + OverlapWindow
    BY <1>1, <1>2 DEF OverlapOpen, DailyInv, Overlap
  <2>. QED
    BY <1>1, <2>1
<1>3. CASE cache[TheRotator] # None /\ ~ RotationDue(TheRotator)
  <2>1. now < cache[TheRotator].until /\ cache[TheRotator].until \in Nat
    BY <1>3 DEF Facts
  <2>2. store.previous # None /\ store.expiry # None =>
          cache[TheRotator].until < store.expiry + Skew + CacheTtl + MaxOpTicks
    BY <1>3 DEF DailyInv, Reading
  <2>3. ASSUME store.created # None PROVE now < store.created + RotationDuration
    <3>1. CASE cache[TheRotator].created = store.created
      BY <1>1, <1>3, <2>3, <3>1 DEF RotationDue
    <3>2. CASE cache[TheRotator].created # store.created
      <4>1. cache[TheRotator].until - CacheTtl - MaxOpTicks <= store.created
        BY <1>3, <3>2 DEF DailyInv, Reading, ReadOk
      <4>. QED
        BY <1>1, <2>1, <2>3, <4>1
    <3>. QED
      BY <3>1, <3>2
  <2>. QED
    BY <1>1, <2>1, <2>2, <2>3
<1>. QED
  BY <1>2, <1>3 DEF CheckStep

LEMMA TimingNext ==
    ASSUME OrderlySchedule, Facts, Facts', DailyInv, OnlyRotator, DailyStep
    PROVE  Timing'
<1>. USE Schedule
<1>1. Timing
  BY DEF DailyInv
<1>2. ASSUME UNCHANGED <<now, checked, minted>>,
             store'.previous \in {store.previous, None}, store'.expiry \in {store.expiry, None}
      PROVE  Timing'
  BY <1>1, <1>2 DEF Timing, TimerDue, Handled
<1>3. ASSUME NEW x \in Replicas, BootReadStep(x) \/ LoadStep(x) \/ BootStep(x)
                                   \/ CleanStep(x) \/ PublishStep(x)
      PROVE  Timing'
  <2>1. /\ UNCHANGED <<now, checked, minted>>
        /\ store'.previous \in {store.previous, None} /\ store'.expiry \in {store.expiry, None}
    BY <1>3 DEF BootReadStep, LoadStep, BootStep, CleanStep, PublishStep, LoaderStep, StoreIs
  <2>. QED
    BY <1>2, <2>1
<1>4. CASE QuietStep \/ ForgetStep
  BY <1>2, <1>4 DEF QuietStep, ForgetStep
<1>5. CASE CheckStep
  <2>1. /\ UNCHANGED <<now, store, minted>> /\ checked'[TheRotator] /\ Handled' <= now
    BY <1>5 DEF CheckStep, Facts
  <2>2. Handled' \in Int /\ now \in Nat
    BY DEF Facts
  <2>. QED
    BY <1>5, <2>1, <2>2, CheckSeen DEF Timing, Facts, Times
<1>6. CASE StartStep
  BY <1>6, StartClear DEF StartStep, Timing
<1>7. CASE TickStep
  <2>1. /\ UNCHANGED <<store, minted>>
        /\ ~ checked'[TheRotator] => TimerDue'
        /\ Handled' = Handled \/ (Handled' <= now /\ (Phase # "idle" \/ minted = MaxMinted))
    BY <1>1, <1>7, HandledTick DEF TickStep
  <2>2. ASSUME store.previous # None, store.expiry # None, minted < MaxMinted, Handled' <= now,
               Phase # "idle"
        PROVE  Handled' < store.expiry + Skew + CacheTtl + MaxOpTicks
    <3>1. Phase \in {"putKid", "putCreated", "putActive", "forget"}
      BY <2>2 DEF DailyInv, FirstRun, Rotation, RotatingPCs
    <3>2. store.expiry \in Nat /\ now < store.expiry /\ Handled' \in Int /\ now \in Nat
      BY <3>1, StillOpen DEF Facts
    <3>. QED
      BY <2>2, <3>2
  <2>. QED
    BY <1>1, <2>1, <2>2 DEF Timing, Facts
<1>8. CASE PutStep
  <2>1. /\ UNCHANGED <<now, checked, minted>>
        /\ \/ store'.previous = store.previous /\ store'.expiry = store.expiry
           \/ store'.expiry = None
           \/ store'.expiry = now + OverlapWindow
    BY <1>8 DEF PutStep, StoreIs, DailyInv, Rotation
  <2>2. Handled' = Handled /\ (TimerDue' <=> TimerDue)
    BY <2>1 DEF Handled, TimerDue
  <2>3. Handled <= now /\ Handled \in Int /\ now \in Nat
    BY DEF Facts
  <2>. QED
    BY <1>1, <2>1, <2>2, <2>3 DEF Timing
<1>. QED
  BY <1>3, <1>4, <1>5, <1>6, <1>7, <1>8 DEF DailyStep

LEMMA AgeNext ==
    ASSUME OrderlySchedule, Facts, Facts', DailyInv, OnlyRotator, DailyStep
    PROVE  Age'
<1>. USE Schedule
<1>1. Age
  BY DEF DailyInv
<1>2. Handled <= now /\ Handled \in Int /\ now \in Nat
  BY DEF Facts
<1>3. ASSUME UNCHANGED <<now, checked, minted>>, Phase' = Phase, Began' = Began,
             store'.created = store.created \/ (store'.created = now /\ ~ Early)
      PROVE  Age'
  <2>1. Handled' = Handled /\ (Early' <=> Early)
    BY <1>3 DEF Handled, Early
  <2>2. Handled < now + RotationDuration
    BY <1>2
  <2>. QED
    BY <1>1, <1>3, <2>1, <2>2 DEF Age
<1>4. ASSUME NEW x \in Replicas, BootReadStep(x) \/ LoadStep(x) \/ CleanStep(x) \/ PublishStep(x)
      PROVE  Age'
  <2>1. /\ UNCHANGED <<now, checked, minted>> /\ Phase' = Phase /\ Began' = Began
        /\ store'.created = store.created
    BY <1>4 DEF BootReadStep, LoadStep, CleanStep, PublishStep, LoaderStep, RotatorKept, StoreIs
  <2>. QED
    BY <1>3, <2>1
<1>5. ASSUME NEW x \in Replicas, BootStep(x)
      PROVE  Age'
  <2>1. /\ UNCHANGED <<now, checked, minted>> /\ Phase' = Phase /\ Began' = Began
        /\ store'.created \in {store.created, now}
    BY <1>5 DEF BootStep, LoaderStep, RotatorKept, StoreIs
  <2>2. Phase \notin RotatingPCs
    BY <1>5 DEF BootStep, DailyInv, Booting, Numbering, Facts, Pair, Keys
  <2>. QED
    BY <1>3, <2>1, <2>2 DEF Early
<1>6. CASE QuietStep
  BY <1>3, <1>6 DEF QuietStep, RotatorKept
<1>7. CASE ForgetStep
  <2>1. /\ UNCHANGED <<store, minted>> /\ Handled' = Handled /\ ~ Early /\ ~ Early'
    BY <1>7 DEF ForgetStep, Handled, Early, RotatingPCs
  <2>. QED
    BY <1>1, <2>1 DEF Age
<1>8. CASE CheckStep
  <2>1. /\ UNCHANGED <<now, store, minted>> /\ ~ Early' /\ Handled' <= now /\ Handled' \in Int
    BY <1>8 DEF CheckStep, RotatorKept, Early, RotatingPCs, Facts
  <2>. QED
    BY <1>2, <1>8, <2>1, CheckSeen DEF Age, Facts, Times
<1>9. CASE StartStep
  <2>1. /\ UNCHANGED store /\ Began' = now /\ Early' /\ minted < MaxMinted /\ ~ Early
    BY <1>9 DEF StartStep, Early, RotatingPCs
  <2>2. now = Handled + CheckInterval
    BY <1>9, HandledFacts DEF StartStep, DailyInv
  <2>. QED
    BY <1>1, <1>2, <2>1, <2>2 DEF Age, Facts, Times
<1>10. CASE TickStep
  <2>1. /\ UNCHANGED <<store, minted>> /\ Began' = Began /\ (Early' <=> Early)
        /\ Handled' = Handled \/ (Handled' <= now /\ (Phase # "idle" \/ minted = MaxMinted))
        /\ Handled' \in Int
    BY <1>10, HandledTick DEF TickStep, RotatorKept, Early, DailyInv, Facts
  <2>2. ASSUME store.created # None, Handled' <= now, Phase # "idle", ~ Early
        PROVE  Handled' < store.created + RotationDuration
    <3>1. Phase \in {"putActive", "forget"}
      BY <2>2 DEF DailyInv, FirstRun, Early
    <3>2. /\ Began <= store.created /\ store.created \in Nat
          /\ now <= Began + MaxOpTicks /\ Began \in Nat
      BY <2>2, <3>1 DEF DailyInv, Rotation, Facts, Times
    <3>. QED
      BY <1>2, <2>1, <2>2, <3>2
  <2>. QED
    BY <1>1, <2>1, <2>2 DEF Age, Facts
<1>11. CASE PutStep
  <2>1. UNCHANGED <<now, minted>> /\ Began' = Began /\ Handled' = Handled
    BY <1>11 DEF PutStep, Handled
  <2>2. CASE Phase = "putCreated"
    <3>1. store'.created = now /\ ~ Early'
      BY <1>11, <2>2 DEF PutStep, StoreIs, Early
    <3>. QED
      BY <1>2, <2>1, <3>1 DEF Age
  <2>3. CASE Phase # "putCreated"
    <3>1. store'.created = store.created /\ (Early' <=> Early)
      BY <1>11, <2>3 DEF PutStep, StoreIs, Early, RotatingPCs
    <3>. QED
      BY <1>1, <2>1, <3>1 DEF Age
  <2>. QED
    BY <2>2, <2>3
<1>. QED
  BY <1>4, <1>5, <1>6, <1>7, <1>8, <1>9, <1>10, <1>11 DEF DailyStep

\* A signature that will be accepted stays so, whatever the step.
LEMMA GoodKept ==
    ASSUME OrderlySchedule, Facts, Facts', DailyInv, DailyStep,
           NEW k, NEW t \in Int, t <= now + CacheTtl + MaxOpTicks, Good(store, now, k, t)
    PROVE  Good(store', now', k, t)
<1>. USE Schedule
<1>1. Guarantee = OverlapWindow - CacheTtl - 2 * MaxOpTicks /\ now \in Nat
  BY DEF Guarantee, Facts
<1>2. t + Guarantee <= now => t + Guarantee <= now'
  <2>1. now' = now \/ now' = now + 1
    BY DEF DailyStep, LoaderStep, BootReadStep, BootStep, LoadStep, CleanStep, PublishStep,
           CheckStep, StartStep, PutStep, ForgetStep, TickStep, QuietStep
  <2>. QED
    BY <1>1, <2>1
<1>3. CASE UNCHANGED store
  BY <1>2, <1>3 DEF Good
<1>4. ASSUME NEW x \in Replicas, BootStep(x)
      PROVE  Good(store', now', k, t)
  <2>1. minted = 0 /\ Phase \notin RotatingPCs /\ store.previous = None
    BY <1>4 DEF BootStep, DailyInv, Booting, Numbering, Overlap, Facts, Pair, Keys
  <2>2. /\ store'.active \in {store.active, BootstrapKey} /\ BootstrapKey # None
        /\ BootstrapKey.key = 0
    BY <1>4, ConstantTypes, NoneAssumption DEF BootStep, StoreIs, BootstrapKey
  <2>3. store.active # None => store.active.key = 0 /\ store'.active # None /\ store'.active.key = 0
    BY <2>1, <2>2 DEF DailyInv, Numbering
  <2>. QED
    BY <1>2, <2>1, <2>3 DEF Good
<1>5. ASSUME NEW x \in Replicas, CleanStep(x)
      PROVE  Good(store', now', k, t)
  <2>1. CASE pc[x]["refresh"] = "cleanPrevious"
    <3>1. StoreIs(store.active, store.created, None, store.expiry) /\ now' = now
      BY <1>5, <2>1 DEF CleanStep, LoaderStep
    <3>2. store.expiry # None => store.expiry + Skew <= now /\ store.expiry \in Nat
      BY <2>1 DEF DailyInv, Cleaning, CleanPCs, Facts, Times
    <3>. QED
      BY <1>1, <3>1, <3>2 DEF Good, StoreIs
  <2>2. CASE pc[x]["refresh"] = "cleanExpiry"
    <3>1. StoreIs(store.active, store.created, store.previous, None) /\ now' = now
      BY <1>5, <2>2 DEF CleanStep, LoaderStep
    <3>2. store.previous = None
      BY <2>2 DEF DailyInv, Cleaning
    <3>. QED
      BY <3>1, <3>2 DEF Good, StoreIs
  <2>. QED
    BY <1>5, <2>1, <2>2 DEF CleanStep
<1>6. CASE PutStep
  <2>0. now' = now
    BY <1>6 DEF PutStep
  <2>1. CASE Phase \in {"putPrevious", "putExpiry"}
    <3>1. store'.active = store.active /\ store.expiry = None
      BY <1>6, <2>1 DEF PutStep, StoreIs, DailyInv, Rotation
    <3>. QED
      BY <2>0, <3>1 DEF Good
  <2>2. CASE Phase \in {"putKid", "putCreated"}
    <3>1. /\ store'.active = store.active /\ store'.previous = store.previous
          /\ store'.expiry = store.expiry
      BY <1>6, <2>2 DEF PutStep, StoreIs
    <3>. QED
      BY <2>0, <3>1 DEF Good
  <2>3. CASE Phase = "putActive"
    <3>1. /\ store'.previous = store.previous /\ store'.expiry = store.expiry
          /\ store.previous = Job.old /\ Job.old = store.active /\ store.previous # None
      BY <1>6, <2>3, NoneAssumption
         DEF PutStep, StoreIs, DailyInv, Rotation, Numbering, RotatingPCs, Facts, Pair, Raw
    <3>2. /\ store.expiry # None /\ Began + OverlapWindow <= store.expiry
          /\ now <= Began + MaxOpTicks /\ Began \in Nat
      BY <2>3 DEF DailyInv, Rotation, Facts
    <3>3. t + Guarantee <= store.expiry
      <4>1. store.expiry \in Nat
        BY <3>2 DEF Facts, Times
      <4>. QED
        BY <1>1, <3>2, <4>1
    <3>. QED
      BY <2>0, <3>1, <3>2, <3>3 DEF Good
  <2>. QED
    BY <1>6, <2>1, <2>2, <2>3 DEF PutStep
<1>7. CASE (\E x \in Replicas : BootReadStep(x) \/ LoadStep(x) \/ PublishStep(x))
           \/ CheckStep \/ StartStep \/ ForgetStep \/ TickStep \/ QuietStep
  <2>1. UNCHANGED store
    BY <1>7 DEF BootReadStep, LoadStep, PublishStep, CheckStep, StartStep, ForgetStep, TickStep,
                QuietStep
  <2>. QED
    BY <1>3, <2>1
<1>. QED
  BY <1>4, <1>5, <1>6, <1>7 DEF DailyStep

LEMMA GoodEarlier ==
    ASSUME OrderlySchedule, Facts, NEW k, NEW t \in Int, NEW u \in Int, u <= t, Good(store, now, k, t)
    PROVE  Good(store, now, k, u)
<1>1. Guarantee \in Int /\ now \in Nat /\ (store.expiry # None => store.expiry \in Nat)
  BY Schedule DEF Guarantee, Facts, Times
<1>. QED
  BY <1>1 DEF Good

LEMMA SignersNext ==
    ASSUME OrderlySchedule, Facts, Facts', DailyInv, OnlyRotator, DailyStep
    PROVE  Signers'
<1>. USE Schedule DEF Signers, LoadingPCs
<1>1. Signers
  BY DEF DailyInv
<1>2. ASSUME NEW r \in Replicas, pc[r]["refresh"] \in LoadingPCs
      PROVE  Good(store', now', view[r].active.key, started[r]["refresh"] + MaxOpTicks + CacheTtl)
  <2>1. /\ Good(store, now, view[r].active.key, started[r]["refresh"] + MaxOpTicks + CacheTtl)
        /\ started[r]["refresh"] <= now /\ started[r]["refresh"] \in Nat /\ now \in Nat
    BY <1>1, <1>2 DEF Facts
  <2>2. /\ started[r]["refresh"] + MaxOpTicks + CacheTtl \in Int
        /\ started[r]["refresh"] + MaxOpTicks + CacheTtl <= now + CacheTtl + MaxOpTicks
    BY <2>1
  <2>. QED
    BY <2>1, <2>2, GoodKept
<1>3. ASSUME NEW r \in Replicas, cache[r] # None
      PROVE  Good(store', now', cache[r].active.key, cache[r].until)
  <2>1. /\ Good(store, now, cache[r].active.key, cache[r].until)
        /\ cache[r].until \in Nat /\ cache[r].until <= now + CacheTtl /\ now \in Nat
    BY <1>1, <1>3 DEF Facts
  <2>2. cache[r].until \in Int /\ cache[r].until <= now + CacheTtl + MaxOpTicks
    BY <2>1
  <2>. QED
    BY <2>1, <2>2, GoodKept
<1>4. ASSUME NEW x \in Replicas, LoadStep(x)
      PROVE  Signers'
  <2>1. view'[x].active = store.active /\ store.active # None
    BY <1>4, ParsedActive DEF LoadStep, DailyInv
  <2>2. Good(store', now', view'[x].active.key, started'[x]["refresh"] + MaxOpTicks + CacheTtl)
    BY <1>4, <2>1 DEF LoadStep, Good
  <2>. QED
    BY <1>2, <1>3, <1>4, <2>2 DEF LoadStep, LoaderStep, LoaderKept
<1>5. ASSUME NEW x \in Replicas, PublishStep(x)
      PROVE  Signers'
  <2>1. /\ cache'[x].active = view[x].active /\ cache'[x].until = now + CacheTtl
        /\ store' = store /\ now' = now /\ pc[x]["refresh"] = "publish"
    BY <1>5 DEF PublishStep, LoaderStep
  <2>2. /\ started[x]["refresh"] \in Nat /\ now <= started[x]["refresh"] + MaxOpTicks
        /\ now \in Nat
        /\ Good(store, now, view[x].active.key, started[x]["refresh"] + MaxOpTicks + CacheTtl)
    BY <1>1, <2>1 DEF Facts
  <2>3. now + CacheTtl <= started[x]["refresh"] + MaxOpTicks + CacheTtl
        /\ now + CacheTtl \in Int /\ started[x]["refresh"] + MaxOpTicks + CacheTtl \in Int
    BY <2>2
  <2>4. Good(store, now, view[x].active.key, now + CacheTtl)
    BY <2>2, <2>3, GoodEarlier
  <2>. QED
    BY <1>2, <1>3, <1>5, <2>1, <2>4 DEF PublishStep, LoaderStep, LoaderKept
<1>6. ASSUME \A r \in Replicas :
                /\ pc'[r]["refresh"] \in LoadingPCs =>
                      /\ pc[r]["refresh"] \in LoadingPCs /\ view'[r] = view[r]
                      /\ started'[r]["refresh"] = started[r]["refresh"]
                /\ cache'[r] \in {cache[r], None}
      PROVE  Signers'
  BY <1>2, <1>3, <1>6
<1>7. ASSUME NEW x \in Replicas, BootReadStep(x) \/ BootStep(x) \/ CleanStep(x)
      PROVE  Signers'
  BY <1>6, <1>7 DEF BootReadStep, BootStep, CleanStep, LoaderStep, LoaderKept, BootPCs
<1>8. CASE CheckStep \/ StartStep \/ PutStep \/ ForgetStep \/ TickStep \/ QuietStep
  BY <1>6, <1>8 DEF CheckStep, StartStep, PutStep, ForgetStep, TickStep, QuietStep,
                    LoadersKept, LoaderKept, CachesKept
<1>. QED
  BY <1>4, <1>5, <1>7, <1>8 DEF DailyStep

-----------------------------------------------------------------------------
(* The theorems.                                                           *)

LEMMA InitDaily ==
    ASSUME OrderlySchedule, Init
    PROVE  DailyInv
<1>. USE Schedule, ThreadFacts DEF LoadingPCs, RotatingPCs, BootPCs, CleanPCs
<1>1. /\ now = 0 /\ minted = 0 /\ checked[TheRotator]
      /\ store.active = None /\ store.created = None
      /\ store.previous = None /\ store.expiry = None
      /\ kidOf[0] = 1
  BY BoundAssumption DEF Init, OrderlySchedule, NoValues, Keys
<1>2. /\ \A r \in Replicas : cache[r] = None
      /\ \A r \in Replicas : pc[r]["refresh"] = "idle" /\ pc[r]["rotate"] = "idle"
      /\ Phase = "idle"
  BY DEF Init, Phase
<1>3. FirstRun /\ Booting /\ Rotation /\ Cleaning /\ Reading /\ Signers
  BY <1>1, <1>2 DEF FirstRun, Booting, Rotation, Cleaning, Reading, Signers
<1>4. Numbering /\ Overlap /\ Timing /\ Age
  BY <1>1, <1>2 DEF Numbering, Numbered, Overlap, Timing, Age
<1>. QED
  BY <1>3, <1>4 DEF DailyInv

LEMMA InvNext ==
    ASSUME OrderlySchedule, TypeInv, TypeInv', SinceInv, SinceInv', DailyInv, [Next]_vars
    PROVE  DailyInv'
<1>1. Facts /\ OnlyRotator /\ DailyStep /\ TypeOK
  BY FactsHold, NextDaily DEF DailyInv, TypeInv
<1>2. Facts'
  BY FactsHold, PTL
<1>. QED
  BY <1>1, <1>2, FirstRunNext, BootingNext, NumberingNext, RotationNext, OverlapNext,
     CleaningNext, ReadingNext, TimingNext, AgeNext, SignersNext
     DEF DailyInv

ScheduleInv == TypeInv /\ SinceInv /\ DailyInv

LEMMA InitSchedule == OrderlySchedule /\ Init => ScheduleInv
BY InitType, InitRetire, InitDaily DEF ScheduleInv

LEMMA NextSchedule == OrderlySchedule /\ ScheduleInv /\ [Next]_vars => ScheduleInv'
BY NextType, NextRetire, InvNext DEF ScheduleInv

LEMMA StepKeeps ==
    ASSUME OrderlySchedule, ScheduleInv, NEW r \in Replicas, RotateWrite(r),
           store'.active # store.active
    PROVE  store.previous = ParseKidCipher(store) /\ OverlapOpen(store)
<1>1. Facts /\ DailyInv /\ PutStep
  BY FactsHold, RotateWriteDaily DEF ScheduleInv, DailyInv
<1>2. Phase = "putActive"
  BY <1>1 DEF PutStep, StoreIs
<1>3. store.previous = store.active /\ store.active # None
  BY <1>1, <1>2 DEF DailyInv, Rotation, Numbering, RotatingPCs, FirstRun
<1>4. store.expiry \in Nat /\ now < store.expiry
  BY <1>1, <1>2, StillOpen
<1>. QED
  BY <1>1, <1>3, <1>4, ParsedActive, Schedule DEF DailyInv, OverlapOpen

\* In that deployment a rotation writes the new active key only while the store holds the one
\* it replaces as the previous key, with its overlap window open, so that no token signed
\* with it is cut off: however many replicas load, clean up, and bootstrap meanwhile.
THEOREM RotationKeepsPrevious ==
    ASSUME OrderlySchedule
    PROVE  Spec => ReplacedKeyKept
<1>1. Init => ScheduleInv
  BY InitSchedule
<1>2. ScheduleInv /\ [Next]_vars => ScheduleInv'
  BY NextSchedule
<1>3. ScheduleInv /\ [Next]_vars =>
         [\A r \in Replicas :
            RotateWrite(r) /\ store'.active # store.active =>
                store.previous = ParseKidCipher(store) /\ OverlapOpen(store)]_vars
  BY StepKeeps
<1>. QED
  BY <1>1, <1>2, <1>3, PTL DEF Spec, ReplacedKeyKept

LEMMA StepCleans ==
    ASSUME OrderlySchedule, ScheduleInv, NEW r \in Replicas, CleanUp(r),
           store.previous # None, store'.previous = None
    PROVE  ~ OverlapOpen(store)
<1>1. Facts /\ DailyInv /\ CleanStep(r)
  BY FactsHold, CleanUpDaily DEF ScheduleInv, DailyInv
<1>2. pc[r]["refresh"] \in CleanPCs
  BY <1>1 DEF CleanStep, CleanPCs
<1>3. store.expiry # None => store.expiry + Skew <= now /\ store.expiry \in Nat /\ now \in Nat
  BY <1>1, <1>2 DEF DailyInv, Cleaning, Facts, Times
<1>. QED
  BY <1>3, Schedule DEF OverlapOpen

\* A previous key is cleaned up only when its overlap window is over: a clean-up that
\* deletes a live one, as the run JwtCleanUpRace shows it, needs a rotation that is due
\* before the clean-ups of the last one are over, or a fault.
THEOREM CleanUpWaits ==
    ASSUME OrderlySchedule
    PROVE  Spec => CleanUpOnlyExpired
<1>1. Init => ScheduleInv
  BY InitSchedule
<1>2. ScheduleInv /\ [Next]_vars => ScheduleInv'
  BY NextSchedule
<1>3. ScheduleInv /\ [Next]_vars =>
         [\A r \in Replicas :
            CleanUp(r) /\ store.previous # None /\ store'.previous = None =>
                ~ OverlapOpen(store)]_vars
  BY StepCleans
<1>. QED
  BY <1>1, <1>2, <1>3, PTL DEF Spec, CleanUpOnlyExpired

LEMMA StepBoots ==
    ASSUME OrderlySchedule, ScheduleInv, NEW r \in Replicas, NEW t \in Threads,
           Bootstrap(r, t), store'.active # store.active
    PROVE  store.active = None
<1>1. Facts /\ DailyInv /\ BootStep(r)
  BY FactsHold, BootstrapDaily DEF ScheduleInv, DailyInv
<1>2. SUFFICES ASSUME store.active # None
               PROVE  store.active = BootstrapKey
  BY <1>1 DEF BootStep, StoreIs
<1>3. minted = 0 /\ Phase \notin RotatingPCs
  BY <1>1 DEF BootStep, DailyInv, Booting, Numbering, Facts, Pair, Keys
<1>4. store.active.key = 0 /\ store.active.kid = 1
  BY <1>1, <1>2, <1>3, ParsedActive DEF DailyInv, Numbering
<1>. QED
  BY <1>1, <1>2, <1>4 DEF Facts, Raw, BootstrapKey

\* A bootstrap stores an active key only where there is none: several replicas may
\* bootstrap at once, but they derive the same key and nothing has replaced it by then.
THEOREM BootstrapsOnce ==
    ASSUME OrderlySchedule
    PROVE  Spec => BootstrapOnlyOnFirstRun
<1>1. Init => ScheduleInv
  BY InitSchedule
<1>2. ScheduleInv /\ [Next]_vars => ScheduleInv'
  BY NextSchedule
<1>3. ScheduleInv /\ [Next]_vars =>
         [\A r \in Replicas, t \in Threads :
            Bootstrap(r, t) /\ store'.active # store.active => store.active = None]_vars
  BY StepBoots
<1>. QED
  BY <1>1, <1>2, <1>3, PTL DEF Spec, BootstrapOnlyOnFirstRun
=============================================================================
