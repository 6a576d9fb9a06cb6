--------------------------- MODULE JwtKeysProofs ---------------------------
(***************************************************************************)
(* Proofs about the signing-key protocol, for any number of replicas, any  *)
(* time limits and any faults.                                             *)
(***************************************************************************)
EXTENDS JwtKeys, TLAPS

-----------------------------------------------------------------------------
(* What the helpers return.                                                *)

LEMMA ParseType ==
    ASSUME NEW v \in Values, v.active # None
    PROVE  ParseKidCipher(v) \in Pair
BY DEF ParseKidCipher, Values, Raw, Pair, Kids

LEMMA LoadedType ==
    ASSUME NEW v \in Values, v.active # None
    PROVE  /\ Loaded(v) \in Values
           /\ Loaded(v).active \in Pair
           /\ Loaded(v).active = ParseKidCipher(v)
           /\ Loaded(v).previous \in {v.previous, None}
           /\ Loaded(v).expiry = v.expiry
           /\ Loaded(v).created = v.created
<1>1. ParseKidCipher(v) \in Pair
  BY ParseType
<1>2. Pair \subseteq Raw
  BY DEF Pair, Raw
<1>. QED
  BY <1>1, <1>2 DEF Loaded, NoValues, Values, Times, PreviousLive

LEMMA ConstantTypes ==
    /\ NoValues \in Values
    /\ BootstrapKey \in Pair
    /\ BootstrapKey \in Raw
    /\ NoJob \in [old : Pair, new : Pair]
    /\ LegacyValues \in Values
<1>1. NoValues \in Values
  BY DEF NoValues, Values, Times
<1>2. 0 \in Keys /\ 1 \in Kids
  BY BoundAssumption DEF Keys, Kids
<1>3. BootstrapKey \in Pair /\ BootstrapKey \in Raw
  BY <1>2 DEF BootstrapKey, Pair, Raw
<1>4. [kid |-> None, key |-> 0] \in Raw
  BY <1>2 DEF Raw
<1>5. LegacyValues \in Values
  BY <1>1, <1>2, <1>4 DEF LegacyValues, Values, Times, NoValues
<1>. QED
  BY <1>1, <1>3, <1>5 DEF NoJob

\* Updating one thread's entry.
LEMMA UpdateThread ==
    ASSUME NEW S, NEW f \in [Replicas -> [Threads -> S]],
           NEW r \in Replicas, NEW t \in Threads, NEW x \in S
    PROVE  /\ [f EXCEPT ![r][t] = x] \in [Replicas -> [Threads -> S]]
           /\ [f EXCEPT ![r][t] = x][r][t] = x
           /\ \A r2 \in Replicas, t2 \in Threads :
                 <<r2, t2>> # <<r, t>> => [f EXCEPT ![r][t] = x][r2][t2] = f[r2][t2]
OBVIOUS

-----------------------------------------------------------------------------
(* Type correctness.                                                       *)

\* The state of a refresh that is about to be published has an active key.
ViewReady ==
    \A r \in Replicas :
        pc[r]["refresh"] \in {"publish", "cleanPrevious", "cleanExpiry"} =>
            view[r].active \in Pair

TypeInv == TypeOK /\ ViewReady

LEMMA WriteType ==
    ASSUME TypeInv, NEW r \in Replicas, NEW t \in Threads, NEW p, NEW s \in Values,
           NEW q \in PCs, Write(r, t, p, s, q),
           q = "publish" \/ q = "cleanExpiry" => p \in {"cleanPrevious", "cleanExpiry"} /\ t = "refresh",
           q # "cleanPrevious"
    PROVE  TypeInv'
<1>. USE DEF TypeInv, TypeOK
<1>a. Applied(s) \/ UNCHANGED <<store, retiredAt>>
  BY DEF Write
<1>b. \/ Goto(r, t, q) /\ UNCHANGED <<started, view, job>>
      \/ Finish(r, t)
  BY DEF Write
<1>c. pc[r][t] = p /\ UNCHANGED <<now, cache, checked, minted, kidOf>>
  BY DEF Write
<1>d. faults' \in 0 .. MaxFaults
  <2>1. faults' = faults \/ (faults < MaxFaults /\ faults' = faults + 1)
    BY DEF Write, Fault
  <2>. QED
    BY <2>1, BoundAssumption
<1>1. store' \in Values
  BY <1>a DEF Applied
<1>2. retiredAt' \in [Keys -> Nat]
  <2>1. \A k : [retiredAt EXCEPT ![k] = now] \in [Keys -> Nat]
    OBVIOUS
  <2>2. retiredAt' = retiredAt \/ \E k : retiredAt' = [retiredAt EXCEPT ![k] = now]
    BY <1>a DEF Applied
  <2>. QED
    BY <2>1, <2>2
<1>3. pc' \in [Replicas -> [Threads -> PCs]]
  <2>1. \A x \in PCs : [pc EXCEPT ![r][t] = x] \in [Replicas -> [Threads -> PCs]]
    OBVIOUS
  <2>2. "idle" \in PCs
    BY DEF PCs
  <2>. QED
    BY <1>b, <2>1, <2>2 DEF Finish, Goto
<1>4. started' \in [Replicas -> [Threads -> Nat]] /\ view' \in [Replicas -> Values]
      /\ job' \in [Replicas -> [old : Pair, new : Pair]]
  <2>1. started' \in [Replicas -> [Threads -> Nat]]
    <3>1. [started EXCEPT ![r][t] = 0] \in [Replicas -> [Threads -> Nat]]
      OBVIOUS
    <3>. QED
      BY <1>b, <3>1 DEF Finish
  <2>2. view' \in [Replicas -> Values]
    BY <1>b, ConstantTypes DEF Finish
  <2>3. job' \in [Replicas -> [old : Pair, new : Pair]]
    BY <1>b, ConstantTypes DEF Finish
  <2>. QED
    BY <2>1, <2>2, <2>3
<1>5. ViewReady'
  <2> SUFFICES ASSUME NEW x \in Replicas,
                      pc'[x]["refresh"] \in {"publish", "cleanPrevious", "cleanExpiry"}
               PROVE  view'[x].active \in Pair
    BY DEF ViewReady
  <2>1. "refresh" \in Threads
    BY DEF Threads
  <2>2. PICK e \in {q, "idle"} : pc' = [pc EXCEPT ![r][t] = e]
    BY <1>b DEF Finish, Goto
  <2>3. CASE x = r /\ t = "refresh"
    <3>1. pc'[x]["refresh"] = e
      BY <2>1, <2>2, <2>3
    <3>2. e = q
      BY <2>2, <3>1
    <3>3. pc[x]["refresh"] \in {"cleanPrevious", "cleanExpiry"}
      BY <1>c, <2>3, <3>1, <3>2
    <3>4. view' = view
      BY <1>b, <2>3, <3>1, <3>2 DEF Finish, Goto
    <3>. QED
      BY <3>3, <3>4 DEF ViewReady
  <2>4. CASE ~ (x = r /\ t = "refresh")
    <3>1. pc'[x]["refresh"] = pc[x]["refresh"]
      BY <2>1, <2>2, <2>4
    <3>2. view'[x] = view[x]
      BY <1>b, <2>4 DEF Finish
    <3>. QED
      BY <3>1, <3>2 DEF ViewReady
  <2>. QED
    BY <2>3, <2>4
<1>. QED
  BY <1>c, <1>d, <1>1, <1>2, <1>3, <1>4, <1>5

LEMMA StoreUpdates ==
    ASSUME TypeOK
    PROVE  /\ \A p \in Pair \cup {None} : [store EXCEPT !.active = p] \in Values
           /\ \A p \in Pair \cup {None} : [store EXCEPT !.previous = p] \in Values
           /\ \A k \in Kids \cup {None} : [store EXCEPT !.activeKid = k] \in Values
           /\ \A x \in Times : [store EXCEPT !.created = x] \in Values
           /\ \A x \in Times : [store EXCEPT !.expiry = x] \in Values
<1>1. Pair \subseteq Raw
  BY DEF Pair, Raw
<1>. QED
  BY <1>1 DEF TypeOK, Values

LEMMA BootstrapType ==
    ASSUME TypeInv, NEW r \in Replicas, NEW t \in Threads, Bootstrap(r, t)
    PROVE  TypeInv'
<1>. USE StoreUpdates, ConstantTypes DEF PCs, TypeInv
<1>1. CASE Write(r, t, "bootActive", [store EXCEPT !.active = BootstrapKey], "bootKid")
  BY <1>1, WriteType
<1>2. CASE Write(r, t, "bootKid", [store EXCEPT !.activeKid = 1], "bootCreated")
  BY <1>2, WriteType DEF Kids
<1>3. CASE Write(r, t, "bootCreated", [store EXCEPT !.created = now], "bootPrevious")
  BY <1>3, WriteType DEF Times, TypeOK
<1>4. CASE Write(r, t, "bootPrevious", [store EXCEPT !.previous = None], "bootExpiry")
  BY <1>4, WriteType
<1>5. CASE Write(r, t, "bootExpiry", [store EXCEPT !.expiry = None],
                 IF t = "refresh" THEN "reread" ELSE "forget")
  BY <1>5, WriteType DEF Times
<1>. QED
  BY <1>1, <1>2, <1>3, <1>4, <1>5 DEF Bootstrap

LEMMA CleanUpType ==
    ASSUME TypeInv, NEW r \in Replicas, CleanUp(r)
    PROVE  TypeInv'
<1>. USE StoreUpdates DEF PCs, TypeInv, Threads
<1>1. CASE Write(r, "refresh", "cleanPrevious", [store EXCEPT !.previous = None], "cleanExpiry")
  BY <1>1, WriteType
<1>2. CASE Write(r, "refresh", "cleanExpiry", [store EXCEPT !.expiry = None], "publish")
  BY <1>2, WriteType DEF Times
<1>. QED
  BY <1>1, <1>2 DEF CleanUp

LEMMA RotateWriteType ==
    ASSUME TypeInv, NEW r \in Replicas, RotateWrite(r)
    PROVE  TypeInv'
<1>. USE StoreUpdates DEF PCs, TypeInv, Threads
<1>0. job[r].old \in Pair /\ job[r].new \in Pair /\ job[r].new.kid \in Kids /\ now \in Nat
  BY DEF TypeOK, Pair
<1>1. CASE Write(r, "rotate", "putPrevious", [store EXCEPT !.previous = job[r].old], "putExpiry")
  BY <1>0, <1>1, WriteType
<1>2. CASE Write(r, "rotate", "putExpiry", [store EXCEPT !.expiry = now + OverlapWindow], "putKid")
  <2>1. now + OverlapWindow \in Times
    BY <1>0, TimeAssumption DEF Times
  <2>. QED
    BY <2>1, <1>2, WriteType
<1>3. CASE Write(r, "rotate", "putKid", [store EXCEPT !.activeKid = job[r].new.kid], "putCreated")
  BY <1>0, <1>3, WriteType
<1>4. CASE Write(r, "rotate", "putCreated", [store EXCEPT !.created = now], "putActive")
  BY <1>0, <1>4, WriteType DEF Times
<1>5. CASE Write(r, "rotate", "putActive", [store EXCEPT !.active = job[r].new], "forget")
  BY <1>0, <1>5, WriteType
<1>. QED
  BY <1>1, <1>2, <1>3, <1>4, <1>5 DEF RotateWrite

LEMMA FaultType ==
    ASSUME TypeOK, UNCHANGED faults \/ \E kind : Fault(kind)
    PROVE  faults' \in 0 .. MaxFaults
<1>1. faults' = faults \/ (faults < MaxFaults /\ faults' = faults + 1)
  BY DEF Fault
<1>. QED
  BY <1>1, BoundAssumption DEF TypeOK

\* The end of an operation.
LEMMA FinishType ==
    ASSUME TypeOK, NEW r \in Replicas, NEW t \in Threads, Finish(r, t)
    PROVE  /\ pc' \in [Replicas -> [Threads -> PCs]]
           /\ started' \in [Replicas -> [Threads -> Nat]]
           /\ view' \in [Replicas -> Values]
           /\ job' \in [Replicas -> [old : Pair, new : Pair]]
           /\ pc'[r][t] = "idle"
           /\ \A r2 \in Replicas, t2 \in Threads : <<r2, t2>> # <<r, t>> => pc'[r2][t2] = pc[r2][t2]
<1>. USE DEF TypeOK
<1>0. "idle" \in PCs
  BY DEF PCs
<1>1. pc' = [pc EXCEPT ![r][t] = "idle"] /\ started' = [started EXCEPT ![r][t] = 0]
  BY DEF Finish, Goto
<1>2. pc' \in [Replicas -> [Threads -> PCs]]
  BY <1>0, <1>1
<1>3. started' \in [Replicas -> [Threads -> Nat]]
  BY <1>1
<1>4. view' \in [Replicas -> Values]
  BY ConstantTypes DEF Finish
<1>5. job' \in [Replicas -> [old : Pair, new : Pair]]
  BY ConstantTypes DEF Finish
<1>6. pc'[r][t] = "idle"
  BY <1>1
<1>7. \A r2 \in Replicas, t2 \in Threads : <<r2, t2>> # <<r, t>> => pc'[r2][t2] = pc[r2][t2]
  BY <1>1
<1>. QED
  BY <1>2, <1>3, <1>4, <1>5, <1>6, <1>7

\* A refresh that goes on with the values it read.
LEMMA ProceedType ==
    ASSUME TypeInv, NEW r \in Replicas, NEW v \in Values, v.active # None, Proceed(r, v)
    PROVE  /\ pc' \in [Replicas -> [Threads -> PCs]]
           /\ view' \in [Replicas -> Values]
           /\ ViewReady'
<1>. USE DEF TypeInv, TypeOK
<1>1. "publish" \in PCs /\ "cleanPrevious" \in PCs /\ "refresh" \in Threads
  BY DEF PCs, Threads
<1>2. Loaded(v) \in Values /\ Loaded(v).active \in Pair
  BY LoadedType
<1>3. view' = [view EXCEPT ![r] = Loaded(v)]
  BY DEF Proceed
<1>4. \E q \in {"publish", "cleanPrevious"} : pc' = [pc EXCEPT ![r]["refresh"] = q]
  BY DEF Proceed, Goto
<1>5. pc' \in [Replicas -> [Threads -> PCs]]
  BY <1>1, <1>4
<1>6. view' \in [Replicas -> Values]
  BY <1>2, <1>3
<1>7. ViewReady'
  <2>. SUFFICES ASSUME NEW x \in Replicas,
                       pc'[x]["refresh"] \in {"publish", "cleanPrevious", "cleanExpiry"}
                PROVE  view'[x].active \in Pair
    BY DEF ViewReady
  <2>1. CASE x = r
    BY <2>1, <1>2, <1>3
  <2>2. CASE x # r
    BY <2>2, <1>3, <1>4 DEF ViewReady
  <2>. QED
    BY <2>1, <2>2
<1>. QED
  BY <1>5, <1>6, <1>7

LEMMA ReceiveType ==
    ASSUME TypeOK, NEW v, Receive(v)
    PROVE  v \in Values /\ (UNCHANGED faults \/ \E kind : Fault(kind))
BY ConstantTypes DEF Receive, TypeOK

LEMMA RefreshReadType ==
    ASSUME TypeInv, NEW r \in Replicas, RefreshRead(r)
    PROVE  TypeInv'
<1>. USE DEF TypeInv, TypeOK
<1>1. PICK v \in {store, NoValues} :
        /\ Receive(v)
        /\ \/ v.active = None /\ Goto(r, "refresh", "bootActive") /\ UNCHANGED view
           \/ v.active # None /\ Proceed(r, v)
  BY DEF RefreshRead
<1>2. v \in Values /\ (UNCHANGED faults \/ \E kind : Fault(kind))
  BY <1>1, ReceiveType
<1>3. faults' \in 0 .. MaxFaults
  BY <1>2, FaultType
<1>4. started' \in [Replicas -> [Threads -> Nat]]
  BY DEF RefreshRead
<1>5. pc' \in [Replicas -> [Threads -> PCs]] /\ view' \in [Replicas -> Values] /\ ViewReady'
  <2>1. CASE Goto(r, "refresh", "bootActive") /\ UNCHANGED view
    <3>1. "bootActive" \in PCs /\ "refresh" \in Threads
      BY DEF PCs, Threads
    <3>2. pc' = [pc EXCEPT ![r]["refresh"] = "bootActive"]
      BY <2>1 DEF Goto
    <3>3. ViewReady'
      BY <2>1, <3>2, <3>1 DEF ViewReady
    <3>. QED
      BY <2>1, <3>1, <3>2, <3>3
  <2>2. CASE v.active # None /\ Proceed(r, v)
    BY <2>2, <1>2, ProceedType
  <2>. QED
    BY <1>1, <2>1, <2>2
<1>6. UNCHANGED <<now, store, cache, job, checked, minted, kidOf, retiredAt>>
  BY DEF RefreshRead
<1>. QED
  BY <1>3, <1>4, <1>5, <1>6

LEMMA RefreshRereadType ==
    ASSUME TypeInv, NEW r \in Replicas, RefreshReread(r)
    PROVE  TypeInv'
<1>. USE DEF TypeInv
<1>0. "refresh" \in Threads
  BY DEF Threads
<1>1. UNCHANGED <<now, store, cache, checked, minted, kidOf, retiredAt>>
  BY DEF RefreshReread
<1>2. CASE /\ Finish(r, "refresh")
           /\ UNCHANGED faults \/ \E kind : Fault(kind)
  <2>1. faults' \in 0 .. MaxFaults
    BY <1>2, FaultType
  <2>2. ViewReady'
    <3>1. pc'[r]["refresh"] = "idle"
      BY <1>2, <1>0, FinishType
    <3>2. \A x \in Replicas \ {r} : pc'[x]["refresh"] = pc[x]["refresh"]
      BY <1>2, <1>0, FinishType
    <3>3. \A x \in Replicas \ {r} : view'[x] = view[x]
      BY <1>2 DEF Finish, TypeOK
    <3>. QED
      BY <3>1, <3>2, <3>3 DEF ViewReady
  <2>. QED
    BY <1>0, <1>1, <1>2, <2>1, <2>2, FinishType DEF TypeOK
<1>3. ASSUME NEW v \in {store, NoValues}, Receive(v), v.active # None, Proceed(r, v),
             UNCHANGED <<started, job>>
      PROVE  TypeInv'
  <2>1. v \in Values /\ faults' \in 0 .. MaxFaults
    BY <1>3, ReceiveType, FaultType
  <2>. QED
    BY <1>1, <1>3, <2>1, ProceedType DEF TypeOK
<1>. QED
  BY <1>2, <1>3, ReceiveType DEF RefreshReread

LEMMA RefreshPublishType ==
    ASSUME TypeInv, NEW r \in Replicas, RefreshPublish(r)
    PROVE  TypeInv'
<1>. USE DEF TypeInv
<1>0. "refresh" \in Threads
  BY DEF Threads
<1>1. UNCHANGED <<now, store, checked, minted, kidOf, retiredAt, faults>> /\ Finish(r, "refresh")
  BY DEF RefreshPublish
<1>2. cache' \in [Replicas -> KeyState \cup {None}]
  <2>1. view[r].active \in Pair /\ view[r] \in Values
    BY DEF RefreshPublish, ViewReady, TypeOK
  <2>2. now + CacheTtl \in Nat
    BY TimeAssumption DEF TypeOK
  <2>3. [active |-> view[r].active, previous |-> view[r].previous,
         expiry |-> view[r].expiry, created |-> view[r].created,
         until |-> now + CacheTtl] \in KeyState
    BY <2>1, <2>2 DEF KeyState, Values
  <2>. QED
    BY <2>3 DEF RefreshPublish, TypeOK
<1>3. ViewReady'
  <2>1. pc'[r]["refresh"] = "idle"
    BY <1>1, <1>0, FinishType
  <2>2. \A x \in Replicas \ {r} : pc'[x]["refresh"] = pc[x]["refresh"]
    BY <1>1, <1>0, FinishType
  <2>3. \A x \in Replicas \ {r} : view'[x] = view[x]
    BY <1>1 DEF Finish, TypeOK
  <2>. QED
    BY <2>1, <2>2, <2>3 DEF ViewReady
<1>. QED
  BY <1>0, <1>1, <1>2, <1>3, FinishType DEF TypeOK

LEMMA RotationNotDueType ==
    ASSUME TypeInv, NEW r \in Replicas, RotationNotDue(r)
    PROVE  TypeInv'
<1>. USE DEF TypeInv, TypeOK
<1>1. UNCHANGED faults \/ \E kind : Fault(kind)
  BY DEF RotationNotDue
<1>2. faults' \in 0 .. MaxFaults
  BY <1>1, FaultType
<1>3. checked' \in [Replicas -> BOOLEAN]
  BY DEF RotationNotDue
<1>4. ViewReady'
  BY DEF RotationNotDue, ViewReady
<1>. QED
  BY <1>2, <1>3, <1>4 DEF RotationNotDue

LEMMA MintType ==
    ASSUME TypeOK, NEW r \in Replicas, NEW old \in Pair, Mint(r, old), minted < MaxMinted
    PROVE  /\ job' \in [Replicas -> [old : Pair, new : Pair]]
           /\ minted' \in Keys
           /\ kidOf' \in [Keys -> Kids]
<1>. USE DEF TypeOK
<1>1. old.kid + 1 \in Kids
  BY DEF Pair, Kids
<1>2. minted + 1 \in Keys
  BY BoundAssumption DEF Keys
<1>3. [kid |-> old.kid + 1, key |-> minted + 1] \in Pair
  BY <1>1, <1>2 DEF Pair
<1>. QED
  BY <1>1, <1>2, <1>3 DEF Mint

LEMMA RotateReadType ==
    ASSUME TypeInv, NEW r \in Replicas, RotateRead(r)
    PROVE  TypeInv'
<1>. USE DEF TypeInv
<1>0. "rotate" \in Threads /\ "bootActive" \in PCs /\ "putPrevious" \in PCs
  BY DEF Threads, PCs
<1>1. /\ UNCHANGED <<now, store, cache, view, retiredAt>>
      /\ checked' = [checked EXCEPT ![r] = TRUE]
      /\ minted < MaxMinted
  BY DEF RotateRead
<1>2. /\ UNCHANGED faults \/ \E kind : Fault(kind)
      /\ \/ UNCHANGED <<pc, started, job, minted, kidOf>>
         \/ Begin(r, "rotate", "bootActive") /\ UNCHANGED <<job, minted, kidOf>>
         \/ \E v \in Values : /\ v.active # None
                              /\ Begin(r, "rotate", "putPrevious")
                              /\ Mint(r, ParseKidCipher(v))
  <2>1. CASE Fault("throw") /\ UNCHANGED <<pc, started, job, minted, kidOf>>
    BY <2>1
  <2>2. CASE \E v \in {store, NoValues} :
               /\ Receive(v)
               /\ \/ OverlapOpen(v) /\ UNCHANGED <<pc, started, job, minted, kidOf>>
                  \/ /\ ~ OverlapOpen(v) /\ v.active = None
                     /\ Begin(r, "rotate", "bootActive")
                     /\ UNCHANGED <<job, minted, kidOf>>
                  \/ /\ ~ OverlapOpen(v) /\ v.active # None
                     /\ Begin(r, "rotate", "putPrevious")
                     /\ Mint(r, ParseKidCipher(v))
    BY <2>2, ReceiveType
  <2>. QED
    BY <2>1, <2>2 DEF RotateRead
<1>3. faults' \in 0 .. MaxFaults
  BY <1>2, FaultType
<1>4. pc' \in [Replicas -> [Threads -> PCs]] /\ started' \in [Replicas -> [Threads -> Nat]]
  <2>1. \A x \in PCs : [pc EXCEPT ![r]["rotate"] = x] \in [Replicas -> [Threads -> PCs]]
    BY DEF TypeOK
  <2>2. [started EXCEPT ![r]["rotate"] = now] \in [Replicas -> [Threads -> Nat]]
    BY DEF TypeOK
  <2>. QED
    BY <1>0, <1>2, <2>1, <2>2 DEF Begin, Goto, TypeOK
<1>5. job' \in [Replicas -> [old : Pair, new : Pair]] /\ minted' \in Keys
      /\ kidOf' \in [Keys -> Kids]
  BY <1>1, <1>2, ParseType, MintType DEF TypeOK
<1>6. ViewReady'
  <2>1. \A x \in Replicas : pc'[x]["refresh"] = pc[x]["refresh"]
    <3>1. CASE UNCHANGED pc
      BY <3>1
    <3>2. ASSUME NEW q, Goto(r, "rotate", q)
          PROVE  \A x \in Replicas : pc'[x]["refresh"] = pc[x]["refresh"]
      BY <3>2 DEF Goto, TypeOK, Threads
    <3>. QED
      BY <1>2, <3>1, <3>2 DEF Begin
  <2>. QED
    BY <2>1, <1>1 DEF ViewReady
<1>. QED
  BY <1>1, <1>3, <1>4, <1>5, <1>6 DEF TypeOK

LEMMA RotateForgetType ==
    ASSUME TypeInv, NEW r \in Replicas, RotateForget(r)
    PROVE  TypeInv'
<1>. USE DEF TypeInv
<1>0. "rotate" \in Threads /\ "refresh" \in Threads /\ <<r, "rotate">> # <<r, "refresh">>
  BY DEF Threads
<1>1. Finish(r, "rotate") /\ UNCHANGED <<now, store, checked, minted, kidOf, retiredAt, faults>>
  BY DEF RotateForget
<1>2. cache' \in [Replicas -> KeyState \cup {None}]
  BY DEF RotateForget, TypeOK
<1>3. ViewReady'
  <2>1. \A x \in Replicas : pc'[x]["refresh"] = pc[x]["refresh"]
    BY <1>1, <1>0 DEF Finish, Goto, TypeOK
  <2>2. view' = view
    BY <1>1 DEF Finish
  <2>. QED
    BY <2>1, <2>2 DEF ViewReady
<1>. QED
  BY <1>0, <1>1, <1>2, <1>3, FinishType DEF TypeOK

LEMMA CrashType ==
    ASSUME TypeInv, NEW r \in Replicas, Crash(r)
    PROVE  TypeInv'
<1>. USE DEF TypeInv, TypeOK
<1>1. [t \in Threads |-> "idle"] \in [Threads -> PCs] /\ [t \in Threads |-> 0] \in [Threads -> Nat]
  BY DEF PCs
<1>2. faults' \in 0 .. MaxFaults
  BY FaultType DEF Crash
<1>3. cache' \in [Replicas -> KeyState \cup {None}]
  BY DEF Crash
<1>4. view' \in [Replicas -> Values] /\ job' \in [Replicas -> [old : Pair, new : Pair]]
  BY ConstantTypes DEF Crash
<1>5. pc' \in [Replicas -> [Threads -> PCs]] /\ started' \in [Replicas -> [Threads -> Nat]]
  BY <1>1 DEF Crash
<1>6. ViewReady'
  <2>1. pc'[r]["refresh"] = "idle"
    BY DEF Crash, Threads
  <2>2. \A x \in Replicas \ {r} : pc'[x] = pc[x] /\ view'[x] = view[x]
    BY DEF Crash
  <2>. QED
    BY <2>1, <2>2 DEF ViewReady
<1>. QED
  BY <1>2, <1>3, <1>4, <1>5, <1>6 DEF Crash

LEMMA TickType ==
    ASSUME TypeInv, Tick
    PROVE  TypeInv'
BY DEF Tick, TypeInv, TypeOK, ViewReady

LEMMA InitType ==
    ASSUME Init
    PROVE  TypeInv
<1>1. "idle" \in PCs /\ 0 \in Keys /\ 1 \in Kids
  BY BoundAssumption DEF PCs, Keys, Kids
<1>2. 0 \in 0 .. MaxFaults
  BY BoundAssumption
<1>3. ViewReady
  BY DEF Init, ViewReady, Threads
<1>4. store \in Values /\ view \in [Replicas -> Values]
      /\ job \in [Replicas -> [old : Pair, new : Pair]]
  BY ConstantTypes DEF Init
<1>. QED
  BY <1>1, <1>2, <1>3, <1>4 DEF Init, TypeInv, TypeOK

LEMMA NextType == TypeInv /\ [Next]_vars => TypeInv'
<1>. SUFFICES ASSUME TypeInv, [Next]_vars PROVE TypeInv'
  OBVIOUS
<1>1. ASSUME NEW r \in Replicas, Refresh(r) PROVE TypeInv'
  BY <1>1, RefreshReadType, RefreshRereadType, CleanUpType, RefreshPublishType DEF Refresh
<1>2. ASSUME NEW r \in Replicas, Rotate(r) PROVE TypeInv'
  BY <1>2, RotationNotDueType, RotateReadType, RotateWriteType, RotateForgetType DEF Rotate
<1>3. ASSUME NEW r \in Replicas, Crash(r) PROVE TypeInv'
  BY <1>3, CrashType
<1>4. ASSUME NEW r \in Replicas, NEW t \in Threads, Bootstrap(r, t) PROVE TypeInv'
  BY <1>4, BootstrapType
<1>5. CASE Tick
  BY <1>5, TickType
<1>6. CASE UNCHANGED vars
  BY <1>6 DEF vars, TypeInv, TypeOK, ViewReady
<1>. QED
  BY <1>1, <1>2, <1>3, <1>4, <1>5, <1>6 DEF Next

\* Every variable always has its type, and a refresh never reaches its publication
\* without an active key in hand, whatever SAP does wrong.
THEOREM TypeCorrect == Spec => [](TypeOK /\ ViewReady)
<1>1. Init => TypeInv
  BY InitType
<1>2. TypeInv => TypeOK /\ ViewReady
  BY DEF TypeInv
<1>. QED
  BY <1>1, <1>2, NextType, PTL DEF Spec

-----------------------------------------------------------------------------
(* Kids and keys.  KidsMatchKeys speaks of the caches only.  It is inductive *)
(* once the same is known of everything a cached state can come from: the    *)
(* store, the values a refresh has read and the pairs a rotation will write. *)
(* A legacy record is excluded: its kid comes from another field.            *)

\* A pair that exists: its key has been generated, and under its kid.
Matched(p, m, k) == p \in Pair /\ p.key <= m /\ p.kid = k[p.key]
Known(p) == Matched(p, minted, kidOf)
NoneOrKnown(p) == p # None => Known(p)

StoreKids == NoneOrKnown(store.active) /\ NoneOrKnown(store.previous)
ViewKids  == \A r \in Replicas : NoneOrKnown(view[r].active) /\ NoneOrKnown(view[r].previous)
JobKids   == \A r \in Replicas : Known(job[r].old) /\ Known(job[r].new)
CacheKids == \A r \in Replicas : cache[r] # None =>
                Known(cache[r].active) /\ NoneOrKnown(cache[r].previous)

KidsInv == kidOf[0] = 1 /\ StoreKids /\ ViewKids /\ JobKids /\ CacheKids

LEMMA KnownBootstrap ==
    ASSUME TypeOK, kidOf[0] = 1
    PROVE  Known(BootstrapKey)
BY ConstantTypes, BoundAssumption DEF TypeOK, Known, Matched, BootstrapKey, Keys

\* A record in the combined format is parsed into the pair it holds.
LEMMA ParseKnown ==
    ASSUME NEW v \in Values, v.active # None, Known(v.active)
    PROVE  ParseKidCipher(v) = v.active
<1>1. v.active \in Pair
  BY DEF Known, Matched
<1>2. v.active.kid # None
  BY <1>1, NoneAssumption DEF Pair, Kids
<1>. QED
  BY <1>1, <1>2 DEF ParseKidCipher, Pair

\* The end of an operation leaves only locals that are empty.
LEMMA FinishKids ==
    ASSUME TypeOK, KidsInv, NEW r \in Replicas, NEW t \in Threads, Finish(r, t),
           UNCHANGED <<minted, kidOf>>
    PROVE  ViewKids' /\ JobKids'
<1>1. Known(BootstrapKey)
  BY KnownBootstrap DEF KidsInv
<1>2. NoValues.active = None /\ NoValues.previous = None
  BY DEF NoValues
<1>3. NoJob.old = BootstrapKey /\ NoJob.new = BootstrapKey
  BY DEF NoJob
<1>4. \A x \in Replicas : view'[x] \in {view[x], NoValues}
  BY DEF Finish, TypeOK
<1>5. \A x \in Replicas : job'[x] \in {job[x], NoJob}
  BY DEF Finish, TypeOK
<1>6. ViewKids'
  BY <1>2, <1>4 DEF KidsInv, ViewKids, NoneOrKnown, Known
<1>7. JobKids'
  BY <1>1, <1>3, <1>5 DEF KidsInv, JobKids, Known
<1>. QED
  BY <1>6, <1>7

LEMMA WriteKids ==
    ASSUME TypeOK, KidsInv, NEW r \in Replicas, NEW t \in Threads, NEW p, NEW q,
           NEW s \in Values, NoneOrKnown(s.active), NoneOrKnown(s.previous),
           Write(r, t, p, s, q)
    PROVE  KidsInv'
<1>1. UNCHANGED <<cache, minted, kidOf>>
  BY DEF Write
<1>2. store' = s \/ store' = store
  BY DEF Write, Applied
<1>3. StoreKids'
  BY <1>1, <1>2 DEF KidsInv, StoreKids, NoneOrKnown, Known
<1>4. CacheKids' /\ kidOf'[0] = 1
  BY <1>1 DEF KidsInv, CacheKids, NoneOrKnown, Known
<1>5. CASE UNCHANGED <<view, job>>
  <2>. ViewKids' /\ JobKids'
    BY <1>1, <1>5 DEF KidsInv, ViewKids, JobKids, NoneOrKnown, Known
  <2>. QED
    BY <1>3, <1>4 DEF KidsInv
<1>6. CASE Finish(r, t)
  BY <1>1, <1>3, <1>4, <1>6, FinishKids DEF KidsInv
<1>. QED
  BY <1>5, <1>6 DEF Write

\* What a write to one AppValue leaves of the two keys in the store.
LEMMA StoreFields ==
    ASSUME TypeOK
    PROVE  /\ \A x : [store EXCEPT !.active = x].active = x
           /\ \A x : [store EXCEPT !.active = x].previous = store.previous
           /\ \A x : [store EXCEPT !.previous = x].previous = x
           /\ \A x : [store EXCEPT !.previous = x].active = store.active
           /\ \A x : [store EXCEPT !.activeKid = x].active = store.active
           /\ \A x : [store EXCEPT !.activeKid = x].previous = store.previous
           /\ \A x : [store EXCEPT !.created = x].active = store.active
           /\ \A x : [store EXCEPT !.created = x].previous = store.previous
           /\ \A x : [store EXCEPT !.expiry = x].active = store.active
           /\ \A x : [store EXCEPT !.expiry = x].previous = store.previous
BY DEF TypeOK, Values

LEMMA BootstrapKids ==
    ASSUME TypeOK, KidsInv, NEW r \in Replicas, NEW t \in Threads, Bootstrap(r, t)
    PROVE  KidsInv'
<1>. DEFINE Safe(s) == s \in Values /\ NoneOrKnown(s.active) /\ NoneOrKnown(s.previous)
<1>0. NoneOrKnown(store.active) /\ NoneOrKnown(store.previous) /\ NoneOrKnown(BootstrapKey)
      /\ NoneOrKnown(None)
  BY KnownBootstrap DEF KidsInv, StoreKids, NoneOrKnown
<1>1. Safe([store EXCEPT !.active = BootstrapKey])
  BY <1>0, StoreUpdates, StoreFields, ConstantTypes
<1>2. Safe([store EXCEPT !.activeKid = 1])
  BY <1>0, StoreUpdates, StoreFields DEF Kids
<1>3. Safe([store EXCEPT !.created = now])
  BY <1>0, StoreUpdates, StoreFields DEF Times, TypeOK
<1>4. Safe([store EXCEPT !.previous = None])
  BY <1>0, StoreUpdates, StoreFields
<1>5. Safe([store EXCEPT !.expiry = None])
  BY <1>0, StoreUpdates, StoreFields DEF Times
<1>6. ASSUME NEW s, Safe(s), NEW p, NEW q, Write(r, t, p, s, q) PROVE KidsInv'
  BY <1>6, WriteKids
<1>. HIDE DEF Safe
<1>. QED
  BY <1>1, <1>2, <1>3, <1>4, <1>5, <1>6 DEF Bootstrap

LEMMA CleanUpKids ==
    ASSUME TypeOK, KidsInv, NEW r \in Replicas, CleanUp(r)
    PROVE  KidsInv'
<1>. DEFINE Safe(s) == s \in Values /\ NoneOrKnown(s.active) /\ NoneOrKnown(s.previous)
<1>0. NoneOrKnown(store.active) /\ NoneOrKnown(store.previous) /\ NoneOrKnown(None)
      /\ "refresh" \in Threads
  BY DEF KidsInv, StoreKids, NoneOrKnown, Threads
<1>1. Safe([store EXCEPT !.previous = None])
  BY <1>0, StoreUpdates, StoreFields
<1>2. Safe([store EXCEPT !.expiry = None])
  BY <1>0, StoreUpdates, StoreFields DEF Times
<1>3. ASSUME NEW s, Safe(s), NEW p, NEW q, Write(r, "refresh", p, s, q) PROVE KidsInv'
  BY <1>0, <1>3, WriteKids
<1>. HIDE DEF Safe
<1>. QED
  BY <1>1, <1>2, <1>3 DEF CleanUp

LEMMA RotateWriteKids ==
    ASSUME TypeOK, KidsInv, NEW r \in Replicas, RotateWrite(r)
    PROVE  KidsInv'
<1>. DEFINE Safe(s) == s \in Values /\ NoneOrKnown(s.active) /\ NoneOrKnown(s.previous)
<1>0. /\ NoneOrKnown(store.active) /\ NoneOrKnown(store.previous) /\ "rotate" \in Threads
      /\ NoneOrKnown(job[r].old) /\ NoneOrKnown(job[r].new)
  BY DEF KidsInv, StoreKids, JobKids, NoneOrKnown, Threads
<1>a. job[r].old \in Pair /\ job[r].new \in Pair /\ job[r].new.kid \in Kids
      /\ now \in Times /\ now + OverlapWindow \in Times
  BY TimeAssumption DEF TypeOK, Pair, Times
<1>1. Safe([store EXCEPT !.previous = job[r].old])
  BY <1>0, <1>a, StoreUpdates, StoreFields
<1>2. Safe([store EXCEPT !.expiry = now + OverlapWindow])
  BY <1>0, <1>a, StoreUpdates, StoreFields
<1>3. Safe([store EXCEPT !.activeKid = job[r].new.kid])
  BY <1>0, <1>a, StoreUpdates, StoreFields
<1>4. Safe([store EXCEPT !.created = now])
  BY <1>0, <1>a, StoreUpdates, StoreFields
<1>5. Safe([store EXCEPT !.active = job[r].new])
  BY <1>0, <1>a, StoreUpdates, StoreFields
<1>6. ASSUME NEW s, Safe(s), NEW p, NEW q, Write(r, "rotate", p, s, q) PROVE KidsInv'
  BY <1>0, <1>6, WriteKids
<1>. HIDE DEF Safe
<1>. QED
  BY <1>1, <1>2, <1>3, <1>4, <1>5, <1>6 DEF RotateWrite

LEMMA ProceedKids ==
    ASSUME TypeOK, KidsInv, NEW r \in Replicas, NEW v \in Values, v.active # None,
           NoneOrKnown(v.active), NoneOrKnown(v.previous), Proceed(r, v),
           UNCHANGED <<minted, kidOf>>
    PROVE  ViewKids'
<1>1. Loaded(v).active = v.active /\ Loaded(v).previous \in {v.previous, None}
  BY LoadedType, ParseKnown DEF NoneOrKnown
<1>2. \A x \in Replicas : view'[x] \in {view[x], Loaded(v)}
  BY DEF Proceed, TypeOK
<1>. QED
  BY <1>1, <1>2 DEF KidsInv, ViewKids, NoneOrKnown, Known

\* What a read of the store returns.
LEMMA ReceiveKids ==
    ASSUME TypeOK, KidsInv, NEW v \in {store, NoValues}
    PROVE  v \in Values /\ NoneOrKnown(v.active) /\ NoneOrKnown(v.previous)
<1>1. NoValues.active = None /\ NoValues.previous = None /\ NoValues \in Values
  BY ConstantTypes DEF NoValues
<1>. QED
  BY <1>1 DEF TypeOK, KidsInv, StoreKids, NoneOrKnown

LEMMA RefreshReadKids ==
    ASSUME TypeOK, KidsInv, NEW r \in Replicas, RefreshRead(r)
    PROVE  KidsInv'
<1>1. UNCHANGED <<store, cache, job, minted, kidOf>>
  BY DEF RefreshRead
<1>2. PICK v \in {store, NoValues} : UNCHANGED view \/ (v.active # None /\ Proceed(r, v))
  BY DEF RefreshRead
<1>3. ViewKids'
  <2>1. CASE UNCHANGED view
    BY <1>1, <2>1 DEF KidsInv, ViewKids, NoneOrKnown, Known
  <2>2. CASE v.active # None /\ Proceed(r, v)
    BY <1>1, <2>2, ReceiveKids, ProceedKids
  <2>. QED
    BY <1>2, <2>1, <2>2
<1>. QED
  BY <1>1, <1>3 DEF KidsInv, StoreKids, JobKids, CacheKids, NoneOrKnown, Known

LEMMA RefreshRereadKids ==
    ASSUME TypeOK, KidsInv, NEW r \in Replicas, RefreshReread(r)
    PROVE  KidsInv'
<1>1. UNCHANGED <<store, cache, minted, kidOf>> /\ "refresh" \in Threads
  BY DEF RefreshReread, Threads
<1>2. \/ Finish(r, "refresh")
      \/ \E v \in {store, NoValues} : v.active # None /\ Proceed(r, v) /\ UNCHANGED job
  BY DEF RefreshReread
<1>3. ViewKids' /\ JobKids'
  <2>1. CASE Finish(r, "refresh")
    BY <1>1, <2>1, FinishKids
  <2>2. ASSUME NEW v \in {store, NoValues}, v.active # None, Proceed(r, v), UNCHANGED job
        PROVE  ViewKids' /\ JobKids'
    <3>1. ViewKids'
      BY <1>1, <2>2, ReceiveKids, ProceedKids
    <3>2. JobKids'
      BY <1>1, <2>2 DEF KidsInv, JobKids, Known
    <3>. QED
      BY <3>1, <3>2
  <2>. QED
    BY <1>2, <2>1, <2>2
<1>. QED
  BY <1>1, <1>3 DEF KidsInv, StoreKids, CacheKids, NoneOrKnown, Known

LEMMA RefreshPublishKids ==
    ASSUME TypeInv, KidsInv, NEW r \in Replicas, RefreshPublish(r)
    PROVE  KidsInv'
<1>1. UNCHANGED <<store, minted, kidOf>> /\ "refresh" \in Threads /\ Finish(r, "refresh")
  BY DEF RefreshPublish, Threads
<1>2. ViewKids' /\ JobKids'
  BY <1>1, FinishKids DEF TypeInv
<1>3. CacheKids'
  <2>1. Known(view[r].active) /\ NoneOrKnown(view[r].previous)
    <3>1. view[r].active \in Pair /\ view[r].active # None
      BY NoneAssumption DEF TypeInv, ViewReady, RefreshPublish, Raw, Pair
    <3>. QED
      BY <3>1 DEF KidsInv, ViewKids, NoneOrKnown
  <2>2. \A x \in Replicas : \/ cache'[x] = cache[x]
                            \/ /\ cache'[x].active = view[r].active
                               /\ cache'[x].previous = view[r].previous
    BY DEF RefreshPublish, TypeInv, TypeOK
  <2>. QED
    BY <1>1, <2>1, <2>2 DEF KidsInv, CacheKids, NoneOrKnown, Known
<1>. QED
  BY <1>1, <1>2, <1>3 DEF KidsInv, StoreKids, NoneOrKnown, Known

\* A new key gets a number no pair in the system has, so all of them keep their kids.
LEMMA MintKnown ==
    ASSUME TypeOK, NEW r \in Replicas, NEW old \in Pair, Known(old), Mint(r, old),
           minted < MaxMinted
    PROVE  /\ \A p : Matched(p, minted, kidOf) => Matched(p, minted', kidOf')
           /\ Matched(job'[r].old, minted', kidOf') /\ Matched(job'[r].new, minted', kidOf')
           /\ \A x \in Replicas \ {r} : job'[x] = job[x]
           /\ kidOf'[0] = kidOf[0]
<1>1. minted \in Nat /\ minted + 1 \in Keys /\ 0 \in Keys /\ old.kid + 1 \in Kids
  BY BoundAssumption DEF TypeOK, Keys, Pair, Kids
<1>2. minted' = minted + 1 /\ kidOf' = [kidOf EXCEPT ![minted + 1] = old.kid + 1]
      /\ job' = [job EXCEPT ![r] = [old |-> old, new |-> [kid |-> old.kid + 1, key |-> minted + 1]]]
  BY DEF Mint
<1>3. \A k \in Keys : k <= minted => kidOf'[k] = kidOf[k]
  BY <1>1, <1>2 DEF TypeOK, Keys
<1>4. \A p : Matched(p, minted, kidOf) => Matched(p, minted', kidOf')
  BY <1>1, <1>2, <1>3 DEF Matched, Pair, Keys
<1>5. kidOf'[minted + 1] = old.kid + 1
  BY <1>1, <1>2 DEF TypeOK
<1>6. job'[r].old = old /\ job'[r].new = [kid |-> old.kid + 1, key |-> minted + 1]
  BY <1>2 DEF TypeOK
<1>7. Matched(job'[r].new, minted', kidOf')
  BY <1>1, <1>2, <1>5, <1>6 DEF Matched, Pair
<1>8. Matched(job'[r].old, minted', kidOf')
  BY <1>4, <1>6 DEF Known
<1>9. kidOf'[0] = kidOf[0]
  BY <1>1, <1>3
<1>. QED
  BY <1>2, <1>4, <1>7, <1>8, <1>9 DEF TypeOK

LEMMA RotateReadKids ==
    ASSUME TypeOK, KidsInv, NEW r \in Replicas, RotateRead(r)
    PROVE  KidsInv'
<1>1. UNCHANGED <<store, cache, view>> /\ minted < MaxMinted
  BY DEF RotateRead
<1>2. \/ UNCHANGED <<job, minted, kidOf>>
      \/ \E v \in {store, NoValues} : v.active # None /\ Mint(r, ParseKidCipher(v))
  BY DEF RotateRead
<1>3. CASE UNCHANGED <<job, minted, kidOf>>
  BY <1>1, <1>3 DEF KidsInv, StoreKids, ViewKids, JobKids, CacheKids, NoneOrKnown, Known
<1>4. ASSUME NEW v \in {store, NoValues}, v.active # None, Mint(r, ParseKidCipher(v))
      PROVE  KidsInv'
  <2>1. v.active \in Pair /\ Known(v.active) /\ ParseKidCipher(v) = v.active
    BY <1>4, ReceiveKids, ParseKnown DEF NoneOrKnown, Known, Matched
  <2>2. /\ \A p : Matched(p, minted, kidOf) => Matched(p, minted', kidOf')
        /\ Matched(job'[r].old, minted', kidOf') /\ Matched(job'[r].new, minted', kidOf')
        /\ \A x \in Replicas \ {r} : job'[x] = job[x]
        /\ kidOf'[0] = kidOf[0]
    BY <1>1, <1>4, <2>1, MintKnown
  <2>3. JobKids'
    BY <2>2 DEF KidsInv, JobKids, Known
  <2>4. StoreKids' /\ ViewKids' /\ CacheKids'
    BY <1>1, <2>2 DEF KidsInv, StoreKids, ViewKids, CacheKids, NoneOrKnown, Known
  <2>. QED
    BY <2>2, <2>3, <2>4 DEF KidsInv
<1>. QED
  BY <1>2, <1>3, <1>4

\* A step that changes no key anywhere but drops some cached states.
LEMMA DropKids ==
    ASSUME TypeOK, KidsInv, UNCHANGED <<store, minted, kidOf>>, ViewKids', JobKids',
           \A x \in Replicas : cache'[x] \in {cache[x], None}
    PROVE  KidsInv'
BY DEF KidsInv, StoreKids, CacheKids, NoneOrKnown, Known

LEMMA RotateForgetKids ==
    ASSUME TypeOK, KidsInv, NEW r \in Replicas, RotateForget(r)
    PROVE  KidsInv'
<1>1. UNCHANGED <<store, minted, kidOf>> /\ "rotate" \in Threads /\ Finish(r, "rotate")
  BY DEF RotateForget, Threads
<1>2. \A x \in Replicas : cache'[x] \in {cache[x], None}
  BY DEF RotateForget, TypeOK
<1>. QED
  BY <1>1, <1>2, FinishKids, DropKids

LEMMA CrashKids ==
    ASSUME TypeOK, KidsInv, NEW r \in Replicas, Crash(r)
    PROVE  KidsInv'
<1>1. UNCHANGED <<store, minted, kidOf>>
  BY DEF Crash
<1>2. \A x \in Replicas : cache'[x] \in {cache[x], None}
  BY DEF Crash, TypeOK
<1>3. Known(BootstrapKey)
  BY KnownBootstrap DEF KidsInv
<1>4. /\ NoValues.active = None /\ NoValues.previous = None
      /\ NoJob.old = BootstrapKey /\ NoJob.new = BootstrapKey
  BY DEF NoValues, NoJob
<1>5. \A x \in Replicas : view'[x] \in {view[x], NoValues} /\ job'[x] \in {job[x], NoJob}
  BY DEF Crash, TypeOK
<1>6. ViewKids'
  BY <1>1, <1>4, <1>5 DEF KidsInv, ViewKids, NoneOrKnown, Known
<1>7. JobKids'
  BY <1>1, <1>3, <1>4, <1>5 DEF KidsInv, JobKids, Known
<1>. QED
  BY <1>1, <1>2, <1>6, <1>7, DropKids

LEMMA QuietKids ==
    ASSUME TypeOK, KidsInv, UNCHANGED <<store, view, job, minted, kidOf>>,
           \A x \in Replicas : cache'[x] \in {cache[x], None}
    PROVE  KidsInv'
<1>1. ViewKids' /\ JobKids'
  BY DEF KidsInv, ViewKids, JobKids, NoneOrKnown, Known
<1>. QED
  BY <1>1, DropKids

LEMMA TickKids ==
    ASSUME TypeOK, KidsInv, Tick
    PROVE  KidsInv'
<1>1. UNCHANGED <<store, view, job, minted, kidOf>>
  BY DEF Tick
<1>2. \A x \in Replicas : cache'[x] \in {cache[x], None}
  BY DEF Tick
<1>. QED
  BY <1>1, <1>2, QuietKids

LEMMA InitKids ==
    ASSUME Init, LegacyStore = FALSE
    PROVE  KidsInv
<1>1. /\ NoValues.active = None /\ NoValues.previous = None
      /\ NoJob.old = BootstrapKey /\ NoJob.new = BootstrapKey
  BY DEF NoValues, NoJob
<1>2. kidOf[0] = 1
  BY BoundAssumption DEF Init, Keys
<1>3. Known(BootstrapKey)
  BY <1>2, InitType, KnownBootstrap DEF TypeInv
<1>. QED
  BY <1>1, <1>2, <1>3
     DEF Init, KidsInv, StoreKids, ViewKids, JobKids, CacheKids, NoneOrKnown

LEMMA NextKids == TypeInv /\ KidsInv /\ [Next]_vars => KidsInv'
<1>. SUFFICES ASSUME TypeInv, KidsInv, [Next]_vars PROVE KidsInv'
  OBVIOUS
<1>0. TypeOK
  BY DEF TypeInv
<1>1. ASSUME NEW r \in Replicas, Refresh(r) PROVE KidsInv'
  BY <1>0, <1>1, RefreshReadKids, RefreshRereadKids, CleanUpKids, RefreshPublishKids
     DEF Refresh
<1>2. ASSUME NEW r \in Replicas, Rotate(r) PROVE KidsInv'
  <2>1. CASE RotationNotDue(r)
    <3>1. UNCHANGED <<store, view, job, minted, kidOf, cache>>
      BY <2>1 DEF RotationNotDue
    <3>. QED
      BY <1>0, <3>1, QuietKids
  <2>. QED
    BY <1>0, <1>2, <2>1, RotateReadKids, RotateWriteKids, RotateForgetKids DEF Rotate
<1>3. ASSUME NEW r \in Replicas, Crash(r) PROVE KidsInv'
  BY <1>0, <1>3, CrashKids
<1>4. ASSUME NEW r \in Replicas, NEW t \in Threads, Bootstrap(r, t) PROVE KidsInv'
  BY <1>0, <1>4, BootstrapKids
<1>5. CASE Tick
  BY <1>0, <1>5, TickKids
<1>6. CASE UNCHANGED vars
  BY <1>0, <1>6, QuietKids DEF vars
<1>. QED
  BY <1>1, <1>2, <1>3, <1>4, <1>5, <1>6 DEF Next

\* Whatever a replica caches, every kid in it is beside the key generated under that
\* kid: for any number of replicas and rotations, at any moment of any other write,
\* through refused and half-done writes, empty reads and crashes; provided that no
\* record in the old, separate-field format is in the store.
THEOREM KidsAlwaysMatch ==
    ASSUME LegacyStore = FALSE
    PROVE  Spec => []KidsMatchKeys
<1>1. Init => TypeInv /\ KidsInv
  BY InitType, InitKids
<1>2. (TypeInv /\ KidsInv) /\ [Next]_vars => (TypeInv /\ KidsInv)'
  BY NextType, NextKids
<1>3. TypeInv /\ KidsInv => KidsMatchKeys
  BY DEF KidsInv, CacheKids, NoneOrKnown, Known, Matched, KidsMatchKeys, Named
<1>. QED
  BY <1>1, <1>2, <1>3, PTL DEF Spec
=============================================================================
