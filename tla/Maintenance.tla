---------------------------- MODULE Maintenance ----------------------------
(***************************************************************************)
(* Maintenance mode and outage detection of the ePay3 web host.  Every     *)
(* replica keeps its own copy of the maintenance configuration (in a memory *)
(* cache) and its own count of failed calls (in MaintenanceCacheService).  *)
(* Requests at an enforcement point start a background refresh when the    *)
(* copy is stale; an anonymous endpoint reads the configuration at once; an *)
(* administrator writes it to SAP, one AppValue at a time, and reads it    *)
(* back.  All three end in SetCache, on the thread pool, in any order.     *)
(* Every SAP call and every Salesforce call also reports how it went.      *)
(*                                                                         *)
(* A configuration is what enforcement depends on: the sign-in switch and  *)
(* the window.  A request that starts no refresh changes nothing.          *)
(***************************************************************************)
EXTENDS Integers

CONSTANTS
    Replicas,
    Edits,             \* the configurations administrators submit
    ConfigTtl,         \* age in ticks beyond which a copy is stale
    RefreshFloor,      \* ticks between two attempts to refresh
    CacheLife,         \* ticks the memory cache keeps a copy (48 hours)
    Threshold,         \* failures in a row that make SAP unavailable
    MaxOpTicks,        \* longest operation, in ticks (SAP timeouts)
    Faults,            \* what may go wrong, see FaultKinds
    MaxNow, MaxEdits, MaxFaults,   \* bounds of a behaviour
    Uses(_),           \* bound: the operations a replica is asked for, see Threads
    None

(* outage: SAP stops answering for a while; crash: a replica restarts;     *)
(* empty: a read is answered by a JSON error body, taken as no values;     *)
(* silent: a write is answered by a JSON error body, which is ignored;     *)
(* salesforce: a call to Salesforce fails.                                 *)
FaultKinds == {"outage", "empty", "silent", "salesforce", "crash"}

Configs == [off : BOOLEAN, from : Nat, to : Nat]
Default == [off |-> FALSE, from |-> 0, to |-> 0]

ASSUME EditAssumption == Edits \subseteq Configs
ASSUME TimeAssumption ==
    /\ ConfigTtl \in Nat \ {0} /\ RefreshFloor \in Nat /\ MaxOpTicks \in Nat
    /\ CacheLife \in Nat /\ CacheLife > ConfigTtl + 1 + MaxOpTicks
    /\ MaxNow \in Nat
ASSUME CountAssumption == Threshold \in Nat \ {0} /\ MaxEdits \in Nat /\ MaxFaults \in Nat
ASSUME FaultAssumption == Faults \subseteq FaultKinds
ASSUME NoneAssumption == None \notin Nat /\ None \notin Configs

VARIABLES
    now,
    up,            \* SAP answers
    sap,           \* the configuration stored in SAP
    changedAt,     \* history: when it last changed
    cfg,           \* each replica's cached copy, or None
    expires,       \* when the memory cache drops it
    lastOk,        \* lastSuccessfulRefreshUtc
    lastTry,       \* lastRefreshAttemptUtc
    busy,          \* configRefreshInProgress
    lastFailed,    \* lastRefreshFailed
    failures,      \* consecutiveFailures, counted up to Threshold
    pc, got, begun,\* each thread: where it is, what it read, since when
    edit,          \* the configuration being saved at each replica
    saved,         \* history: the last one read back and cached by an edit
    edits, faults  \* how many so far

state == <<lastOk, lastTry, busy, lastFailed, failures>>
world == <<now, up, sap, changedAt>>
vars  == <<world, cfg, expires, state, pc, got, begun, edit, saved, edits, faults>>

Threads == {"refresh", "fill", "edit"}
PCs == {"idle", "putOff", "putFrom", "putTo", "ask", "reply", "store", "stamp"}
Times == Nat \cup {None}

-----------------------------------------------------------------------------
(* MaintenanceCacheService.                                                *)

AtMost(n, m) == IF n <= m THEN n ELSE m

\* Mutant: a success clears the flag and leaves the count.
MarkFlagOnly(r) ==
    /\ lastFailed' = [lastFailed EXCEPT ![r] = FALSE]
    /\ UNCHANGED failures

MarkSapSuccess(r) ==
    /\ lastFailed' = [lastFailed EXCEPT ![r] = FALSE]
    /\ failures' = [failures EXCEPT ![r] = 0]

\* One failed call that is reported marks times (MarkSapFailure).
MarkSapFailure(r, marks) ==
    /\ lastFailed' = [lastFailed EXCEPT ![r] = TRUE]
    /\ failures' = [failures EXCEPT ![r] = AtMost(@ + marks, Threshold)]

IsConfigStale(r) == lastOk[r] # None => now - lastOk[r] > ConfigTtl

IsMaintenanceActive(c) == c # None /\ c.off /\ c.from <= now /\ now <= c.to
IsSapUnavailable(r) == (cfg[r] = None /\ lastFailed[r]) \/ failures[r] >= Threshold

\* Both middlewares let a request through.
Open(r) == ~ IsMaintenanceActive(cfg[r]) /\ ~ IsSapUnavailable(r)

-----------------------------------------------------------------------------
(* Threads.                                                                *)

Idle(r, t) == pc[r][t] = "idle"
Goto(r, t, p) == pc' = [pc EXCEPT ![r][t] = p]
Begin(r, t, p) == t \in Uses(r) /\ Idle(r, t) /\ Goto(r, t, p) /\ begun' = [begun EXCEPT ![r][t] = now]
Fault(kind) == kind \in Faults /\ faults < MaxFaults /\ faults' = faults + 1

\* Mutant: the flag is cleared by a refresh that cached something, not in a finally.
FinishNoFinally(r, t) ==
    /\ Goto(r, t, "idle")
    /\ begun' = [begun EXCEPT ![r][t] = 0]
    /\ got' = [got EXCEPT ![r][t] = None]
    /\ edit' = IF t = "edit" THEN [edit EXCEPT ![r] = None] ELSE edit
    /\ busy' = IF t = "refresh" /\ pc[r][t] = "stamp" THEN [busy EXCEPT ![r] = FALSE] ELSE busy

\* The operation is over; EndConfigRefresh follows a refresh however it ended.
Finish(r, t) ==
    /\ Goto(r, t, "idle")
    /\ begun' = [begun EXCEPT ![r][t] = 0]
    /\ got' = [got EXCEPT ![r][t] = None]
    /\ edit' = IF t = "edit" THEN [edit EXCEPT ![r] = None] ELSE edit
    /\ busy' = IF t = "refresh" THEN [busy EXCEPT ![r] = FALSE] ELSE busy

\* TryRefreshInBackground, from a middleware or the status endpoint.
BeginRefresh(r) ==
    /\ ~ IsSapUnavailable(r) /\ IsConfigStale(r)
    /\ ~ busy[r]
    /\ lastTry[r] # None => now - lastTry[r] >= RefreshFloor
    /\ busy' = [busy EXCEPT ![r] = TRUE]
    /\ lastTry' = [lastTry EXCEPT ![r] = now]
    /\ Begin(r, "refresh", "ask")
    /\ UNCHANGED <<world, cfg, expires, lastOk, lastFailed, failures, got, edit, saved,
                   edits, faults>>

\* GetMaintenanceConfig called by a request: config/maintenance, or a cold status.
BeginFill(r) ==
    /\ Begin(r, "fill", "ask")
    /\ UNCHANGED <<world, cfg, expires, state, got, edit, saved, edits, faults>>

\* UpdateMaintenanceConfig(e).
BeginEdit(r) ==
    /\ edits < MaxEdits /\ edits' = edits + 1
    /\ Begin(r, "edit", "putOff")
    /\ \E e \in Edits : edit' = [edit EXCEPT ![r] = e]
    /\ UNCHANGED <<world, cfg, expires, state, got, saved, faults>>

SapBecomes(c) == sap' = c /\ changedAt' = IF c # sap THEN now ELSE changedAt

\* UpdateAppValue: one value of an edit, and where the edit goes next.
Put(r, p, c, q) ==
    /\ pc[r]["edit"] = p
    /\ \/ /\ up /\ MarkSapSuccess(r) /\ Goto(r, "edit", q)
          /\ \/ SapBecomes(c) /\ UNCHANGED faults
             \/ Fault("silent") /\ UNCHANGED <<sap, changedAt>>
          /\ UNCHANGED <<got, begun, edit, busy>>
       \/ /\ ~ up /\ MarkSapFailure(r, 1) /\ Finish(r, "edit")
          /\ SapBecomes(c) \/ UNCHANGED <<sap, changedAt>>
          /\ UNCHANGED faults
    /\ UNCHANGED <<now, up, cfg, expires, lastOk, lastTry, saved, edits>>

\* Mutant: the edit is cached without the confirmation read.
PutEditUnread(r) ==
    \/ Put(r, "putOff", [sap EXCEPT !.off = edit[r].off], "putFrom")
    \/ Put(r, "putFrom", [sap EXCEPT !.from = edit[r].from], "putTo")
    \/ Put(r, "putTo", [sap EXCEPT !.to = edit[r].to], "store")

PutEdit(r) ==
    \/ Put(r, "putOff", [sap EXCEPT !.off = edit[r].off], "putFrom")
    \/ Put(r, "putFrom", [sap EXCEPT !.from = edit[r].from], "putTo")
    \/ Put(r, "putTo", [sap EXCEPT !.to = edit[r].to], "ask")

\* GetValues(true): SAP takes the values ...
Ask(r, t) ==
    /\ pc[r][t] = "ask"
    /\ got' = [got EXCEPT ![r][t] = sap]
    /\ Goto(r, t, "reply")
    /\ UNCHANGED <<world, cfg, expires, state, begun, edit, saved, edits, faults>>

\* Mutant: an answer without values is taken as a successful refresh.
ReplyStamps(r, t) ==
    /\ pc[r][t] = "reply"
    /\ \/ /\ up /\ MarkSapSuccess(r) /\ Goto(r, t, "store")
          /\ UNCHANGED <<got, begun, edit, busy, faults, lastOk>>
       \/ /\ up /\ MarkSapSuccess(r) /\ Fault("empty") /\ Finish(r, t)
          /\ lastOk' = [lastOk EXCEPT ![r] = now]
       \/ ~ up /\ MarkSapFailure(r, 1) /\ Finish(r, t) /\ UNCHANGED <<faults, lastOk>>
    /\ UNCHANGED <<world, cfg, expires, lastTry, saved, edits>>

\* Mutant: an answer without values is bound and cached all the same.
ReplyCachesDefault(r, t) ==
    /\ pc[r][t] = "reply"
    /\ \/ /\ up /\ MarkSapSuccess(r) /\ Goto(r, t, "store")
          /\ \/ UNCHANGED <<got, faults>>
             \/ Fault("empty") /\ got' = [got EXCEPT ![r][t] = Default]
          /\ UNCHANGED <<begun, edit, busy>>
       \/ ~ up /\ MarkSapFailure(r, 1) /\ Finish(r, t) /\ UNCHANGED faults
    /\ UNCHANGED <<world, cfg, expires, lastOk, lastTry, saved, edits>>

\* ... and the answer arrives, with the values, without any, or not at all.
Reply(r, t) ==
    /\ pc[r][t] = "reply"
    /\ \/ /\ up /\ MarkSapSuccess(r) /\ Goto(r, t, "store")
          /\ UNCHANGED <<got, begun, edit, busy, faults>>
       \/ up /\ MarkSapSuccess(r) /\ Fault("empty") /\ Finish(r, t)
       \/ ~ up /\ MarkSapFailure(r, 1) /\ Finish(r, t) /\ UNCHANGED faults
    /\ UNCHANGED <<world, cfg, expires, lastOk, lastTry, saved, edits>>

\* SetCache, its memory-cache entry ...
Store(r, t) ==
    /\ pc[r][t] = "store"
    /\ cfg' = [cfg EXCEPT ![r] = got[r][t]]
    /\ expires' = [expires EXCEPT ![r] = now + CacheLife]
    /\ Goto(r, t, "stamp")
    /\ UNCHANGED <<world, state, got, begun, edit, saved, edits, faults>>

\* ... and its lock block.
Stamp(r, t) ==
    /\ pc[r][t] = "stamp"
    /\ lastOk' = [lastOk EXCEPT ![r] = now]
    /\ MarkSapSuccess(r)
    /\ saved' = IF t = "edit" THEN [saved EXCEPT ![r] = got[r][t]] ELSE saved
    /\ Finish(r, t)
    /\ UNCHANGED <<world, cfg, expires, lastTry, edits, faults>>

-----------------------------------------------------------------------------
(* The other calls of the host, and the environment.                       *)

\* SendCoreAsync for any other purpose: a page, a payment, a key refresh.
SapCall(r) ==
    /\ \/ up /\ MarkSapSuccess(r)
       \/ ~ up /\ MarkSapFailure(r, 1)
    /\ UNCHANGED <<world, cfg, expires, lastOk, lastTry, busy, pc, got, begun, edit, saved,
                   edits, faults>>

\* SendWithRetryAsync of the Salesforce client: a failure is reported once, or twice
\* when a token is refused or a forced token request fails.
SalesforceCall(r) ==
    /\ "salesforce" \in Faults
    /\ \/ MarkSapSuccess(r) /\ UNCHANGED faults
       \/ Fault("salesforce") /\ \E marks \in {1, 2} : MarkSapFailure(r, marks)
    /\ UNCHANGED <<world, cfg, expires, lastOk, lastTry, busy, pc, got, begun, edit, saved,
                   edits>>

Outage == up /\ Fault("outage") /\ up' = FALSE
Restore == ~ up /\ up' = TRUE /\ UNCHANGED faults
Network ==
    /\ Outage \/ Restore
    /\ UNCHANGED <<now, sap, changedAt, cfg, expires, state, pc, got, begun, edit, saved,
                   edits>>

Crash(r) ==
    /\ Fault("crash")
    /\ cfg' = [cfg EXCEPT ![r] = None]
    /\ expires' = [expires EXCEPT ![r] = 0]
    /\ lastOk' = [lastOk EXCEPT ![r] = None]
    /\ lastTry' = [lastTry EXCEPT ![r] = None]
    /\ busy' = [busy EXCEPT ![r] = FALSE]
    /\ MarkSapSuccess(r)
    /\ pc' = [pc EXCEPT ![r] = [t \in Threads |-> "idle"]]
    /\ got' = [got EXCEPT ![r] = [t \in Threads |-> None]]
    /\ begun' = [begun EXCEPT ![r] = [t \in Threads |-> 0]]
    /\ edit' = [edit EXCEPT ![r] = None]
    /\ saved' = [saved EXCEPT ![r] = None]
    /\ UNCHANGED <<world, edits>>

Tick ==
    /\ now < MaxNow
    /\ \A r \in Replicas, t \in Threads : Idle(r, t) \/ now - begun[r][t] < MaxOpTicks
    /\ now' = now + 1
    /\ cfg' = [r \in Replicas |-> IF expires[r] <= now + 1 THEN None ELSE cfg[r]]
    /\ UNCHANGED <<up, sap, changedAt, expires, state, pc, got, begun, edit, saved,
                   edits, faults>>

Init ==
    /\ now = 0 /\ up = TRUE /\ sap = Default /\ changedAt = 0
    /\ cfg = [r \in Replicas |-> None] /\ expires = [r \in Replicas |-> 0]
    /\ lastOk = [r \in Replicas |-> None] /\ lastTry = [r \in Replicas |-> None]
    /\ busy = [r \in Replicas |-> FALSE]
    /\ lastFailed = [r \in Replicas |-> FALSE] /\ failures = [r \in Replicas |-> 0]
    /\ pc = [r \in Replicas |-> [t \in Threads |-> "idle"]]
    /\ got = [r \in Replicas |-> [t \in Threads |-> None]]
    /\ begun = [r \in Replicas |-> [t \in Threads |-> 0]]
    /\ edit = [r \in Replicas |-> None] /\ saved = [r \in Replicas |-> None]
    /\ edits = 0 /\ faults = 0

Step(r, t) == Ask(r, t) \/ Reply(r, t) \/ Store(r, t) \/ Stamp(r, t)

Next ==
    \/ \E r \in Replicas :
         BeginRefresh(r) \/ BeginFill(r) \/ BeginEdit(r) \/ PutEdit(r) \/ SapCall(r)
         \/ SalesforceCall(r) \/ Crash(r)
    \/ \E r \in Replicas, t \in Threads : Step(r, t)
    \/ Network \/ Tick

Spec == Init /\ [][Next]_vars

\* Threads that have begun run on, an outage ends, and the host goes on calling SAP
\* (the unavailable page's probe, administrators, the key refresh).
Fairness ==
    /\ \A r \in Replicas : WF_vars(PutEdit(r)) /\ WF_vars(SapCall(r))
    /\ \A r \in Replicas, t \in Threads : WF_vars(Step(r, t))
    /\ WF_vars(Restore /\ Network)

FairSpec == Spec /\ Fairness
-----------------------------------------------------------------------------
(* Properties.                                                             *)

\* Every variable has its type, and a thread that goes on to SetCache has read something.
TypeOK ==
    /\ now \in Nat /\ up \in BOOLEAN /\ sap \in Configs /\ changedAt \in Nat
    /\ cfg \in [Replicas -> Configs \cup {None}] /\ expires \in [Replicas -> Nat]
    /\ lastOk \in [Replicas -> Times] /\ lastTry \in [Replicas -> Times]
    /\ busy \in [Replicas -> BOOLEAN] /\ lastFailed \in [Replicas -> BOOLEAN]
    /\ failures \in [Replicas -> 0 .. Threshold]
    /\ pc \in [Replicas -> [Threads -> PCs]]
    /\ got \in [Replicas -> [Threads -> Configs \cup {None}]]
    /\ begun \in [Replicas -> [Threads -> Nat]]
    /\ edit \in [Replicas -> Configs \cup {None}] /\ saved \in [Replicas -> Configs \cup {None}]
    /\ \A r \in Replicas, t \in Threads :
          pc[r][t] \in {"reply", "store", "stamp"} => got[r][t] \in Configs
    /\ edits \in 0 .. MaxEdits /\ faults \in 0 .. MaxFaults

\* A copy that is not due for a refresh is at most the TTL and two operations behind
\* SAP, however refreshes, edits and their half-done writes overlap: what ConfigTtl is
\* for ("Bounds admin-edit propagation", MaintenanceCacheService.cs:18-21).
StaleCopyBounded ==
    \A r \in Replicas :
        cfg[r] # None /\ cfg[r] # sap /\ ~ IsConfigStale(r) =>
            now <= changedAt + ConfigTtl + 2 * MaxOpTicks

\* A replica that considers its configuration fresh has one: the memory cache does not
\* drop it first and no answer without values counts as a refresh.
FreshMeansCached ==
    \A r \in Replicas : ~ IsConfigStale(r) => cfg[r] # None

\* The in-progress flag is up exactly while a background refresh runs: refreshes never
\* overlap and a failed one never blocks those after it.
OneRefreshAtATime == \A r \in Replicas : busy[r] <=> ~ Idle(r, "refresh")

\* Every outage is over for the users once it is over for SAP: a replica does not stay
\* in the unavailable state.
AvailableAgain == \A r \in Replicas : []<> ~ IsSapUnavailable(r)

\* A configuration saved on a replica is what that replica enforces while SAP holds it
\* ("Update the local container's cache immediately so the middleware reflects the
\* change right away", ApplicationConfigurationManager.cs:809-810).
SavedIsEnforced ==
    \A r \in Replicas :
        saved[r] # None /\ saved[r] = sap /\ Idle(r, "edit") => cfg[r] \in {None, sap}

\* While a maintenance window is on in SAP, and has been for longer than it takes to
\* propagate, a replica whose copy is not due for a refresh lets no anonymous request
\* through ("so direct API/URL access can't bypass maintenance",
\* MaintenanceMiddleware.cs:8-11).
MaintenanceEnforced ==
    IsMaintenanceActive(sap) /\ now > changedAt + ConfigTtl + 2 * MaxOpTicks =>
        \A r \in Replicas : ~ IsConfigStale(r) => ~ Open(r)
=============================================================================
