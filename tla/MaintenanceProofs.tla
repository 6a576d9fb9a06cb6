------------------------- MODULE MaintenanceProofs -------------------------
(***************************************************************************)
(* Proofs about maintenance mode, for any number of replicas, any time     *)
(* limits, any configurations and any faults.                              *)
(***************************************************************************)
EXTENDS Maintenance, TLAPS

-----------------------------------------------------------------------------
(* The inductive invariant.  expires[r] - CacheLife is when replica r last *)
(* set its memory-cache entry, which is what the parts below compare.      *)

\* A thread under way began within the time limit; what it has read was in SAP
\* at or after its beginning; and one that has set the memory cache did so, or was
\* overtaken by another that did, after its beginning.
ThreadOk(r, t) ==
    ~ Idle(r, t) =>
        /\ begun[r][t] <= now /\ now <= begun[r][t] + MaxOpTicks
        /\ pc[r][t] \in {"reply", "store", "stamp"} /\ got[r][t] # sap =>
              begun[r][t] <= changedAt
        /\ pc[r][t] = "stamp" => begun[r][t] + CacheLife <= expires[r]

\* A copy lives as long as its entry, was stamped at most one operation after the entry
\* was set, and, when it differs from SAP, was set at most one operation after SAP changed.
CopyOk(r) ==
    /\ expires[r] <= now + CacheLife
    /\ expires[r] > now => cfg[r] # None
    /\ lastOk[r] # None => lastOk[r] <= now /\ lastOk[r] + CacheLife <= expires[r] + MaxOpTicks
    /\ cfg[r] # None /\ cfg[r] # sap => expires[r] <= changedAt + CacheLife + MaxOpTicks

\* An edit that is writing has something to write.
EditReady ==
    \A r \in Replicas : pc[r]["edit"] \in {"putOff", "putFrom", "putTo"} => edit[r] \in Configs

TypeInv == TypeOK /\ EditReady
ThreadInv == \A r \in Replicas, t \in Threads : ThreadOk(r, t)
CopyInv == changedAt <= now /\ \A r \in Replicas : CopyOk(r)
Inv == TypeInv /\ OneRefreshAtATime /\ ThreadInv /\ CopyInv

-----------------------------------------------------------------------------
(* What the helpers leave behind.                                          *)

LEMMA ConfigTypes ==
    /\ Default \in Configs
    /\ None \notin Configs /\ None \notin Nat
    /\ Edits \subseteq Configs
BY EditAssumption, NoneAssumption DEF Default, Configs

LEMMA GotoType ==
    ASSUME TypeOK, NEW r \in Replicas, NEW t \in Threads, NEW p \in PCs, Goto(r, t, p)
    PROVE  /\ pc' \in [Replicas -> [Threads -> PCs]]
           /\ pc'[r][t] = p
           /\ \A r2 \in Replicas, t2 \in Threads :
                 <<r2, t2>> # <<r, t>> => pc'[r2][t2] = pc[r2][t2]
BY DEF TypeOK, Goto

\* The step of one thread moves, and changes the locals of, that thread alone.
Others(r, t) ==
    \A r2 \in Replicas, t2 \in Threads :
        <<r2, t2>> # <<r, t>> =>
            /\ pc'[r2][t2] = pc[r2][t2]
            /\ begun'[r2][t2] = begun[r2][t2]
            /\ got'[r2][t2] = got[r2][t2]

LEMMA FinishType ==
    ASSUME TypeOK, NEW r \in Replicas, NEW t \in Threads, Finish(r, t)
    PROVE  /\ pc' \in [Replicas -> [Threads -> PCs]] /\ pc'[r][t] = "idle"
           /\ begun' \in [Replicas -> [Threads -> Nat]]
           /\ got' \in [Replicas -> [Threads -> Configs \cup {None}]]
           /\ edit' \in [Replicas -> Configs \cup {None}]
           /\ t # "edit" => edit' = edit
           /\ \A r2 \in Replicas \ {r} : edit'[r2] = edit[r2]
           /\ busy' \in [Replicas -> BOOLEAN]
           /\ busy' = IF t = "refresh" THEN [busy EXCEPT ![r] = FALSE] ELSE busy
           /\ Others(r, t)
<1>. USE DEF TypeOK
<1>1. [begun EXCEPT ![r][t] = 0] \in [Replicas -> [Threads -> Nat]]
  OBVIOUS
<1>2. [got EXCEPT ![r][t] = None] \in [Replicas -> [Threads -> Configs \cup {None}]]
  OBVIOUS
<1>3. /\ edit' \in [Replicas -> Configs \cup {None}] /\ busy' \in [Replicas -> BOOLEAN]
      /\ t # "edit" => edit' = edit
      /\ \A r2 \in Replicas \ {r} : edit'[r2] = edit[r2]
  BY DEF Finish
<1>4. begun' = [begun EXCEPT ![r][t] = 0] /\ got' = [got EXCEPT ![r][t] = None]
  BY DEF Finish
<1>5. \A r2 \in Replicas, t2 \in Threads :
        <<r2, t2>> # <<r, t>> => begun'[r2][t2] = begun[r2][t2] /\ got'[r2][t2] = got[r2][t2]
  BY <1>4
<1>6. "idle" \in PCs /\ Goto(r, t, "idle")
  BY DEF PCs, Finish
<1>7. busy' = IF t = "refresh" THEN [busy EXCEPT ![r] = FALSE] ELSE busy
  BY DEF Finish
<1>. QED
  BY <1>1, <1>2, <1>3, <1>4, <1>5, <1>6, <1>7, GotoType DEF Others

LEMMA MarkType ==
    ASSUME TypeOK, NEW r \in Replicas,
           MarkSapSuccess(r) \/ \E marks \in {1, 2} : MarkSapFailure(r, marks)
    PROVE  /\ lastFailed' \in [Replicas -> BOOLEAN]
           /\ failures' \in [Replicas -> 0 .. Threshold]
<1>. USE CountAssumption DEF TypeOK
<1>1. CASE MarkSapSuccess(r)
  BY <1>1 DEF MarkSapSuccess
<1>2. CASE \E marks \in {1, 2} : MarkSapFailure(r, marks)
  <2>1. PICK marks \in {1, 2} : MarkSapFailure(r, marks)
    BY <1>2
  <2>2. \A n \in 0 .. Threshold, m \in {1, 2} : AtMost(n + m, Threshold) \in 0 .. Threshold
    BY DEF AtMost
  <2>. QED
    BY <2>1, <2>2 DEF MarkSapFailure
<1>. QED
  BY <1>1, <1>2

LEMMA FaultType ==
    ASSUME TypeOK, UNCHANGED faults \/ \E kind : Fault(kind)
    PROVE  faults' \in 0 .. MaxFaults
BY CountAssumption DEF TypeOK, Fault

-----------------------------------------------------------------------------
(* Type correctness, one lemma per action.                                 *)

LEMMA BeginType ==
    ASSUME TypeOK, NEW r \in Replicas, NEW t \in Threads, NEW p \in {"ask", "putOff"},
           Begin(r, t, p), UNCHANGED got
    PROVE  /\ pc' \in [Replicas -> [Threads -> PCs]]
           /\ begun' \in [Replicas -> [Threads -> Nat]]
           /\ Idle(r, t) /\ pc'[r][t] = p /\ begun'[r][t] = now
           /\ Others(r, t)
<1>1. p \in PCs /\ Goto(r, t, p) /\ Idle(r, t)
  BY DEF PCs, Begin
<1>2. begun' = [begun EXCEPT ![r][t] = now]
  BY DEF Begin
<1>3. begun' \in [Replicas -> [Threads -> Nat]] /\ begun'[r][t] = now
  BY <1>2 DEF TypeOK
<1>4. \A r2 \in Replicas, t2 \in Threads :
        <<r2, t2>> # <<r, t>> => begun'[r2][t2] = begun[r2][t2]
  BY <1>2 DEF TypeOK
<1>. QED
  BY <1>1, <1>3, <1>4, GotoType DEF Others

\* What a write to SAP does to the stored configuration.
LEMMA SapType ==
    ASSUME TypeOK, changedAt <= now, NEW c \in Configs,
           SapBecomes(c) \/ UNCHANGED <<sap, changedAt>>
    PROVE  /\ sap' \in Configs /\ changedAt' \in Nat
           /\ changedAt <= changedAt' /\ changedAt' <= now
           /\ sap' = sap \/ changedAt' = now
BY DEF TypeOK, SapBecomes

LEMMA BeginRefreshType ==
    ASSUME TypeInv, NEW r \in Replicas, BeginRefresh(r)
    PROVE  TypeInv'
<1>1. "refresh" \in Threads /\ "edit" \in Threads
  BY DEF Threads
<1>2. /\ pc' \in [Replicas -> [Threads -> PCs]] /\ begun' \in [Replicas -> [Threads -> Nat]]
      /\ pc'[r]["refresh"] = "ask" /\ Others(r, "refresh")
  BY <1>1, BeginType DEF BeginRefresh, TypeInv
<1>3. busy' \in [Replicas -> BOOLEAN] /\ lastTry' \in [Replicas -> Times]
  BY DEF BeginRefresh, TypeInv, TypeOK, Times
<1>4. UNCHANGED <<world, cfg, expires, lastOk, lastFailed, failures, got, edit, saved,
                  edits, faults>>
  BY DEF BeginRefresh
<1>5. \A x \in Replicas, y \in Threads :
         pc'[x][y] \in {"reply", "store", "stamp"} => got'[x][y] \in Configs
  BY <1>1, <1>2, <1>4 DEF TypeInv, TypeOK, Others
<1>6. EditReady'
  BY <1>1, <1>2, <1>4 DEF TypeInv, EditReady, Others
<1>. QED
  BY <1>2, <1>3, <1>4, <1>5, <1>6 DEF TypeInv, TypeOK, world

LEMMA BeginFillType ==
    ASSUME TypeInv, NEW r \in Replicas, BeginFill(r)
    PROVE  TypeInv'
<1>1. "fill" \in Threads /\ "edit" \in Threads
  BY DEF Threads
<1>2. /\ pc' \in [Replicas -> [Threads -> PCs]] /\ begun' \in [Replicas -> [Threads -> Nat]]
      /\ pc'[r]["fill"] = "ask" /\ Others(r, "fill")
  BY <1>1, BeginType DEF BeginFill, TypeInv
<1>3. UNCHANGED <<world, cfg, expires, state, got, edit, saved, edits, faults>>
  BY DEF BeginFill
<1>4. \A x \in Replicas, y \in Threads :
         pc'[x][y] \in {"reply", "store", "stamp"} => got'[x][y] \in Configs
  BY <1>1, <1>2, <1>3 DEF TypeInv, TypeOK, Others
<1>5. EditReady'
  BY <1>1, <1>2, <1>3 DEF TypeInv, EditReady, Others
<1>. QED
  BY <1>2, <1>3, <1>4, <1>5 DEF TypeInv, TypeOK, world, state

LEMMA BeginEditType ==
    ASSUME TypeInv, NEW r \in Replicas, BeginEdit(r)
    PROVE  TypeInv'
<1>1. "edit" \in Threads
  BY DEF Threads
<1>2. /\ pc' \in [Replicas -> [Threads -> PCs]] /\ begun' \in [Replicas -> [Threads -> Nat]]
      /\ pc'[r]["edit"] = "putOff" /\ Others(r, "edit")
  BY <1>1, BeginType DEF BeginEdit, TypeInv
<1>3. UNCHANGED <<world, cfg, expires, state, got, saved, faults>>
  BY DEF BeginEdit
<1>4. PICK e \in Edits : edit' = [edit EXCEPT ![r] = e]
  BY DEF BeginEdit
<1>5. edit' \in [Replicas -> Configs \cup {None}] /\ edit'[r] \in Configs
      /\ \A x \in Replicas \ {r} : edit'[x] = edit[x]
  BY <1>4, ConfigTypes DEF TypeInv, TypeOK
<1>6. edits' \in 0 .. MaxEdits
  BY CountAssumption DEF BeginEdit, TypeInv, TypeOK
<1>7. \A x \in Replicas, y \in Threads :
         pc'[x][y] \in {"reply", "store", "stamp"} => got'[x][y] \in Configs
  BY <1>1, <1>2, <1>3 DEF TypeInv, TypeOK, Others
<1>8. EditReady'
  BY <1>1, <1>2, <1>5 DEF TypeInv, EditReady, Others
<1>. QED
  BY <1>2, <1>3, <1>5, <1>6, <1>7, <1>8 DEF TypeInv, TypeOK, world, state

\* What one write of an edit writes, and where the edit goes next.
LEMMA PutEditCases ==
    ASSUME TypeInv, NEW r \in Replicas, PutEdit(r)
    PROVE  \E c \in Configs, q \in {"putFrom", "putTo", "ask"} :
              /\ Put(r, pc[r]["edit"], c, q)
              /\ pc[r]["edit"] \in {"putOff", "putFrom", "putTo"}
              /\ edit[r] \in Configs
<1>1. pc[r]["edit"] \in {"putOff", "putFrom", "putTo"}
  BY DEF PutEdit, Put
<1>2. edit[r] \in Configs /\ sap \in Configs
  BY <1>1 DEF TypeInv, EditReady, TypeOK
<1>3. /\ [sap EXCEPT !.off = edit[r].off] \in Configs
      /\ [sap EXCEPT !.from = edit[r].from] \in Configs
      /\ [sap EXCEPT !.to = edit[r].to] \in Configs
  BY <1>2 DEF Configs
<1>4. \/ Put(r, pc[r]["edit"], [sap EXCEPT !.off = edit[r].off], "putFrom")
      \/ Put(r, pc[r]["edit"], [sap EXCEPT !.from = edit[r].from], "putTo")
      \/ Put(r, pc[r]["edit"], [sap EXCEPT !.to = edit[r].to], "ask")
  BY DEF PutEdit, Put
<1>. QED
  BY <1>1, <1>2, <1>3, <1>4

\* The types of what a write changes, whether it was answered or not.
LEMMA PutType ==
    ASSUME TypeInv, NEW r \in Replicas, NEW c \in Configs,
           NEW q \in {"putFrom", "putTo", "ask"}, edit[r] \in Configs,
           Put(r, pc[r]["edit"], c, q)
    PROVE  /\ TypeInv'
           /\ Others(r, "edit") /\ pc'[r]["edit"] \in {"putFrom", "putTo", "ask", "idle"}
           /\ pc'[r]["edit"] # "idle" => begun'[r]["edit"] = begun[r]["edit"]
           /\ busy' = busy
<1>. DEFINE Answered == /\ up /\ MarkSapSuccess(r) /\ Goto(r, "edit", q)
                        /\ UNCHANGED <<got, begun, edit, busy>>
            Failed == MarkSapFailure(r, 1) /\ Finish(r, "edit")
<1>0. "edit" \in Threads /\ TypeOK
  BY DEF Threads, TypeInv
<1>1. (Answered \/ Failed) /\ (SapBecomes(c) \/ UNCHANGED <<sap, changedAt>>)
      /\ (UNCHANGED faults \/ Fault("silent"))
  BY DEF Put
<1>2. UNCHANGED <<now, up, cfg, expires, lastOk, lastTry, saved, edits>>
  BY DEF Put
<1>3. sap' \in Configs /\ changedAt' \in Nat /\ faults' \in 0 .. MaxFaults
  BY <1>0, <1>1, FaultType DEF SapBecomes, TypeOK
<1>4. /\ lastFailed' \in [Replicas -> BOOLEAN]
      /\ failures' \in [Replicas -> 0 .. Threshold]
  BY <1>0, <1>1, MarkType
<1>5. /\ pc' \in [Replicas -> [Threads -> PCs]]
      /\ begun' \in [Replicas -> [Threads -> Nat]]
      /\ got' \in [Replicas -> [Threads -> Configs \cup {None}]]
      /\ edit' \in [Replicas -> Configs \cup {None}]
      /\ busy' = busy
      /\ Others(r, "edit") /\ pc'[r]["edit"] \in {"putFrom", "putTo", "ask", "idle"}
      /\ pc'[r]["edit"] # "idle" => begun'[r]["edit"] = begun[r]["edit"] /\ edit'[r] \in Configs
      /\ \A x \in Replicas \ {r} : edit'[x] = edit[x]
  <2>1. CASE Answered
    <3>1. q \in PCs
      BY DEF PCs
    <3>2. /\ pc' \in [Replicas -> [Threads -> PCs]] /\ pc'[r]["edit"] = q
          /\ \A x \in Replicas, y \in Threads : <<x, y>> # <<r, "edit">> => pc'[x][y] = pc[x][y]
      BY <1>0, <2>1, <3>1, GotoType
    <3>3. Others(r, "edit")
      BY <2>1, <3>2 DEF Others
    <3>. QED
      BY <2>1, <3>2, <3>3, <1>0 DEF TypeOK
  <2>2. CASE Failed
    BY <1>0, <2>2, FinishType
  <2>. QED
    BY <1>1, <2>1, <2>2
<1>6. \A x \in Replicas, y \in Threads :
         pc'[x][y] \in {"reply", "store", "stamp"} => got'[x][y] \in Configs
  BY <1>0, <1>5 DEF TypeOK, Others
<1>7. EditReady'
  BY <1>0, <1>5 DEF TypeInv, EditReady, Others
<1>8. busy' \in [Replicas -> BOOLEAN]
  BY <1>0, <1>5 DEF TypeOK
<1>. QED
  BY <1>0, <1>2, <1>3, <1>4, <1>5, <1>6, <1>7, <1>8 DEF TypeInv, TypeOK

\* A call that only leaves a mark, and a change of the network.
LEMMA CallType ==
    ASSUME TypeInv, NEW r \in Replicas, SapCall(r) \/ SalesforceCall(r)
    PROVE  TypeInv'
<1>0. TypeOK /\ EditReady
  BY DEF TypeInv
<1>1. MarkSapSuccess(r) \/ \E marks \in {1, 2} : MarkSapFailure(r, marks)
  BY DEF SapCall, SalesforceCall
<1>2. UNCHANGED faults \/ Fault("salesforce")
  BY DEF SapCall, SalesforceCall
<1>3. UNCHANGED <<world, cfg, expires, lastOk, lastTry, busy, pc, got, begun, edit, saved, edits>>
  BY DEF SapCall, SalesforceCall
<1>4. /\ lastFailed' \in [Replicas -> BOOLEAN]
      /\ failures' \in [Replicas -> 0 .. Threshold]
      /\ faults' \in 0 .. MaxFaults
  BY <1>0, <1>1, <1>2, MarkType, FaultType
<1>5. EditReady'
  BY <1>0, <1>3 DEF EditReady
<1>6. TypeOK'
  BY <1>0, <1>3, <1>4 DEF TypeOK, world
<1>. QED
  BY <1>5, <1>6 DEF TypeInv

LEMMA NetworkType ==
    ASSUME TypeInv, Network
    PROVE  TypeInv'
<1>0. TypeOK /\ EditReady
  BY DEF TypeInv
<1>1. up' \in BOOLEAN /\ (UNCHANGED faults \/ Fault("outage"))
  BY DEF Network, Outage, Restore
<1>2. UNCHANGED <<now, sap, changedAt, cfg, expires, state, pc, got, begun, edit, saved,
                  edits>>
  BY DEF Network
<1>3. faults' \in 0 .. MaxFaults
  BY <1>0, <1>1, FaultType
<1>4. EditReady'
  BY <1>0, <1>2 DEF EditReady
<1>5. TypeOK'
  BY <1>0, <1>1, <1>2, <1>3 DEF TypeOK, state
<1>. QED
  BY <1>4, <1>5 DEF TypeInv

LEMMA TickType ==
    ASSUME TypeInv, Tick
    PROVE  TypeInv'
<1>0. TypeOK /\ EditReady
  BY DEF TypeInv
<1>1. now' \in Nat /\ cfg' \in [Replicas -> Configs \cup {None}]
  BY <1>0 DEF Tick, TypeOK
<1>2. UNCHANGED <<up, sap, changedAt, expires, state, pc, got, begun, edit, saved,
                  edits, faults>>
  BY DEF Tick
<1>3. EditReady'
  BY <1>0, <1>2 DEF EditReady
<1>4. TypeOK'
  BY <1>0, <1>1, <1>2 DEF TypeOK, state
<1>. QED
  BY <1>3, <1>4 DEF TypeInv

\* A restart leaves nothing of the replica, and nothing of the others changes.
LEMMA CrashType ==
    ASSUME TypeInv, NEW r \in Replicas, Crash(r)
    PROVE  /\ TypeInv'
           /\ \A t \in Threads : pc'[r][t] = "idle"
           /\ \A x \in Replicas \ {r} :
                 pc'[x] = pc[x] /\ got'[x] = got[x] /\ begun'[x] = begun[x]
           /\ cfg'[r] = None /\ expires'[r] = 0 /\ lastOk'[r] = None
<1>0. TypeOK /\ EditReady /\ "edit" \in Threads
  BY DEF TypeInv, Threads
<1>1. /\ cfg' \in [Replicas -> Configs \cup {None}] /\ expires' \in [Replicas -> Nat]
      /\ lastOk' \in [Replicas -> Times] /\ lastTry' \in [Replicas -> Times]
      /\ busy' \in [Replicas -> BOOLEAN]
      /\ cfg'[r] = None /\ expires'[r] = 0 /\ lastOk'[r] = None
  BY <1>0 DEF Crash, TypeOK, Times
<1>2. [t \in Threads |-> "idle"] \in [Threads -> PCs]
  BY DEF PCs
<1>3. /\ pc' \in [Replicas -> [Threads -> PCs]]
      /\ pc'[r] = [t \in Threads |-> "idle"] /\ \A x \in Replicas \ {r} : pc'[x] = pc[x]
  BY <1>0, <1>2 DEF Crash, TypeOK
<1>4. [t \in Threads |-> None] \in [Threads -> Configs \cup {None}]
  OBVIOUS
<1>5. /\ got' \in [Replicas -> [Threads -> Configs \cup {None}]]
      /\ \A x \in Replicas \ {r} : got'[x] = got[x]
  BY <1>0, <1>4 DEF Crash, TypeOK
<1>6. [t \in Threads |-> 0] \in [Threads -> Nat]
  OBVIOUS
<1>7. /\ begun' \in [Replicas -> [Threads -> Nat]]
      /\ \A x \in Replicas \ {r} : begun'[x] = begun[x]
  BY <1>0, <1>6 DEF Crash, TypeOK
<1>8. /\ edit' \in [Replicas -> Configs \cup {None}]
      /\ saved' \in [Replicas -> Configs \cup {None}]
      /\ \A x \in Replicas \ {r} : edit'[x] = edit[x]
  BY <1>0 DEF Crash, TypeOK
<1>9. /\ lastFailed' \in [Replicas -> BOOLEAN]
      /\ failures' \in [Replicas -> 0 .. Threshold]
      /\ faults' \in 0 .. MaxFaults
  BY <1>0, MarkType, FaultType DEF Crash
<1>10. UNCHANGED <<now, up, sap, changedAt, edits>>
  BY DEF Crash, world
<1>11. \A t \in Threads : pc'[r][t] = "idle"
  BY <1>3
<1>12. \A x \in Replicas, y \in Threads :
         pc'[x][y] \in {"reply", "store", "stamp"} => got'[x][y] \in Configs
  BY <1>0, <1>3, <1>5, <1>11 DEF TypeOK
<1>13. EditReady'
  BY <1>0, <1>3, <1>8, <1>11 DEF EditReady
<1>14. TypeOK'
  BY <1>0, <1>1, <1>3, <1>5, <1>7, <1>8, <1>9, <1>10, <1>12 DEF TypeOK
<1>. QED
  BY <1>1, <1>3, <1>5, <1>7, <1>11, <1>13, <1>14 DEF TypeInv

LEMMA AskType ==
    ASSUME TypeInv, NEW r \in Replicas, NEW t \in Threads, Ask(r, t)
    PROVE  /\ TypeInv'
           /\ pc[r][t] = "ask" /\ pc'[r][t] = "reply" /\ got'[r][t] = sap
           /\ begun' = begun /\ Others(r, t)
<1>0. TypeOK /\ EditReady
  BY DEF TypeInv
<1>1. "reply" \in PCs /\ Goto(r, t, "reply") /\ pc[r][t] = "ask"
  BY DEF PCs, Ask
<1>2. UNCHANGED <<world, cfg, expires, state, begun, edit, saved, edits, faults>>
  BY DEF Ask
<1>3. /\ got' \in [Replicas -> [Threads -> Configs \cup {None}]]
      /\ got'[r][t] = sap
      /\ \A x \in Replicas, y \in Threads : <<x, y>> # <<r, t>> => got'[x][y] = got[x][y]
  BY <1>0 DEF Ask, TypeOK
<1>4. /\ pc' \in [Replicas -> [Threads -> PCs]] /\ pc'[r][t] = "reply"
      /\ \A x \in Replicas, y \in Threads : <<x, y>> # <<r, t>> => pc'[x][y] = pc[x][y]
  BY <1>0, <1>1, GotoType
<1>5. Others(r, t)
  BY <1>2, <1>3, <1>4 DEF Others
<1>6. \A x \in Replicas, y \in Threads :
         pc'[x][y] \in {"reply", "store", "stamp"} => got'[x][y] \in Configs
  BY <1>0, <1>3, <1>5 DEF TypeOK, Others
<1>7. EditReady'
  BY <1>0, <1>2, <1>4 DEF EditReady, Threads
<1>8. TypeOK'
  BY <1>0, <1>2, <1>3, <1>4, <1>6 DEF TypeOK, world, state
<1>. QED
  BY <1>1, <1>2, <1>3, <1>4, <1>5, <1>7, <1>8 DEF TypeInv

LEMMA StoreType ==
    ASSUME TypeInv, NEW r \in Replicas, NEW t \in Threads, Store(r, t)
    PROVE  /\ TypeInv'
           /\ pc[r][t] = "store" /\ pc'[r][t] = "stamp" /\ got[r][t] \in Configs
           /\ begun' = begun /\ Others(r, t)
<1>0. TypeOK /\ EditReady
  BY DEF TypeInv
<1>1. "stamp" \in PCs /\ Goto(r, t, "stamp") /\ pc[r][t] = "store"
  BY DEF PCs, Store
<1>2. got[r][t] \in Configs
  BY <1>0, <1>1 DEF TypeOK
<1>3. UNCHANGED <<world, state, got, begun, edit, saved, edits, faults>>
  BY DEF Store
<1>4. /\ pc' \in [Replicas -> [Threads -> PCs]] /\ pc'[r][t] = "stamp"
      /\ \A x \in Replicas, y \in Threads : <<x, y>> # <<r, t>> => pc'[x][y] = pc[x][y]
  BY <1>0, <1>1, GotoType
<1>5. Others(r, t)
  BY <1>3, <1>4 DEF Others
<1>6. now + CacheLife \in Nat
  BY <1>0, TimeAssumption DEF TypeOK
<1>7. /\ cfg' \in [Replicas -> Configs \cup {None}] /\ expires' \in [Replicas -> Nat]
  BY <1>0, <1>2, <1>6 DEF Store, TypeOK
<1>8. \A x \in Replicas, y \in Threads :
         pc'[x][y] \in {"reply", "store", "stamp"} => got'[x][y] \in Configs
  BY <1>0, <1>2, <1>3, <1>5 DEF TypeOK, Others
<1>9. EditReady'
  BY <1>0, <1>3, <1>4 DEF EditReady, Threads
<1>10. TypeOK'
  BY <1>0, <1>3, <1>4, <1>7, <1>8 DEF TypeOK, world, state
<1>. QED
  BY <1>1, <1>2, <1>3, <1>4, <1>5, <1>9, <1>10 DEF TypeInv

\* The end of an operation keeps what depends on its locals.
LEMMA FinishReady ==
    ASSUME TypeInv, NEW r \in Replicas, NEW t \in Threads, Finish(r, t)
    PROVE  /\ \A x \in Replicas, y \in Threads :
                 pc'[x][y] \in {"reply", "store", "stamp"} => got'[x][y] \in Configs
           /\ EditReady'
<1>0. TypeOK /\ EditReady /\ "edit" \in Threads
  BY DEF TypeInv, Threads
<1>1. /\ pc'[r][t] = "idle" /\ Others(r, t)
      /\ t # "edit" => edit' = edit
      /\ \A x \in Replicas \ {r} : edit'[x] = edit[x]
  BY <1>0, FinishType
<1>. QED
  BY <1>0, <1>1 DEF TypeOK, EditReady, Others

LEMMA ReplyType ==
    ASSUME TypeInv, NEW r \in Replicas, NEW t \in Threads, Reply(r, t)
    PROVE  /\ TypeInv' /\ pc[r][t] = "reply" /\ Others(r, t)
           /\ \/ /\ pc'[r][t] = "store" /\ UNCHANGED <<got, begun, busy>>
              \/ Finish(r, t)
<1>0. TypeOK /\ EditReady
  BY DEF TypeInv
<1>. DEFINE Answered == /\ Goto(r, t, "store") /\ UNCHANGED <<got, begun, edit, busy>>
<1>1. /\ pc[r][t] = "reply"
      /\ Answered \/ Finish(r, t)
      /\ MarkSapSuccess(r) \/ MarkSapFailure(r, 1)
      /\ UNCHANGED faults \/ Fault("empty")
      /\ UNCHANGED <<world, cfg, expires, lastOk, lastTry, saved, edits>>
  BY DEF Reply
<1>2. /\ lastFailed' \in [Replicas -> BOOLEAN]
      /\ failures' \in [Replicas -> 0 .. Threshold]
      /\ faults' \in 0 .. MaxFaults
  BY <1>0, <1>1, MarkType, FaultType
<1>3. /\ pc' \in [Replicas -> [Threads -> PCs]]
      /\ begun' \in [Replicas -> [Threads -> Nat]]
      /\ got' \in [Replicas -> [Threads -> Configs \cup {None}]]
      /\ edit' \in [Replicas -> Configs \cup {None}]
      /\ busy' \in [Replicas -> BOOLEAN]
      /\ Others(r, t)
      /\ (pc'[r][t] = "store" /\ UNCHANGED <<got, begun, busy>>) \/ Finish(r, t)
      /\ EditReady'
      /\ \A x \in Replicas, y \in Threads :
            pc'[x][y] \in {"reply", "store", "stamp"} => got'[x][y] \in Configs
  <2>1. CASE Finish(r, t)
    BY <1>0, <2>1, FinishType, FinishReady
  <2>2. CASE Answered
    <3>1. "store" \in PCs
      BY DEF PCs
    <3>2. /\ pc' \in [Replicas -> [Threads -> PCs]] /\ pc'[r][t] = "store"
          /\ \A x \in Replicas, y \in Threads : <<x, y>> # <<r, t>> => pc'[x][y] = pc[x][y]
      BY <1>0, <2>2, <3>1, GotoType
    <3>3. EditReady'
      BY <1>0, <2>2, <3>2 DEF EditReady, Threads
    <3>4. UNCHANGED <<got, begun, edit, busy>>
      BY <2>2
    <3>5. Others(r, t)
      BY <3>2, <3>4 DEF Others
    <3>6. \A x \in Replicas, y \in Threads :
            pc'[x][y] \in {"reply", "store", "stamp"} => got'[x][y] \in Configs
      BY <1>0, <1>1, <3>2, <3>4 DEF TypeOK
    <3>. QED
      BY <1>0, <3>2, <3>3, <3>4, <3>5, <3>6 DEF TypeOK
  <2>. QED
    BY <1>1, <2>1, <2>2
<1>4. TypeOK'
  BY <1>0, <1>1, <1>2, <1>3 DEF TypeOK, world
<1>. QED
  BY <1>1, <1>3, <1>4 DEF TypeInv

LEMMA StampType ==
    ASSUME TypeInv, NEW r \in Replicas, NEW t \in Threads, Stamp(r, t)
    PROVE  TypeInv' /\ Others(r, t)
<1>0. TypeOK /\ EditReady
  BY DEF TypeInv
<1>1. /\ pc[r][t] = "stamp" /\ Finish(r, t) /\ MarkSapSuccess(r)
      /\ UNCHANGED <<world, cfg, expires, lastTry, edits, faults>>
  BY DEF Stamp
<1>2. got[r][t] \in Configs
  BY <1>0, <1>1 DEF TypeOK
<1>3. lastOk' \in [Replicas -> Times] /\ saved' \in [Replicas -> Configs \cup {None}]
  BY <1>0, <1>2 DEF Stamp, TypeOK, Times
<1>4. /\ lastFailed' \in [Replicas -> BOOLEAN]
      /\ failures' \in [Replicas -> 0 .. Threshold]
  BY <1>0, <1>1, MarkType
<1>5. /\ pc' \in [Replicas -> [Threads -> PCs]]
      /\ begun' \in [Replicas -> [Threads -> Nat]]
      /\ got' \in [Replicas -> [Threads -> Configs \cup {None}]]
      /\ edit' \in [Replicas -> Configs \cup {None}]
      /\ busy' \in [Replicas -> BOOLEAN] /\ Others(r, t)
  BY <1>0, <1>1, FinishType
<1>6. /\ EditReady'
      /\ \A x \in Replicas, y \in Threads :
            pc'[x][y] \in {"reply", "store", "stamp"} => got'[x][y] \in Configs
  BY <1>1, FinishReady
<1>7. TypeOK'
  BY <1>0, <1>1, <1>3, <1>4, <1>5, <1>6 DEF TypeOK, world
<1>. QED
  BY <1>5, <1>6, <1>7 DEF TypeInv

LEMMA InitType == Init => TypeInv
<1>. SUFFICES ASSUME Init PROVE TypeInv
  OBVIOUS
<1>1. "idle" \in PCs /\ "edit" \in Threads
  BY DEF PCs, Threads
<1>2. EditReady
  BY <1>1 DEF Init, EditReady
<1>3. /\ now \in Nat /\ up \in BOOLEAN /\ sap \in Configs /\ changedAt \in Nat
      /\ cfg \in [Replicas -> Configs \cup {None}] /\ expires \in [Replicas -> Nat]
      /\ lastOk \in [Replicas -> Times] /\ lastTry \in [Replicas -> Times]
  BY ConfigTypes DEF Init, Times
<1>4. /\ busy \in [Replicas -> BOOLEAN] /\ lastFailed \in [Replicas -> BOOLEAN]
      /\ failures \in [Replicas -> 0 .. Threshold]
      /\ edits \in 0 .. MaxEdits /\ faults \in 0 .. MaxFaults
  BY CountAssumption DEF Init
<1>5. /\ pc \in [Replicas -> [Threads -> PCs]]
      /\ got \in [Replicas -> [Threads -> Configs \cup {None}]]
      /\ begun \in [Replicas -> [Threads -> Nat]]
      /\ edit \in [Replicas -> Configs \cup {None}] /\ saved \in [Replicas -> Configs \cup {None}]
      /\ \A x \in Replicas, y \in Threads : pc[x][y] = "idle"
  BY <1>1 DEF Init
<1>. QED
  BY <1>2, <1>3, <1>4, <1>5 DEF TypeInv, TypeOK

-----------------------------------------------------------------------------
(* The steps of one thread, and what they leave of the invariant.          *)

\* The step is over in the instant it began, memory-cache entries only get later, and
\* when SAP changes it does so now.
SameInstant ==
    /\ now' = now /\ changedAt <= changedAt' /\ changedAt' <= now
    /\ sap' = sap \/ changedAt' = now
    /\ \A x \in Replicas : expires[x] <= expires'[x]

LEMMA ThreadStep ==
    ASSUME Inv, TypeInv', NEW r \in Replicas, NEW t \in Threads,
           Others(r, t), SameInstant, ThreadOk(r, t)'
    PROVE  ThreadInv'
<1>. SUFFICES ASSUME NEW x \in Replicas, NEW y \in Threads, <<x, y>> # <<r, t>>
              PROVE  ThreadOk(x, y)'
  BY DEF ThreadInv
<1>1. /\ pc'[x][y] = pc[x][y] /\ begun'[x][y] = begun[x][y] /\ got'[x][y] = got[x][y]
  BY DEF Others
<1>2. ThreadOk(x, y)
  BY DEF Inv, ThreadInv
<1>3. /\ now' = now /\ changedAt <= changedAt' /\ changedAt' <= now
      /\ sap' = sap \/ changedAt' = now
      /\ expires[x] <= expires'[x]
  BY DEF SameInstant
<1>4. /\ now \in Nat /\ changedAt \in Nat /\ changedAt' \in Nat /\ CacheLife \in Nat
      /\ expires[x] \in Nat /\ expires'[x] \in Nat /\ begun[x][y] \in Nat
  BY TimeAssumption DEF Inv, TypeInv, TypeOK
<1>. QED
  BY <1>1, <1>2, <1>3, <1>4 DEF ThreadOk, Idle

LEMMA CopyStep ==
    ASSUME Inv, TypeInv', SameInstant, UNCHANGED <<cfg, expires, lastOk>>
    PROVE  CopyInv'
<1>1. changedAt' <= now'
  BY DEF SameInstant
<1>2. ASSUME NEW x \in Replicas PROVE CopyOk(x)'
  <2>1. CopyOk(x)
    BY DEF Inv, CopyInv
  <2>2. /\ now' = now /\ changedAt <= changedAt' /\ changedAt' <= now
        /\ sap' = sap \/ changedAt' = now
    BY DEF SameInstant
  <2>3. /\ now \in Nat /\ changedAt \in Nat /\ changedAt' \in Nat /\ expires[x] \in Nat
        /\ CacheLife \in Nat /\ MaxOpTicks \in Nat
    BY TimeAssumption DEF Inv, TypeInv, TypeOK
  <2>. QED
    BY <2>1, <2>2, <2>3 DEF CopyOk
<1>. QED
  BY <1>1, <1>2 DEF CopyInv

\* The flag of a replica changes with its refresh thread only.
LEMMA FlagStep ==
    ASSUME Inv, NEW r \in Replicas, NEW t \in Threads, Others(r, t),
           IF t = "refresh" THEN busy'[r] <=> pc'[r][t] # "idle" ELSE busy'[r] = busy[r],
           \A x \in Replicas \ {r} : busy'[x] = busy[x]
    PROVE  OneRefreshAtATime'
<1>1. "refresh" \in Threads
  BY DEF Threads
<1>2. ASSUME NEW x \in Replicas PROVE busy'[x] <=> pc'[x]["refresh"] # "idle"
  <2>1. busy[x] <=> pc[x]["refresh"] # "idle"
    BY DEF Inv, OneRefreshAtATime, Idle
  <2>2. <<x, "refresh">> # <<r, t>> => pc'[x]["refresh"] = pc[x]["refresh"]
    BY <1>1 DEF Others
  <2>. QED
    BY <2>1, <2>2
<1>. QED
  BY <1>2 DEF OneRefreshAtATime, Idle

\* A step that touches no SAP value, no clock and no entry.
LEMMA QuietInstant ==
    ASSUME Inv, UNCHANGED <<now, sap, changedAt, expires>>
    PROVE  SameInstant
BY DEF Inv, CopyInv, TypeInv, TypeOK, SameInstant

-----------------------------------------------------------------------------
(* Every action keeps the invariant.                                       *)

\* What the three beginnings have in common: thread t starts now and has read nothing.
LEMMA BeginInv ==
    ASSUME Inv, TypeInv', NEW r \in Replicas, NEW t \in Threads, NEW p \in {"ask", "putOff"},
           Begin(r, t, p), UNCHANGED <<world, cfg, expires, lastOk, got>>,
           busy' = IF t = "refresh" THEN [busy EXCEPT ![r] = TRUE] ELSE busy
    PROVE  Inv'
<1>0. TypeOK
  BY DEF Inv, TypeInv
<1>1. pc'[r][t] = p /\ begun'[r][t] = now /\ Others(r, t)
  BY <1>0, BeginType
<1>2. SameInstant
  BY QuietInstant DEF world
<1>3. now' = now /\ now \in Nat /\ MaxOpTicks \in Nat
  BY <1>0, TimeAssumption DEF TypeOK, world
<1>4. ThreadOk(r, t)'
  BY <1>1, <1>3 DEF ThreadOk
<1>5. ThreadInv' /\ CopyInv'
  BY <1>1, <1>2, <1>4, ThreadStep, CopyStep
<1>6. \A x \in Replicas \ {r} : busy'[x] = busy[x]
  BY <1>0 DEF TypeOK
<1>7. IF t = "refresh" THEN busy'[r] <=> pc'[r][t] # "idle" ELSE busy'[r] = busy[r]
  BY <1>0, <1>1 DEF TypeOK
<1>8. OneRefreshAtATime'
  BY <1>1, <1>6, <1>7, FlagStep
<1>. QED
  BY <1>5, <1>8 DEF Inv

LEMMA BeginsInv ==
    ASSUME Inv, NEW r \in Replicas, BeginRefresh(r) \/ BeginFill(r) \/ BeginEdit(r)
    PROVE  Inv'
<1>0. TypeInv /\ {"refresh", "fill", "edit"} \subseteq Threads
  BY DEF Inv, Threads
<1>1. CASE BeginRefresh(r)
  BY <1>0, <1>1, BeginRefreshType, BeginInv DEF BeginRefresh
<1>2. CASE BeginFill(r)
  BY <1>0, <1>2, BeginFillType, BeginInv DEF BeginFill, state
<1>3. CASE BeginEdit(r)
  BY <1>0, <1>3, BeginEditType, BeginInv DEF BeginEdit, state
<1>. QED
  BY <1>1, <1>2, <1>3

LEMMA PutInv ==
    ASSUME Inv, NEW r \in Replicas, PutEdit(r)
    PROVE  Inv'
<1>0. TypeInv /\ TypeOK /\ changedAt <= now /\ "edit" \in Threads
  BY DEF Inv, TypeInv, CopyInv, Threads
<1>1. PICK c \in Configs, q \in {"putFrom", "putTo", "ask"} :
         /\ Put(r, pc[r]["edit"], c, q)
         /\ pc[r]["edit"] \in {"putOff", "putFrom", "putTo"}
         /\ edit[r] \in Configs
  BY <1>0, PutEditCases
<1>2. /\ TypeInv' /\ Others(r, "edit") /\ pc'[r]["edit"] \in {"putFrom", "putTo", "ask", "idle"}
      /\ pc'[r]["edit"] # "idle" => begun'[r]["edit"] = begun[r]["edit"]
      /\ busy' = busy
  BY <1>0, <1>1, PutType
<1>3. /\ UNCHANGED <<now, cfg, expires, lastOk>>
      /\ SapBecomes(c) \/ UNCHANGED <<sap, changedAt>>
  BY <1>1 DEF Put
<1>4. SameInstant
  <2>1. /\ changedAt <= changedAt' /\ changedAt' <= now
        /\ sap' = sap \/ changedAt' = now
    BY <1>0, <1>3, SapType
  <2>. QED
    BY <1>0, <1>3, <2>1 DEF SameInstant, TypeOK
<1>5. ThreadOk(r, "edit")'
  <2>1. ThreadOk(r, "edit") /\ ~ Idle(r, "edit")
    BY <1>0, <1>1 DEF Inv, ThreadInv, Idle
  <2>. QED
    BY <1>2, <1>3, <2>1 DEF ThreadOk, Idle
<1>6. ThreadInv' /\ CopyInv'
  BY <1>0, <1>2, <1>3, <1>4, <1>5, ThreadStep, CopyStep
<1>7. OneRefreshAtATime'
  BY <1>0, <1>2, FlagStep
<1>. QED
  BY <1>2, <1>6, <1>7 DEF Inv

\* Calls and the network leave every thread and every copy alone.
LEMMA QuietInv ==
    ASSUME Inv, TypeInv', UNCHANGED <<now, sap, changedAt, cfg, expires, lastOk, busy, pc, got, begun>>
    PROVE  Inv'
<1>1. CopyInv'
  BY QuietInstant, CopyStep
<1>2. ThreadInv' /\ OneRefreshAtATime'
  BY DEF Inv, ThreadInv, ThreadOk, OneRefreshAtATime, Idle
<1>. QED
  BY <1>1, <1>2 DEF Inv

LEMMA CallInv ==
    ASSUME Inv, NEW r \in Replicas, SapCall(r) \/ SalesforceCall(r)
    PROVE  Inv'
<1>1. TypeInv'
  BY CallType DEF Inv
<1>. QED
  BY <1>1, QuietInv DEF SapCall, SalesforceCall, world

LEMMA NetworkInv == ASSUME Inv, Network PROVE Inv'
<1>1. TypeInv'
  BY NetworkType DEF Inv
<1>. QED
  BY <1>1, QuietInv DEF Network, state

LEMMA AskInv ==
    ASSUME Inv, NEW r \in Replicas, NEW t \in Threads, Ask(r, t)
    PROVE  Inv'
<1>1. /\ TypeInv' /\ pc[r][t] = "ask" /\ pc'[r][t] = "reply" /\ got'[r][t] = sap
      /\ begun' = begun /\ Others(r, t)
  BY AskType DEF Inv
<1>2. UNCHANGED <<now, sap, changedAt, cfg, expires, lastOk, busy>>
  BY DEF Ask, world, state
<1>3. ThreadOk(r, t)'
  <2>1. ThreadOk(r, t)
    BY DEF Inv, ThreadInv
  <2>. QED
    BY <1>1, <1>2, <2>1 DEF ThreadOk, Idle
<1>4. SameInstant
  BY <1>2, QuietInstant
<1>5. ThreadInv' /\ CopyInv'
  BY <1>1, <1>2, <1>3, <1>4, ThreadStep, CopyStep
<1>6. t = "refresh" => busy[r]
  BY <1>1 DEF Inv, OneRefreshAtATime, Idle
<1>7. IF t = "refresh" THEN busy'[r] <=> pc'[r][t] # "idle" ELSE busy'[r] = busy[r]
  BY <1>1, <1>2, <1>6
<1>8. OneRefreshAtATime'
  BY <1>1, <1>2, <1>7, FlagStep
<1>. QED
  BY <1>1, <1>5, <1>8 DEF Inv

\* The end of an operation clears the flag exactly if it is a refresh.
LEMMA FinishFlag ==
    ASSUME Inv, NEW r \in Replicas, NEW t \in Threads, Finish(r, t)
    PROVE  OneRefreshAtATime' /\ ThreadOk(r, t)'
<1>0. TypeOK
  BY DEF Inv, TypeInv
<1>1. /\ pc'[r][t] = "idle" /\ Others(r, t)
      /\ busy' = IF t = "refresh" THEN [busy EXCEPT ![r] = FALSE] ELSE busy
  BY <1>0, FinishType
<1>2. \A x \in Replicas \ {r} : busy'[x] = busy[x]
  BY <1>0, <1>1 DEF TypeOK
<1>3. IF t = "refresh" THEN busy'[r] <=> pc'[r][t] # "idle" ELSE busy'[r] = busy[r]
  BY <1>0, <1>1 DEF TypeOK
<1>4. OneRefreshAtATime'
  BY <1>1, <1>2, <1>3, FlagStep
<1>. QED
  BY <1>1, <1>4 DEF ThreadOk, Idle

LEMMA ReplyInv ==
    ASSUME Inv, NEW r \in Replicas, NEW t \in Threads, Reply(r, t)
    PROVE  Inv'
<1>1. /\ TypeInv' /\ pc[r][t] = "reply" /\ Others(r, t)
      /\ \/ pc'[r][t] = "store" /\ UNCHANGED <<got, begun, busy>>
         \/ Finish(r, t)
  BY ReplyType DEF Inv
<1>2. UNCHANGED <<now, sap, changedAt, cfg, expires, lastOk>>
  BY DEF Reply, world
<1>3. OneRefreshAtATime' /\ ThreadOk(r, t)'
  <2>1. CASE pc'[r][t] = "store" /\ UNCHANGED <<got, begun, busy>>
    <3>1. ThreadOk(r, t) /\ (t = "refresh" => busy[r])
      BY <1>1 DEF Inv, ThreadInv, OneRefreshAtATime, Idle
    <3>2. ThreadOk(r, t)'
      BY <1>1, <1>2, <2>1, <3>1 DEF ThreadOk, Idle
    <3>3. OneRefreshAtATime'
      BY <1>1, <2>1, <3>1, FlagStep
    <3>. QED
      BY <3>2, <3>3
  <2>2. CASE Finish(r, t)
    BY <2>2, FinishFlag
  <2>. QED
    BY <1>1, <2>1, <2>2
<1>4. TypeInv'
  BY <1>1
<1>5. SameInstant
  BY <1>2, QuietInstant
<1>6. ThreadInv' /\ CopyInv'
  BY <1>1, <1>2, <1>3, <1>5, ThreadStep, CopyStep
<1>. QED
  BY <1>3, <1>4, <1>6 DEF Inv

\* The entry set now outlives the thread that sets it, and what it holds was in SAP when
\* that thread had begun.
LEMMA StoreInv ==
    ASSUME Inv, NEW r \in Replicas, NEW t \in Threads, Store(r, t)
    PROVE  Inv'
<1>0. TypeOK /\ changedAt <= now
  BY DEF Inv, TypeInv, CopyInv
<1>1. /\ TypeInv' /\ pc[r][t] = "store" /\ pc'[r][t] = "stamp" /\ got[r][t] \in Configs
      /\ begun' = begun /\ Others(r, t)
  BY StoreType DEF Inv
<1>2. UNCHANGED <<now, sap, changedAt, lastOk, busy, got>>
  BY DEF Store, world, state
<1>3. cfg' = [cfg EXCEPT ![r] = got[r][t]] /\ expires' = [expires EXCEPT ![r] = now + CacheLife]
  BY DEF Store
<1>4. /\ cfg'[r] = got[r][t] /\ expires'[r] = now + CacheLife
      /\ \A x \in Replicas \ {r} : cfg'[x] = cfg[x] /\ expires'[x] = expires[x]
  BY <1>0, <1>3 DEF TypeOK
<1>5. /\ now \in Nat /\ changedAt \in Nat /\ CacheLife \in Nat /\ MaxOpTicks \in Nat
      /\ begun[r][t] \in Nat /\ \A x \in Replicas : expires[x] \in Nat
  BY <1>0, TimeAssumption DEF TypeOK
<1>6. ThreadOk(r, t) /\ ~ Idle(r, t)
  BY <1>1 DEF Inv, ThreadInv, Idle
<1>7. ThreadOk(r, t)'
  BY <1>1, <1>2, <1>4, <1>5, <1>6 DEF ThreadOk, Idle
<1>8. SameInstant
  <2>1. \A x \in Replicas : expires[x] <= now + CacheLife
    BY DEF Inv, CopyInv, CopyOk
  <2>2. \A x \in Replicas : expires[x] <= expires'[x]
    BY <1>4, <1>5, <2>1
  <2>. QED
    BY <1>0, <1>2, <1>5, <2>2 DEF SameInstant
<1>9. ThreadInv'
  BY <1>1, <1>7, <1>8, ThreadStep
<1>10. ASSUME NEW x \in Replicas PROVE CopyOk(x)'
  <2>1. CopyOk(x)
    BY DEF Inv, CopyInv
  <2>2. CASE x # r
    BY <1>2, <1>4, <2>1, <2>2 DEF CopyOk
  <2>3. CASE x = r
    <3>1. cfg'[r] # None
      BY <1>1, <1>4, ConfigTypes
    <3>2. lastOk[r] # None => lastOk[r] <= now /\ lastOk[r] \in Nat
      BY <1>0, <2>1, <2>3 DEF CopyOk, TypeOK, Times
    <3>3. cfg'[r] # sap => now <= changedAt + MaxOpTicks
      BY <1>1, <1>4, <1>5, <1>6 DEF ThreadOk
    <3>. QED
      BY <1>2, <1>4, <1>5, <2>3, <3>1, <3>2, <3>3 DEF CopyOk
  <2>. QED
    BY <2>2, <2>3
<1>11. CopyInv'
  BY <1>0, <1>2, <1>10 DEF CopyInv
<1>12. t = "refresh" => busy[r]
  BY <1>1 DEF Inv, OneRefreshAtATime, Idle
<1>13. OneRefreshAtATime'
  BY <1>1, <1>2, <1>12, FlagStep
<1>. QED
  BY <1>1, <1>9, <1>11, <1>13 DEF Inv

\* The stamp comes at most one operation after the entry it stamps.
LEMMA StampInv ==
    ASSUME Inv, NEW r \in Replicas, NEW t \in Threads, Stamp(r, t)
    PROVE  Inv'
<1>0. TypeOK /\ changedAt <= now
  BY DEF Inv, TypeInv, CopyInv
<1>1. TypeInv' /\ Others(r, t) /\ pc[r][t] = "stamp" /\ Finish(r, t)
  BY StampType DEF Inv, Stamp
<1>2. UNCHANGED <<now, sap, changedAt, cfg, expires>> /\ lastOk' = [lastOk EXCEPT ![r] = now]
  BY DEF Stamp, world
<1>3. lastOk'[r] = now /\ \A x \in Replicas \ {r} : lastOk'[x] = lastOk[x]
  BY <1>0, <1>2 DEF TypeOK
<1>4. OneRefreshAtATime' /\ ThreadOk(r, t)'
  BY <1>1, FinishFlag
<1>5. ThreadInv'
  BY <1>1, <1>2, <1>4, QuietInstant, ThreadStep
<1>6. ASSUME NEW x \in Replicas PROVE CopyOk(x)'
  <2>1. CopyOk(x)
    BY DEF Inv, CopyInv
  <2>2. CASE x # r
    BY <1>2, <1>3, <2>1, <2>2 DEF CopyOk
  <2>3. CASE x = r
    <3>1. ThreadOk(r, t) /\ ~ Idle(r, t)
      BY <1>1 DEF Inv, ThreadInv, Idle
    <3>2. /\ now \in Nat /\ begun[r][t] \in Nat /\ expires[r] \in Nat
          /\ CacheLife \in Nat /\ MaxOpTicks \in Nat
      BY <1>0, TimeAssumption DEF TypeOK
    <3>3. now + CacheLife <= expires[r] + MaxOpTicks
      BY <1>1, <3>1, <3>2 DEF ThreadOk
    <3>. QED
      BY <1>2, <1>3, <2>1, <2>3, <3>2, <3>3 DEF CopyOk
  <2>. QED
    BY <2>2, <2>3
<1>7. CopyInv'
  BY <1>0, <1>2, <1>6 DEF CopyInv
<1>. QED
  BY <1>1, <1>4, <1>5, <1>7 DEF Inv

LEMMA CrashInv ==
    ASSUME Inv, NEW r \in Replicas, Crash(r)
    PROVE  Inv'
<1>0. TypeOK
  BY DEF Inv, TypeInv
<1>1. /\ TypeInv'
      /\ \A t \in Threads : pc'[r][t] = "idle"
      /\ \A x \in Replicas \ {r} : pc'[x] = pc[x] /\ got'[x] = got[x] /\ begun'[x] = begun[x]
      /\ cfg'[r] = None /\ expires'[r] = 0 /\ lastOk'[r] = None
  BY CrashType DEF Inv
<1>2. UNCHANGED <<now, sap, changedAt>>
  BY DEF Crash, world
<1>3. /\ busy'[r] = FALSE
      /\ \A x \in Replicas \ {r} :
            cfg'[x] = cfg[x] /\ expires'[x] = expires[x] /\ lastOk'[x] = lastOk[x]
            /\ busy'[x] = busy[x]
  BY <1>0 DEF Crash, TypeOK
<1>4. ThreadInv'
  BY <1>1, <1>2, <1>3 DEF Inv, ThreadInv, ThreadOk, Idle
<1>5. now \in Nat /\ CacheLife \in Nat
  BY <1>0, TimeAssumption DEF TypeOK
<1>6. CopyInv'
  BY <1>1, <1>2, <1>3, <1>5 DEF Inv, CopyInv, CopyOk
<1>7. OneRefreshAtATime'
  BY <1>1, <1>3 DEF Inv, OneRefreshAtATime, Idle, Threads
<1>. QED
  BY <1>1, <1>4, <1>6, <1>7 DEF Inv

\* Time passes only while no operation exceeds its limit, and an entry goes exactly when
\* its time has come.
LEMMA TickInv == ASSUME Inv, Tick PROVE Inv'
<1>0. TypeOK /\ TypeInv'
  BY TickType DEF Inv, TypeInv
<1>1. now' = now + 1 /\ UNCHANGED <<sap, changedAt, expires, lastOk, busy, pc, got, begun>>
  BY DEF Tick, state
<1>2. now \in Nat /\ changedAt \in Nat /\ CacheLife \in Nat /\ MaxOpTicks \in Nat
  BY <1>0, TimeAssumption DEF TypeOK
<1>3. ASSUME NEW x \in Replicas, NEW y \in Threads PROVE ThreadOk(x, y)'
  <2>1. ThreadOk(x, y) /\ begun[x][y] \in Nat
    BY <1>0 DEF Inv, ThreadInv, TypeOK
  <2>2. ~ Idle(x, y) => now - begun[x][y] < MaxOpTicks
    BY DEF Tick
  <2>. QED
    BY <1>1, <1>2, <2>1, <2>2 DEF ThreadOk, Idle
<1>4. ASSUME NEW x \in Replicas PROVE CopyOk(x)'
  <2>1. CopyOk(x) /\ expires[x] \in Nat /\ lastOk[x] \in Times
    BY <1>0 DEF Inv, CopyInv, TypeOK
  <2>2. cfg'[x] = IF expires[x] <= now + 1 THEN None ELSE cfg[x]
    BY DEF Tick
  <2>. QED
    BY <1>1, <1>2, <2>1, <2>2 DEF CopyOk, Times
<1>5. changedAt' <= now'
  BY <1>1, <1>2 DEF Inv, CopyInv
<1>6. OneRefreshAtATime'
  BY <1>1 DEF Inv, OneRefreshAtATime, Idle
<1>. QED
  BY <1>0, <1>3, <1>4, <1>5, <1>6 DEF Inv, ThreadInv, CopyInv

LEMMA InitInv == Init => Inv
<1>. SUFFICES ASSUME Init PROVE Inv
  OBVIOUS
<1>1. \A x \in Replicas, y \in Threads : Idle(x, y)
  BY DEF Init, Idle
<1>2. ThreadInv
  BY <1>1 DEF ThreadInv, ThreadOk
<1>3. OneRefreshAtATime
  BY <1>1 DEF Init, OneRefreshAtATime, Threads
<1>4. CopyInv
  BY TimeAssumption DEF Init, CopyInv, CopyOk
<1>. QED
  BY <1>2, <1>3, <1>4, InitType DEF Inv

LEMMA NextInv == Inv /\ [Next]_vars => Inv'
<1>. SUFFICES ASSUME Inv, [Next]_vars PROVE Inv'
  OBVIOUS
<1>1. CASE \E r \in Replicas :
            BeginRefresh(r) \/ BeginFill(r) \/ BeginEdit(r) \/ PutEdit(r) \/ SapCall(r)
            \/ SalesforceCall(r) \/ Crash(r)
  BY <1>1, BeginsInv, PutInv, CallInv, CrashInv
<1>2. CASE \E r \in Replicas, t \in Threads : Step(r, t)
  BY <1>2, AskInv, ReplyInv, StoreInv, StampInv DEF Step
<1>3. CASE Network \/ Tick
  BY <1>3, NetworkInv, TickInv
<1>4. CASE UNCHANGED vars
  <2>1. UNCHANGED <<now, up, sap, changedAt, cfg, expires, lastOk, lastTry, busy, lastFailed,
                    failures, pc, got, begun, edit, saved, edits, faults>>
    BY <1>4 DEF vars, world, state
  <2>2. TypeInv'
    BY <2>1 DEF Inv, TypeInv, TypeOK, EditReady
  <2>. QED
    BY <2>1, <2>2, QuietInv
<1>. QED
  BY <1>1, <1>2, <1>3, <1>4 DEF Next

-----------------------------------------------------------------------------
(* The theorems.                                                           *)

LEMMA InvHolds == Spec => []Inv
BY InitInv, NextInv, PTL DEF Spec

\* Every variable of the maintenance host has its type, and a thread that goes on to
\* SetCache has read a configuration, through every fault.
THEOREM MaintenanceTypes == Spec => []TypeOK
<1>1. Inv => TypeOK
  BY DEF Inv, TypeInv
<1>. QED
  BY <1>1, InvHolds, PTL

\* Background refreshes of a replica never overlap, and however one ends, by an answer
\* with or without values, a failure or a restart, the in-progress flag is down
\* afterwards (TryBeginConfigRefresh, EndConfigRefresh).
THEOREM RefreshesAlone == Spec => []OneRefreshAtATime
<1>1. Inv => OneRefreshAtATime
  BY DEF Inv
<1>. QED
  BY <1>1, InvHolds, PTL

\* The entry of a fresh copy was set at most one operation before its stamp.
LEMMA FreshInv == Inv => FreshMeansCached
<1>. SUFFICES ASSUME Inv, NEW r \in Replicas, ~ IsConfigStale(r) PROVE cfg[r] # None
  BY DEF FreshMeansCached
<1>1. CopyOk(r) /\ now \in Nat /\ expires[r] \in Nat /\ lastOk[r] \in Times
  BY DEF Inv, CopyInv, TypeInv, TypeOK
<1>2. lastOk[r] \in Nat /\ lastOk[r] # None /\ ~ (now - lastOk[r] > ConfigTtl)
  BY <1>1 DEF IsConfigStale, Times
<1>3. expires[r] > now
  BY <1>1, <1>2, TimeAssumption DEF CopyOk
<1>. QED
  BY <1>1, <1>3 DEF CopyOk

\* A replica whose configuration counts as fresh has one to enforce, whatever the order
\* in which the two halves of SetCache run on its threads, provided that an entry of
\* the memory cache outlives the TTL by more than the longest operation.
THEOREM FreshAlwaysCached == Spec => []FreshMeansCached
BY FreshInv, InvHolds, PTL

\* The entry of such a copy was set at most one operation after SAP changed, and stamped
\* at most one operation after that.
LEMMA StaleInv == Inv => StaleCopyBounded
<1>. SUFFICES ASSUME Inv, NEW r \in Replicas,
                     cfg[r] # None, cfg[r] # sap, ~ IsConfigStale(r)
              PROVE  now <= changedAt + ConfigTtl + 2 * MaxOpTicks
  BY DEF StaleCopyBounded
<1>1. /\ CopyOk(r) /\ now \in Nat /\ expires[r] \in Nat /\ lastOk[r] \in Times
      /\ changedAt \in Nat
  BY DEF Inv, CopyInv, TypeInv, TypeOK
<1>2. lastOk[r] \in Nat /\ lastOk[r] # None /\ ~ (now - lastOk[r] > ConfigTtl)
  BY <1>1 DEF IsConfigStale, Times
<1>3. /\ now <= lastOk[r] + ConfigTtl
      /\ lastOk[r] + CacheLife <= expires[r] + MaxOpTicks
      /\ expires[r] <= changedAt + CacheLife + MaxOpTicks
  BY <1>1, <1>2, TimeAssumption DEF CopyOk
<1>. QED
  BY <1>1, <1>2, <1>3, TimeAssumption

\* A configuration that differs from SAP's is not taken for fresh later than the TTL and
\* two operations after SAP changed: with any number of replicas, edits and refreshes
\* under way, half-written edits, late answers, and the memory cache set and
\* stamped in separate steps.
THEOREM StalenessBound == Spec => []StaleCopyBounded
BY StaleInv, InvHolds, PTL

\* Once a window has been on in SAP for the TTL and two operations, no replica that
\* counts its configuration as fresh lets an anonymous request through: it has a
\* copy, the copy is SAP's, and SAP's says that maintenance is on.
THEOREM WindowEnforced == Spec => []MaintenanceEnforced
<1>1. Inv => MaintenanceEnforced
  <2>. SUFFICES ASSUME Inv, IsMaintenanceActive(sap),
                       now > changedAt + ConfigTtl + 2 * MaxOpTicks,
                       NEW r \in Replicas, ~ IsConfigStale(r)
                PROVE  ~ Open(r)
    BY DEF MaintenanceEnforced
  <2>1. cfg[r] # None
    BY FreshInv DEF FreshMeansCached
  <2>2. ~ (now <= changedAt + ConfigTtl + 2 * MaxOpTicks)
    BY TimeAssumption DEF Inv, TypeInv, TypeOK
  <2>3. cfg[r] = sap
    BY <2>1, <2>2, StaleInv DEF StaleCopyBounded
  <2>. QED
    BY <2>3 DEF Open
<1>. QED
  BY <1>1, InvHolds, PTL
=============================================================================
