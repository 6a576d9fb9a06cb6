------------------------ MODULE BrowserSessionProofs ------------------------
(***************************************************************************)
(* Proofs about the session of a browser tab, for any users and any        *)
(* number of sessions, calls, documents and changes of language.           *)
(***************************************************************************)
EXTENDS BrowserSession, SequenceTheorems, TLAPS

------------------------------------------------------------------------------
(* The inductive invariant.                                                *)

\* What is numbered has its number from the counter of calls.
Numbered ==
    /\ heap.promise <= made /\ (frozen # None => frozen.promise = 0)
    /\ \A c \in calls : c.id <= made /\ c.via <= made
    /\ \A f \in fetch : f.id <= made

\* A document that does not know its session yet asks for it once, apart from what it abandoned.
OnlyBootstrap ==
    /\ ~heap.loaded => /\ fetch = {} /\ \A c \in calls : c.kind \in {"session", "read"}
                       /\ \A c, d \in calls : c.kind = "session" /\ d.kind = "session" => c = d
    /\ heap.loaded => \A c \in calls : c.kind # "session"
    /\ frozen # None => frozen.loaded

\* A login, to the check at its end, is somebody's.
LoginKinds == {"login", "check"}
LoginNames == \A c \in calls : c.kind \in LoginKinds => c.user \in Users

\* One login at a time; its form is shown meanwhile, and left after an idle logout.
LoginForm ==
    /\ \A c, d \in calls : c.kind \in LoginKinds /\ d.kind \in LoginKinds => c = d
    /\ \A c \in calls : c.kind \in LoginKinds => heap.shown = None /\ \A d \in calls : d.kind # "idle"
    /\ \A c \in calls : c.kind = "idle" => heap.shown = None /\ leaving

\* Once the session has ended nothing under way can bring it back.
EndedForGood ==
    ended => cookie = 0 /\ ~Completing /\ \A c \in calls : c.kind = "session" => c.cookie = 0

\* A document whose session is known to be over is being left, and one that is marked is, or is stuck.
HandledLeaves ==
    ~thawed => (heap.handled # {} => leaving) /\ (heap.marked => leaving \/ stuck)

\* While a document asks for its session the cookie remains of one user, or goes.
BootstrapAskedNow ==
    ~revived /\ cookie # 0 =>
        \A c \in calls : c.kind = "session" => c.cookie # 0 /\ owner[c.cookie] = owner[cookie]

\* So it does while a login is completed.
CheckOfCookie ==
    ~revived /\ cookie # 0 => \A c \in calls : c.kind = "check" => owner[cookie] = c.user

\* Whoever waits for a token that will still fit the cookie was sent with that cookie.
WaitsWithCookie ==
    \A c \in calls, f \in fetch :
        c.via = f.id /\ f.cookie = cookie /\ cookie # 0 => c.cookie = cookie

\* A write that may yet be carried out was begun for the user of its session.
WriteOfUser ==
    ~revived /\ ~thawed =>
        \A c \in calls :
            c.kind = "write" /\ c.cookie # 0 /\ (~Sent(c) \/ c.token = c.cookie) =>
                owner[c.cookie] = c.user

DocInv == TypeOK /\ Numbered /\ OnlyBootstrap /\ LoginNames
PageInv == LoginForm /\ EndedForGood /\ HandledLeaves /\ EndedStaysEnded
UserInv == BootstrapAskedNow /\ CheckOfCookie /\ ShownIsCookie /\ WaitsWithCookie /\ WriteOfUser
Inv == DocInv /\ PageInv /\ UserInv
------------------------------------------------------------------------------
(* Sessions and their tokens.                                              *)

LEMMA NoneTypes ==
    /\ None \notin Users /\ None \notin Int /\ None \notin Nat
    /\ MaxSessions \in Nat /\ MaxCalls \in Nat /\ MaxOpens \in Nat /\ MaxChanges \in Nat
    /\ 0 \in 0 .. MaxCalls /\ 0 \in Services /\ Admins \subseteq Users
BY NoneAssumption, BoundAssumption, UserAssumption DEF Services

\* What is true of every step: sessions keep their numbers and their users.
Grows ==
    /\ owner' \in Seq(Users) /\ Len(owner) \in Nat /\ Len(owner') \in Nat
    /\ Len(owner') >= Len(owner)
    /\ \A s \in 1 .. Len(owner) : owner'[s] = owner[s] /\ owner[s] \in Users
    /\ SessionIds \subseteq SessionIds' /\ Tokens \subseteq Tokens'
    /\ Heaps \subseteq Heaps' /\ Calls \subseteq Calls' /\ Fetches \subseteq Fetches'

LEMMA AppendOwner ==
    ASSUME owner \in Seq(Users), NEW u \in Users, owner' = Append(owner, u)
    PROVE  Grows /\ Len(owner') = Len(owner) + 1 /\ owner'[Len(owner) + 1] = u
<1>1. /\ owner' \in Seq(Users) /\ Len(owner') = Len(owner) + 1 /\ Len(owner) \in Nat
      /\ owner'[Len(owner) + 1] = u
      /\ \A s \in 1 .. Len(owner) : owner'[s] = owner[s] /\ owner[s] \in Users
  OBVIOUS
<1>2. SessionIds \subseteq SessionIds'
  BY <1>1 DEF SessionIds
<1>3. Tokens \subseteq Tokens'
  BY <1>2 DEF Tokens
<1>4. Heaps \subseteq Heaps'
  BY <1>3 DEF Heaps
<1>5. Calls \subseteq Calls' /\ Fetches \subseteq Fetches'
  BY <1>2, <1>3 DEF Calls, Fetches
<1>. QED
  BY <1>1, <1>2, <1>3, <1>4, <1>5 DEF Grows

LEMMA KeepOwner ==
    ASSUME owner \in Seq(Users), UNCHANGED owner
    PROVE  Grows
<1>1. Len(owner) \in Nat /\ \A s \in 1 .. Len(owner) : owner[s] \in Users
  OBVIOUS
<1>2. SessionIds = SessionIds' /\ Tokens = Tokens' /\ Heaps = Heaps' /\ Calls = Calls' /\ Fetches = Fetches'
  BY DEF SessionIds, Tokens, Heaps, Calls, Fetches
<1>. QED
  BY <1>1, <1>2 DEF Grows

\* The cookie is kept, or dropped, or replaced by a session that is new.
CookieMoves == cookie' \in SessionIds' /\ (cookie' \in {0, cookie} \/ cookie' = Len(owner) + 1)

\* An answer renews the session, or does not.
LEMMA RenewEffect ==
    ASSUME owner \in Seq(Users), cookie \in SessionIds, NEW s \in SessionIds, NEW renewed,
           ended \in BOOLEAN, revived \in BOOLEAN, thawed \in BOOLEAN, stuck \in BOOLEAN, Renew(s, renewed)
    PROVE  /\ Grows /\ CookieMoves /\ UNCHANGED <<thawed, stuck>>
           /\ ended' \in BOOLEAN /\ revived' \in BOOLEAN
           /\ ended' => ended /\ UNCHANGED <<cookie, owner>>
           /\ ~revived' => /\ ~revived /\ (cookie' # 0 <=> cookie # 0)
                           /\ cookie # 0 => owner'[cookie'] = owner[cookie]
           /\ IF renewed THEN cookie' = Len(owner) + 1 /\ s # 0 /\ owner'[cookie'] = owner[s]
              ELSE UNCHANGED <<cookie, owner, history>>
<1>1. CASE renewed
  <2>1. s \in 1 .. Len(owner) /\ owner' = Append(owner, owner[s]) /\ cookie' = Len(owner) + 1
    BY <1>1 DEF Renew, SessionIds
  <2>2. owner[s] \in Users
    BY <2>1
  <2>3. Grows /\ Len(owner') = Len(owner) + 1 /\ owner'[Len(owner) + 1] = owner[s]
    BY <2>1, <2>2, AppendOwner
  <2>4. CookieMoves
    BY <2>1, <2>3 DEF CookieMoves, SessionIds, Grows
  <2>5. /\ revived' = (revived \/ cookie = 0 \/ owner[s] # owner[cookie])
        /\ ended' = FALSE /\ UNCHANGED <<thawed, stuck>>
    BY <1>1 DEF Renew
  <2>6. ~revived' => ~revived /\ cookie # 0 /\ owner[s] = owner[cookie]
    BY <2>5
  <2>7. ended' \in BOOLEAN /\ revived' \in BOOLEAN /\ ~ended'
    BY <2>5
  <2>8. cookie' # 0 /\ owner'[cookie'] = owner[s] /\ s # 0
    BY <2>1, <2>3 DEF Grows
  <2>. QED
    BY <1>1, <2>1, <2>3, <2>4, <2>5, <2>6, <2>7, <2>8
<1>2. CASE ~renewed
  <2>1. UNCHANGED <<owner, cookie, history>>
    BY <1>2 DEF Renew
  <2>2. Grows
    BY <2>1, KeepOwner
  <2>. QED
    BY <1>2, <2>1, <2>2 DEF CookieMoves, SessionIds, history
<1>. QED
  BY <1>1, <1>2
------------------------------------------------------------------------------
(* Types, numbers and documents.                                           *)

\* A call that is issued carries the cookie of the moment, and waits for a token or has one.
LEMMA IssueEffect ==
    ASSUME TypeOK, Numbered, UNCHANGED <<cookie, owner>>,
           NEW kind \in Kinds, NEW u \in Users \cup {None}, NEW h \in Heaps, h.promise <= made,
           Issue(kind, u, h)
    PROVE  /\ made' = made + 1 /\ made' \in 0 .. MaxCalls
           /\ heap' \in Heaps /\ heap'.promise <= made'
           /\ heap'.shown = h.shown /\ heap'.loaded = h.loaded /\ heap'.handled = h.handled /\ heap'.marked = h.marked
           /\ \E c \in Calls :
                /\ calls' = calls \cup {c}
                /\ c.id = made' /\ c.via <= made' /\ c.kind = kind /\ c.user = u /\ c.cookie = cookie
           /\ \/ UNCHANGED fetch
              \/ \E f \in Fetches :
                    fetch' = fetch \cup {f} /\ f.id = made' /\ f.cookie = cookie
<1> DEFINE promise == IF h.promise = 0 THEN made + 1 ELSE h.promise
           waits == kind \notin Safe /\ h.token = None
           c == [id |-> made + 1, by |-> h.service, kind |-> kind, user |-> u,
                 via |-> IF waits THEN promise ELSE 0,
                 token |-> IF kind \in Safe THEN None ELSE h.token, cookie |-> cookie]
           f == [id |-> promise, by |-> h.service, cookie |-> cookie]
<1>1. /\ made' = made + 1 /\ made + 1 \in 1 .. MaxCalls /\ made' \in 0 .. MaxCalls
  BY NoneTypes DEF Issue, TypeOK
<1>2. promise \in 1 .. MaxCalls /\ promise <= made + 1
  BY <1>1, NoneTypes DEF Heaps, TypeOK
<1>3. heap' = IF waits THEN [h EXCEPT !.promise = promise] ELSE h
  BY DEF Issue
<1>4. /\ heap' \in Heaps /\ heap'.promise <= made'
      /\ heap'.shown = h.shown /\ heap'.loaded = h.loaded /\ heap'.handled = h.handled /\ heap'.marked = h.marked
  <2> HIDE DEF promise, waits
  <2>. QED
    BY <1>1, <1>2, <1>3, NoneTypes DEF Heaps, TypeOK
<1>5. c \in Calls /\ calls' = calls \cup {c}
  <2>1. calls' = calls \cup {c}
    BY DEF Issue
  <2>2. (IF waits THEN promise ELSE 0) \in 0 .. MaxCalls
    BY <1>2, NoneTypes
  <2>3. (IF kind \in Safe THEN None ELSE h.token) \in Tokens
    BY DEF Heaps, Tokens
  <2>4. h.service \in Services
    BY DEF Heaps
  <2> HIDE DEF promise, waits
  <2>. QED
    BY <1>1, <2>1, <2>2, <2>3, <2>4 DEF Calls, TypeOK
<1>6. c.id = made' /\ c.via <= made' /\ c.kind = kind /\ c.user = u /\ c.cookie = cookie
  BY <1>1, <1>2 DEF TypeOK
<1>7. UNCHANGED fetch \/ (fetch' = fetch \cup {f} /\ f.id = made' /\ f.cookie = cookie
                            /\ f \in Fetches)
  <2>1. CASE waits /\ h.promise = 0
    <3>1. fetch' = fetch \cup {f} /\ promise = made + 1
      BY <2>1 DEF Issue
    <3>. QED
      BY <1>1, <3>1 DEF TypeOK, Fetches, Heaps
  <2>2. CASE ~(waits /\ h.promise = 0)
    BY <2>2 DEF Issue
  <2>. QED
    BY <2>1, <2>2
<1>. QED
  BY <1>1, <1>4, <1>5, <1>6, <1>7

LEMMA FreshType == \A b \in BOOLEAN : Fresh(b) \in Heaps
BY NoneTypes DEF Fresh, Heaps, Tokens, SessionIds

LEMMA CallNumbers ==
    TypeOK => /\ made \in Nat /\ heap.promise \in Nat /\ cookie \in Nat
              /\ \A c \in calls : c.id \in 1 .. MaxCalls /\ c.via \in Nat /\ c.cookie \in SessionIds
              /\ \A f \in fetch : f.id \in 1 .. MaxCalls /\ f.cookie \in SessionIds
BY NoneTypes DEF TypeOK, Heaps, Calls, Fetches, SessionIds

LEMMA SessionCallType ==
    ASSUME TypeOK, made + 1 \in 1 .. MaxCalls, NEW h \in Heaps
    PROVE  /\ SessionCall(h) \in Calls /\ SessionCall(h).kind = "session" /\ SessionCall(h).via = 0
           /\ SessionCall(h).id = made + 1 /\ SessionCall(h).cookie = cookie
<1>1. h.service \in Services /\ None \in Tokens /\ cookie \in SessionIds
  BY DEF Heaps, Tokens, TypeOK
<1>. QED
  BY <1>1, NoneTypes DEF SessionCall, Calls, Kinds

LEMMA InitDoc == Init => DocInv
<1>. SUFFICES ASSUME Init PROVE DocInv
  OBVIOUS
<1>1. owner \in Seq(Users) /\ cookie \in SessionIds
  BY DEF Init, SessionIds
<1>2. heap \in Heaps /\ heap.promise = 0 /\ heap.loaded /\ heap.shown = None
  BY FreshType DEF Init, Fresh
<1>3. TypeOK
  <2>1. /\ leaving = FALSE /\ pending = FALSE /\ stuck = FALSE /\ calls = {} /\ fetch = {} /\ frozen = None /\ made = 0 /\ opened = 0
        /\ ended = FALSE /\ revived = FALSE /\ thawed = FALSE
    BY DEF Init
  <2>2. 0 \in 0 .. MaxCalls /\ 0 \in 0 .. MaxOpens
    BY NoneTypes
  <2>. QED
    BY <1>1, <1>2, <2>1, <2>2 DEF TypeOK
<1>4. Numbered /\ OnlyBootstrap /\ LoginNames
  BY <1>2 DEF Init, Numbered, OnlyBootstrap, LoginNames, Fresh
<1>. QED
  BY <1>3, <1>4 DEF DocInv

\* A call of a page that knows its session.
LEMMA IssueDoc ==
    ASSUME DocInv, heap.loaded, UNCHANGED <<cookie, owner, frozen, opened, history>>,
           leaving' \in BOOLEAN, pending' \in BOOLEAN,
           NEW kind \in Kinds \ {"session", "check"}, NEW u \in Users \cup {None}, NEW h \in Heaps,
           h.promise = heap.promise, h.loaded, kind = "login" => u \in Users, Issue(kind, u, h)
    PROVE  DocInv'
<1>. USE DEF DocInv
<1>1. h.promise <= made
  BY DEF Numbered
<1>2. /\ made' = made + 1 /\ made' \in 0 .. MaxCalls
      /\ heap' \in Heaps /\ heap'.promise <= made' /\ heap'.loaded
  BY <1>1, IssueEffect
<1>3. PICK c \in Calls : /\ calls' = calls \cup {c} /\ c.id = made' /\ c.via <= made'
                         /\ c.kind = kind /\ c.user = u
  BY <1>1, IssueEffect
<1>4. /\ fetch' \subseteq Fetches
      /\ \A f \in fetch' : f.id <= made'
  <2>1. UNCHANGED fetch \/ \E f \in Fetches :
            fetch' = fetch \cup {f} /\ f.id = made'
    BY <1>1, IssueEffect
  <2>. QED
    BY <2>1, <1>2, CallNumbers DEF TypeOK, Numbered
<1>5. SessionIds' = SessionIds /\ Calls' = Calls /\ Heaps' = Heaps /\ Fetches' = Fetches
  BY DEF SessionIds, Calls, Heaps, Tokens, Fetches
<1>6. TypeOK'
  BY <1>2, <1>3, <1>4, <1>5 DEF TypeOK, history
<1>7. Numbered'
  <2>1. \A c2 \in calls' : c2.id <= made' /\ c2.via <= made'
    BY <1>2, <1>3, CallNumbers DEF Numbered
  <2>. QED
    BY <1>2, <1>4, <2>1 DEF Numbered
<1>8. OnlyBootstrap' /\ LoginNames'
  BY <1>2, <1>3 DEF OnlyBootstrap, LoginNames, LoginKinds
<1>. QED
  BY <1>6, <1>7, <1>8

\* A document that takes the place of another one.
LEMMA ReplaceDoc ==
    ASSUME DocInv, UNCHANGED <<cookie, owner, history>>, NEW h \in Heaps, h.promise = 0,
           ~h.loaded => h.shown = None, Replace(h)
    PROVE  /\ heap' \in Heaps /\ heap' = h /\ fetch' = {} /\ leaving' = FALSE
           /\ frozen' \in Heaps \cup {None}
           /\ frozen' # None => frozen'.promise = 0 /\ frozen'.loaded
           /\ SessionIds' = SessionIds /\ Heaps' = Heaps /\ Calls' = Calls /\ Fetches' = Fetches
<1>1. SessionIds' = SessionIds /\ Calls' = Calls /\ Heaps' = Heaps /\ Fetches' = Fetches
  BY DEF SessionIds, Calls, Heaps, Tokens, Fetches
<1>2. [heap EXCEPT !.promise = 0] \in Heaps
  BY NoneTypes DEF DocInv, TypeOK, Heaps
<1>3. heap.loaded => [heap EXCEPT !.promise = 0].loaded /\ [heap EXCEPT !.promise = 0].promise = 0
  BY DEF DocInv, TypeOK, Heaps
<1>. QED
  BY <1>1, <1>2, <1>3 DEF Replace

LEMMA NavigateDoc == DocInv /\ Navigate => DocInv'
<1>. SUFFICES ASSUME DocInv, Navigate PROVE DocInv'
  OBVIOUS
<1>1. Fresh(TRUE) \in Heaps /\ Fresh(TRUE).promise = 0 /\ Fresh(TRUE).loaded
  BY FreshType DEF Fresh
<1>2. /\ heap' \in Heaps /\ heap'.loaded /\ heap'.promise = 0 /\ fetch' = {} /\ leaving' = FALSE
      /\ frozen' \in Heaps \cup {None} /\ (frozen' # None => frozen'.promise = 0 /\ frozen'.loaded)
      /\ SessionIds' = SessionIds /\ Heaps' = Heaps /\ Calls' = Calls /\ Fetches' = Fetches
  BY <1>1, ReplaceDoc DEF Navigate
<1>3. calls' = {} /\ pending' = FALSE /\ UNCHANGED <<cookie, owner, counters, history>>
  BY DEF Navigate
<1>. QED
  <2>1. TypeOK'
    BY <1>2, <1>3 DEF DocInv, TypeOK, counters, history
  <2>2. Numbered'
    BY <1>2, <1>3, CallNumbers DEF DocInv, Numbered, counters
  <2>3. OnlyBootstrap' /\ LoginNames'
    BY <1>2, <1>3 DEF OnlyBootstrap, LoginNames, LoginKinds
  <2>. QED
    BY <2>1, <2>2, <2>3 DEF DocInv

LEMMA OpenDoc == DocInv /\ Open => DocInv'
<1>. SUFFICES ASSUME DocInv, Open PROVE DocInv'
  OBVIOUS
<1>1. Fresh(FALSE) \in Heaps /\ Fresh(FALSE).promise = 0 /\ ~Fresh(FALSE).loaded
        /\ Fresh(FALSE).shown = None
  BY FreshType DEF Fresh
<1>2. /\ heap' \in Heaps /\ ~heap'.loaded /\ heap'.shown = None /\ heap'.promise = 0
      /\ fetch' = {} /\ leaving' = FALSE
      /\ frozen' \in Heaps \cup {None} /\ (frozen' # None => frozen'.promise = 0 /\ frozen'.loaded)
      /\ SessionIds' = SessionIds /\ Heaps' = Heaps /\ Calls' = Calls /\ Fetches' = Fetches
  BY <1>1, ReplaceDoc DEF Open
<1>3. /\ UNCHANGED <<cookie, owner, pending, history>>
      /\ opened' \in 0 .. MaxOpens /\ made' = made + 1 /\ made' \in 1 .. MaxCalls
  BY NoneTypes DEF Open, DocInv, TypeOK
<1>4. PICK c \in Calls : calls' = {c} /\ c.kind = "session" /\ c.id = made' /\ c.via = 0
  <2>1. SessionCall(Fresh(FALSE)) \in Calls
    BY <1>3, SessionCallType, FreshType DEF DocInv
  <2>2. calls' = {SessionCall(Fresh(FALSE))} /\ SessionCall(Fresh(FALSE)).kind = "session"
        /\ SessionCall(Fresh(FALSE)).id = made' /\ SessionCall(Fresh(FALSE)).via = 0
    BY <1>3 DEF Open, SessionCall
  <2>. QED
    BY <2>1, <2>2
<1>5. TypeOK'
  <2>1. made' \in 0 .. MaxCalls /\ calls' \subseteq Calls' /\ (~heap'.loaded => heap'.shown = None)
    BY <1>2, <1>3, <1>4, NoneTypes
  <2>. QED
    BY <1>2, <1>3, <2>1 DEF DocInv, TypeOK, history
<1>6. Numbered'
  <2>1. 0 <= made' /\ made' \in Nat
    BY <1>3, NoneTypes
  <2>. QED
    BY <1>2, <1>3, <1>4, <2>1 DEF Numbered
<1>7. OnlyBootstrap' /\ LoginNames'
  BY <1>2, <1>4 DEF OnlyBootstrap, LoginNames, LoginKinds
<1>. QED
  BY <1>5, <1>6, <1>7 DEF DocInv

\* A document that asks for its session again, of the same service or of a new one.
LEMMA AskAgainDoc ==
    ASSUME DocInv, NEW h \in Heaps, AskAgain(h), ~h.loaded, h.shown = None, h.promise \in {0, heap.promise}
    PROVE  DocInv'
<1>. USE DEF DocInv
<1>1. /\ heap' = h /\ ~heap.loaded /\ made' = made + 1 /\ made + 1 \in 1 .. MaxCalls
      /\ calls' = Abandoned(calls) \cup {SessionCall(h)}
      /\ UNCHANGED <<cookie, owner, leaving, pending, fetch, frozen, opened, history>>
  BY NoneTypes DEF AskAgain, TypeOK
<1>2. /\ SessionCall(h) \in Calls /\ SessionCall(h).kind = "session" /\ SessionCall(h).via = 0
      /\ SessionCall(h).id = made + 1
  BY <1>1, SessionCallType
<1>3. \A d \in Abandoned(calls) : d \in Calls /\ d.kind = "read" /\ d.id <= made /\ d.via <= made
  <2>1. ASSUME NEW c \in calls
        PROVE  /\ AbandonedCall(c) \in Calls /\ AbandonedCall(c).kind = "read"
               /\ AbandonedCall(c).id <= made /\ AbandonedCall(c).via <= made
    <3>1. c \in Calls /\ c.kind \in {"session", "read"} /\ c.id <= made /\ c.via <= made
      BY <1>1 DEF OnlyBootstrap, TypeOK, Numbered
    <3>. QED
      BY <3>1 DEF AbandonedCall, Calls, Kinds
  <2>. QED
    BY <2>1 DEF Abandoned
<1>4. SessionIds' = SessionIds /\ Calls' = Calls /\ Heaps' = Heaps /\ Fetches' = Fetches
  BY <1>1 DEF SessionIds, Calls, Heaps, Tokens, Fetches
<1>5. made \in Nat /\ made' \in 0 .. MaxCalls /\ heap.promise \in Nat
  BY <1>1, NoneTypes, CallNumbers DEF TypeOK
<1>6. TypeOK'
  BY <1>1, <1>2, <1>3, <1>4, <1>5 DEF TypeOK, history
<1>7. Numbered'
  <2>1. \A d \in calls' : d.id <= made' /\ d.via <= made'
    <3>1. \A d \in Abandoned(calls) : d.id \in Nat /\ d.via \in Nat
      BY <1>3, NoneTypes DEF Calls
    <3>. QED
      BY <1>1, <1>2, <1>3, <1>5, <3>1
  <2>. QED
    BY <1>1, <1>5, <2>1, CallNumbers DEF Numbered
<1>8. OnlyBootstrap' /\ LoginNames'
  BY <1>1, <1>2, <1>3 DEF OnlyBootstrap, LoginNames, LoginKinds
<1>. QED
  BY <1>6, <1>7, <1>8

\* The heap after a change of language.
LEMMA NewService ==
    ASSUME TypeOK, heap.service < MaxChanges
    PROVE  LET h == [heap EXCEPT !.service = @ + 1, !.token = None, !.promise = 0] IN
           /\ h \in Heaps /\ h.loaded = heap.loaded /\ h.shown = heap.shown /\ h.promise = 0
           /\ h.handled = heap.handled /\ h.marked = heap.marked
<1> DEFINE h == [heap EXCEPT !.service = heap.service + 1, !.token = None, !.promise = 0]
<1>1. heap \in Heaps /\ heap.service + 1 \in Services /\ None \in Tokens /\ 0 \in 0 .. MaxCalls
  BY NoneTypes DEF TypeOK, Heaps, Services, Tokens
<1>2. h \in Heaps
  BY <1>1 DEF Heaps
<1>. QED
  BY <1>1, <1>2 DEF Heaps

LEMMA BrowserDoc == DocInv /\ (AskAgain(heap) \/ ChangeLanguage \/ Back \/ Expire) => DocInv'
<1>. SUFFICES ASSUME DocInv, AskAgain(heap) \/ ChangeLanguage \/ Back \/ Expire PROVE DocInv'
  OBVIOUS
<1>. USE DEF DocInv
<1>1. SessionIds' = SessionIds /\ Calls' = Calls /\ Heaps' = Heaps /\ Fetches' = Fetches
  BY DEF SessionIds, Calls, Heaps, Tokens, Fetches, AskAgain, ChangeLanguage, Back, Expire
<1>2. ~heap.loaded => heap.shown = None
  BY DEF TypeOK
<1>3. CASE AskAgain(heap)
  <2>1. ~heap.loaded /\ heap \in Heaps
    BY <1>3 DEF AskAgain, TypeOK
  <2>. QED
    BY <1>2, <1>3, <2>1, AskAgainDoc
<1>4. CASE ChangeLanguage
  <2> DEFINE h == [heap EXCEPT !.service = @ + 1, !.token = None, !.promise = 0]
  <2>1. h \in Heaps /\ h.loaded = heap.loaded /\ h.shown = heap.shown /\ h.promise = 0
    BY <1>4, NewService DEF ChangeLanguage
  <2>2. \/ AskAgain(h)
        \/ /\ heap.loaded /\ heap' = h /\ made < MaxCalls /\ made' = made + 1
           /\ UNCHANGED <<cookie, owner, leaving, pending, calls, fetch, frozen, opened, history>>
    BY <1>4 DEF ChangeLanguage
  <2> HIDE DEF h
  <2>3. CASE AskAgain(h)
    BY <1>2, <2>1, <2>3, AskAgainDoc DEF AskAgain
  <2>4. CASE ~AskAgain(h)
    <3>1. TypeOK'
      BY <1>1, <2>1, <2>2, <2>4, NoneTypes DEF TypeOK, history
    <3>2. Numbered'
      BY <2>1, <2>2, <2>4, CallNumbers, NoneTypes DEF Numbered
    <3>. QED
      BY <2>1, <2>2, <2>4, <3>1, <3>2 DEF OnlyBootstrap, LoginNames
  <2>. QED
    BY <2>3, <2>4
<1>5. CASE Back
  <2>1. /\ frozen # None /\ heap' = [frozen EXCEPT !.marked = FALSE] /\ frozen' = None /\ leaving' = FALSE
        /\ calls' = {} /\ fetch' = {} /\ thawed' = TRUE /\ opened' \in 0 .. MaxOpens
        /\ UNCHANGED <<cookie, owner, pending, made, ended, revived, stuck>>
    BY <1>5, NoneTypes DEF Back, TypeOK
  <2>2. heap' \in Heaps /\ heap'.loaded /\ heap'.promise = 0
    BY <2>1 DEF TypeOK, OnlyBootstrap, Numbered, Heaps
  <2>3. TypeOK'
    BY <2>1, <2>2, <1>1 DEF TypeOK
  <2>. QED
    BY <2>1, <2>2, <2>3, CallNumbers DEF Numbered, OnlyBootstrap, LoginNames
<1>6. CASE Expire
  <2>1. cookie' = 0 /\ UNCHANGED <<owner, page, calls, fetch, frozen, counters, history>>
    BY <1>6 DEF Expire
  <2>2. 0 \in SessionIds
    BY DEF TypeOK, SessionIds
  <2>3. TypeOK'
    BY <2>1, <2>2, <1>1 DEF TypeOK, counters, page, history
  <2>. QED
    BY <2>1, <2>3 DEF Numbered, OnlyBootstrap, LoginNames, counters, page
<1>. QED
  BY <1>3, <1>4, <1>5, <1>6
------------------------------------------------------------------------------
(* Steps within a document.  Every call goes or becomes something that     *)
(* does no more than it would have done: m says what becomes of each.      *)

Becomes(c, d) ==
    /\ d \in Calls' /\ d.id = c.id /\ d.via \in {0, c.via} /\ d.user = c.user
    /\ \/ d.kind = c.kind
       \/ c.kind = "session" /\ d.kind = "read"
       \/ c.kind = "login" /\ d.kind = "check"

Changes(m) ==
    /\ Grows /\ CookieMoves /\ UNCHANGED <<frozen, counters>>
    /\ {leaving', pending', ended', revived', thawed', stuck'} \subseteq BOOLEAN
    /\ fetch' \subseteq fetch
    /\ calls' \subseteq {m[c] : c \in calls} /\ \A c \in calls : Becomes(c, m[c])
    /\ heap' \in Heaps /\ heap'.promise \in {0, heap.promise}
    /\ heap.loaded => heap'.loaded
    /\ heap'.loaded => \A d \in calls' : d.kind # "session"
    /\ ~heap'.loaded => heap'.shown = None

LEMMA ChangesDoc ==
    ASSUME DocInv, NEW m, Changes(m)
    PROVE  DocInv'
<1>. USE DEF DocInv
<1>1. calls' \subseteq Calls' /\ fetch' \subseteq Fetches' /\ heap' \in Heaps' /\ frozen' \in Heaps' \cup {None}
  BY DEF Changes, Becomes, Grows, TypeOK
<1>2. TypeOK'
  BY <1>1 DEF TypeOK, Changes, Grows, CookieMoves, counters
<1>3. Numbered'
  <2>1. UNCHANGED made /\ made \in Nat /\ heap'.promise <= made
    BY CallNumbers DEF Changes, counters, Numbered
  <2>2. \A c \in calls : m[c].id <= made /\ m[c].via <= made
    BY CallNumbers DEF Changes, Becomes, Numbered
  <2>. QED
    BY <2>1, <2>2 DEF Changes, Numbered
<1>4. OnlyBootstrap'
  <2>1. ASSUME ~heap'.loaded
        PROVE  /\ fetch' = {} /\ \A d \in calls' : d.kind \in {"session", "read"}
               /\ \A d, e \in calls' : d.kind = "session" /\ e.kind = "session" => d = e
    <3>1. ~heap.loaded
      BY <2>1 DEF Changes
    <3>2. fetch' = {} /\ \A c \in calls : c.kind \in {"session", "read"} /\ m[c].kind \in {"session", "read"}
      BY <3>1 DEF Changes, OnlyBootstrap, Becomes
    <3>3. \A c \in calls : m[c].kind = "session" => c.kind = "session"
      BY DEF Changes, Becomes
    <3>. QED
      BY <3>1, <3>2, <3>3 DEF Changes, OnlyBootstrap
  <2>. QED
    BY <2>1 DEF Changes, OnlyBootstrap
<1>5. LoginNames'
  <2>1. \A c \in calls : m[c].kind \in LoginKinds => c.kind \in LoginKinds /\ m[c].user = c.user
    BY DEF Changes, Becomes, LoginKinds
  <2>. QED
    BY <2>1 DEF Changes, LoginNames
<1>. QED
  BY <1>2, <1>3, <1>4, <1>5

\* What a step does to the page: a user appears only when no login is pending.
Quiet ==
    /\ UNCHANGED thawed /\ (stuck => stuck') /\ (leaving => leaving')
    /\ heap'.handled = heap.handled \/ leaving'
    /\ heap'.marked = heap.marked \/ leaving' \/ stuck'
    /\ \/ heap'.shown \in {None, heap.shown}
       \/ ~ended' /\ \A d \in calls' : d.kind \notin LoginKinds \cup {"idle"}

LEMMA QuietPage ==
    ASSUME PageInv, NEW m, Changes(m), Quiet
    PROVE  LoginForm' /\ HandledLeaves'
<1>1. \A c \in calls : /\ m[c].kind \in LoginKinds => c.kind \in LoginKinds
                       /\ m[c].kind = "idle" => c.kind = "idle"
  BY DEF Changes, Becomes, LoginKinds
<1>2. LoginForm'
  <2>1. \A d, e \in calls' : d.kind \in LoginKinds /\ e.kind \in LoginKinds => d = e
    BY <1>1 DEF PageInv, LoginForm, Changes
  <2>2. ASSUME NEW d \in calls', d.kind \in LoginKinds
        PROVE  heap'.shown = None /\ \A e \in calls' : e.kind # "idle"
    <3>1. PICK c \in calls : c.kind \in LoginKinds
      BY <1>1, <2>2 DEF Changes
    <3>2. heap.shown = None /\ \A e \in calls : e.kind # "idle"
      BY <3>1 DEF PageInv, LoginForm
    <3>. QED
      BY <1>1, <2>2, <3>2 DEF Changes, Quiet
  <2>3. ASSUME NEW d \in calls', d.kind = "idle"
        PROVE  heap'.shown = None /\ leaving'
    <3>1. PICK c \in calls : c.kind = "idle"
      BY <1>1, <2>3 DEF Changes
    <3>2. heap.shown = None /\ leaving
      BY <3>1 DEF PageInv, LoginForm
    <3>. QED
      BY <2>3, <3>2 DEF Quiet
  <2>. QED
    BY <2>1, <2>2, <2>3 DEF LoginForm
<1>3. HandledLeaves'
  BY DEF PageInv, HandledLeaves, Quiet
<1>. QED
  BY <1>2, <1>3

\* A step that leaves the end of the session as it is, or ends with a session.
Lasting(m) ==
    ended' => /\ ended /\ cookie' = 0
              /\ \A c \in calls : /\ m[c].kind = "check" => c.kind = "check"
                                  /\ m[c].kind = "session" => m[c].cookie = c.cookie

LEMMA LastingPage ==
    ASSUME PageInv, NEW m, Changes(m), Quiet, Lasting(m)
    PROVE  PageInv'
<1>1. LoginForm' /\ HandledLeaves'
  BY QuietPage
<1>2. EndedForGood'
  <2>1. \A c \in calls : m[c].kind = "session" => c.kind = "session"
    BY DEF Changes, Becomes
  <2>2. ASSUME ended'
        PROVE  ~Completing' /\ \A d \in calls' : d.kind = "session" => d.cookie = 0
    BY <2>1, <2>2 DEF PageInv, EndedForGood, Lasting, Changes, Completing
  <2>. QED
    BY <2>2 DEF EndedForGood, Lasting
<1>3. EndedStaysEnded'
  BY DEF PageInv, EndedStaysEnded, Lasting, Quiet
<1>. QED
  BY <1>1, <1>2, <1>3 DEF PageInv

\* The cookie remains of one user, or goes.
SameUser ==
    /\ UNCHANGED thawed
    /\ ~revived' => /\ ~revived
                    /\ cookie' # 0 => cookie # 0 /\ owner'[cookie'] = owner[cookie]

\* No call is sent, or sent again.
SameCalls(m) ==
    \A c \in calls : /\ m[c].cookie = c.cookie /\ m[c].token = c.token /\ m[c].via = c.via
                     /\ m[c].kind = "check" => c.kind = "check"

LEMMA SessionFits ==
    ASSUME DocInv, UserInv, NEW m, Changes(m), SameUser,
           \A c \in calls : /\ m[c].kind = "session" => m[c].cookie = c.cookie
                            /\ m[c].kind = "check" => c.kind = "check"
    PROVE  BootstrapAskedNow' /\ CheckOfCookie'
<1>1. \A c \in calls : /\ m[c].kind = "session" => c.kind = "session"
                       /\ m[c].user = c.user
  BY DEF Changes, Becomes
<1>2. \A c \in calls : c.cookie \in SessionIds /\ (c.cookie # 0 => owner'[c.cookie] = owner[c.cookie])
  BY CallNumbers DEF DocInv, Changes, Grows, SessionIds
<1>3. BootstrapAskedNow'
  <2>1. SUFFICES ASSUME ~revived', cookie' # 0, NEW c \in calls, m[c].kind = "session"
                 PROVE  m[c].cookie # 0 /\ owner'[m[c].cookie] = owner'[cookie']
    BY DEF BootstrapAskedNow, Changes
  <2>2. ~revived /\ cookie # 0 /\ owner'[cookie'] = owner[cookie]
    BY <2>1 DEF SameUser
  <2>3. c.cookie # 0 /\ owner[c.cookie] = owner[cookie] /\ m[c].cookie = c.cookie
    BY <2>1, <2>2, <1>1 DEF UserInv, BootstrapAskedNow
  <2>. QED
    BY <2>2, <2>3, <1>2
<1>4. CheckOfCookie'
  <2>1. SUFFICES ASSUME ~revived', cookie' # 0, NEW c \in calls, m[c].kind = "check"
                 PROVE  owner'[cookie'] = m[c].user
    BY DEF CheckOfCookie, Changes
  <2>. QED
    BY <2>1, <1>1 DEF UserInv, CheckOfCookie, SameUser
<1>. QED
  BY <1>3, <1>4

LEMMA SameWrites ==
    ASSUME DocInv, UserInv, NEW m, Changes(m), SameCalls(m), UNCHANGED thawed, ~revived' => ~revived
    PROVE  WaitsWithCookie' /\ WriteOfUser'
<1>1. WaitsWithCookie'
  <2>1. \A f \in fetch : f.cookie = cookie' /\ cookie' # 0 => cookie' = cookie
    BY CallNumbers DEF DocInv, Changes, CookieMoves, SessionIds, Grows
  <2>2. SUFFICES ASSUME NEW c \in calls, NEW f \in fetch, m[c].via = f.id, f.cookie = cookie', cookie' # 0
                 PROVE  m[c].cookie = cookie'
    BY DEF WaitsWithCookie, Changes
  <2>3. c.via = f.id /\ m[c].cookie = c.cookie
    BY <2>2 DEF SameCalls
  <2>. QED
    BY <2>1, <2>2, <2>3 DEF UserInv, WaitsWithCookie
<1>2. WriteOfUser'
  <2>1. SUFFICES ASSUME ~revived', ~thawed', NEW c \in calls, m[c].kind = "write", m[c].cookie # 0,
                        m[c].via # 0 \/ m[c].token = m[c].cookie
                 PROVE  owner'[m[c].cookie] = m[c].user
    BY DEF WriteOfUser, Changes, Sent
  <2>2. c.kind = "write" /\ m[c].user = c.user
    BY <2>1 DEF Changes, Becomes
  <2>3. m[c].cookie = c.cookie /\ (~Sent(c) \/ c.token = c.cookie)
    BY <2>1 DEF SameCalls, Sent
  <2>4. owner[c.cookie] = c.user
    BY <2>1, <2>2, <2>3 DEF UserInv, WriteOfUser
  <2>5. owner'[c.cookie] = owner[c.cookie]
    BY <2>1, <2>3, CallNumbers DEF DocInv, Changes, Grows, SessionIds
  <2>. QED
    BY <2>2, <2>3, <2>4, <2>5
<1>. QED
  BY <1>1, <1>2

\* Most steps: they show nobody who was not shown, and send nothing.
Mild(m) ==
    /\ Changes(m) /\ Quiet /\ Lasting(m) /\ SameUser /\ SameCalls(m)
    /\ heap'.shown \in {None, heap.shown}

LEMMA MildInv ==
    ASSUME Inv, NEW m, Mild(m)
    PROVE  Inv'
<1>. USE DEF Inv, Mild
<1>1. DocInv'
  BY ChangesDoc
<1>2. PageInv'
  BY LastingPage
<1>3. BootstrapAskedNow' /\ CheckOfCookie' /\ WaitsWithCookie' /\ WriteOfUser'
  <2>1. \A c \in calls : /\ m[c].kind = "session" => m[c].cookie = c.cookie
                         /\ m[c].kind = "check" => c.kind = "check"
    BY DEF SameCalls
  <2>. QED
    BY <2>1, SessionFits, SameWrites DEF SameUser
<1>4. ShownIsCookie'
  BY DEF UserInv, ShownIsCookie, SameUser
<1>. QED
  BY <1>1, <1>2, <1>3, <1>4 DEF UserInv
------------------------------------------------------------------------------
(* Answers.                                                                *)

\* g is h but for the token, and for whom it shows.
Similar(h, g) ==
    /\ g \in Heaps /\ g.promise \in {0, h.promise} /\ (h.loaded => g.loaded)
    /\ g.handled = h.handled /\ g.marked = h.marked

Signs == {"session", "check", "logout"}

LEMMA HeapEffect ==
    ASSUME NEW h \in Heaps, NEW u \in Users \cup {None}, NEW c
    PROVE  /\ Similar(h, SignedIn(h, u)) /\ SignedIn(h, u).loaded /\ SignedIn(h, u).shown = u
           /\ Similar(h, ClearToken(c, h)) /\ ClearToken(c, h).shown = h.shown
           /\ ClearToken(c, h).loaded = h.loaded
           /\ Similar(h, WithoutSession(c, h)) /\ WithoutSession(c, h).shown \in {None, h.shown}
           /\ c.kind \in Signs => WithoutSession(c, h).loaded /\ WithoutSession(c, h).shown = None
           /\ c.kind \notin Signs => WithoutSession(c, h) = h
<1>1. ASSUME NEW v \in Users \cup {None}
      PROVE  Similar(h, SignedIn(h, v)) /\ SignedIn(h, v).loaded /\ SignedIn(h, v).shown = v
  BY DEF Similar, SignedIn, Heaps
<1>2. None \in Tokens /\ 0 \in 0 .. MaxCalls /\ None \in Users \cup {None}
  BY NoneTypes DEF Tokens
<1>3. /\ Similar(h, ClearToken(c, h)) /\ ClearToken(c, h).shown = h.shown
      /\ ClearToken(c, h).loaded = h.loaded
  BY <1>2 DEF Similar, ClearToken, Heaps
<1>4. Similar(h, h)
  BY DEF Similar
<1>5. WithoutSession(c, h) = IF c.kind \in Signs THEN SignedIn(h, None) ELSE h
  BY DEF WithoutSession, Signs
<1>. QED
  BY <1>1, <1>2, <1>3, <1>4, <1>5

\* What the page does after a logout: it forgets the token, and perhaps the user.
LEMMA LogoutEffect ==
    ASSUME NEW h \in Heaps, NEW c
    PROVE  LET g == WithoutSession(c, ClearToken(c, h)) IN
           /\ Similar(h, g) /\ g.shown \in {None, h.shown} /\ (c.kind = "logout" => g.shown = None)
<1>1. None \in Users \cup {None}
  OBVIOUS
<1>2. Similar(h, ClearToken(c, h)) /\ ClearToken(c, h).shown = h.shown
  BY <1>1, HeapEffect
<1>3. ClearToken(c, h) \in Heaps
  BY <1>2 DEF Similar
<1>4. /\ Similar(ClearToken(c, h), WithoutSession(c, ClearToken(c, h)))
      /\ WithoutSession(c, ClearToken(c, h)).shown \in {None, ClearToken(c, h).shown}
      /\ c.kind \in Signs => WithoutSession(c, ClearToken(c, h)).shown = None
  BY <1>1, <1>3, HeapEffect
<1>. QED
  BY <1>2, <1>4 DEF Similar, Signs

\* A call that has been answered goes, and the others are as they were.
Gone == [d \in calls |-> d]

LEMMA GoneCalls ==
    ASSUME DocInv, Grows, NEW c \in calls, Done(c)
    PROVE  /\ calls' \subseteq {Gone[d] : d \in calls} /\ \A d \in calls : Becomes(d, Gone[d])
           /\ SameCalls(Gone)
           /\ \A d \in calls : d.kind = "session" /\ c.kind = "session" => d \notin calls'
<1>1. calls' = calls \ {c} /\ \A d \in calls : Gone[d] = d /\ d \in Calls'
  BY DEF Done, Gone, Grows, DocInv, TypeOK
<1>2. \A d \in calls : Becomes(d, Gone[d])
  BY <1>1, CallNumbers DEF Becomes, DocInv
<1>3. \A d \in calls : d.kind = "session" /\ c.kind = "session" => d = c
  BY DEF DocInv, OnlyBootstrap
<1>. QED
  BY <1>1, <1>2, <1>3 DEF SameCalls

\* What AuthSessionBootstrap abandons becomes a request like another.
Left == [d \in calls |-> AbandonedCall(d)]

LEMMA LeftCalls ==
    ASSUME DocInv, Grows, calls' \subseteq Abandoned(calls)
    PROVE  /\ calls' \subseteq {Left[d] : d \in calls} /\ \A d \in calls : Becomes(d, Left[d])
           /\ SameCalls(Left)
           /\ \A d \in calls' : d.kind # "session"
<1>1. calls' \subseteq {Left[d] : d \in calls}
  BY DEF Abandoned, Left
<1>2. ASSUME NEW d \in calls
      PROVE  /\ Becomes(d, Left[d]) /\ Left[d].kind # "session"
             /\ Left[d].cookie = d.cookie /\ Left[d].token = d.token /\ Left[d].via = d.via
             /\ Left[d].kind = "check" => d.kind = "check"
  <2>1. d \in Calls' /\ Left[d] = AbandonedCall(d)
    BY DEF Grows, DocInv, TypeOK, Left
  <2>. QED
    BY <2>1 DEF Becomes, AbandonedCall, Calls, Kinds
<1>. QED
  BY <1>1, <1>2 DEF SameCalls

LEMMA LeftMost == \A c \in calls : Abandoned(calls \ {c}) \subseteq Abandoned(calls)
BY DEF Abandoned

LEMMA TurnBackInv == Inv /\ TurnBack => Inv'
<1>. SUFFICES ASSUME Inv, TurnBack PROVE Inv'
  OBVIOUS
<1>1. /\ UNCHANGED <<cookie, owner, leaving, pending, fetch, frozen, counters, history>>
      /\ calls' = Abandoned(calls) /\ heap' = [heap EXCEPT !.loaded = TRUE] /\ heap \in Heaps
      /\ ~heap.loaded
  BY DEF TurnBack, Inv, DocInv, TypeOK
<1>2. Similar(heap, heap') /\ heap'.shown = heap.shown /\ heap'.loaded
  BY <1>1 DEF Similar, Heaps
<1>3. Grows /\ CookieMoves
  BY <1>1, KeepOwner DEF CookieMoves, SessionIds, Inv, DocInv, TypeOK
<1>4. /\ calls' \subseteq {Left[d] : d \in calls} /\ (\A d \in calls : Becomes(d, Left[d]))
      /\ SameCalls(Left) /\ \A d \in calls' : d.kind # "session"
  BY <1>1, <1>3, LeftCalls DEF Inv
<1>5. Changes(Left)
  BY <1>1, <1>2, <1>3, <1>4 DEF Changes, Similar, history, Inv, DocInv, TypeOK
<1>6. Quiet /\ Lasting(Left) /\ SameUser
  <2>1. ended => cookie = 0
    BY DEF Inv, PageInv, EndedForGood
  <2>2. Quiet /\ SameUser
    BY <1>1, <1>2 DEF Quiet, Similar, history, SameUser
  <2>3. Lasting(Left)
    BY <1>1, <1>4, <2>1 DEF Lasting, SameCalls, history
  <2>. QED
    BY <2>2, <2>3
<1>. QED
  BY <1>2, <1>4, <1>5, <1>6, MildInv DEF Mild

LEMMA NoticedInv == Inv /\ Noticed => Inv'
<1>. SUFFICES ASSUME Inv, Noticed PROVE Inv'
  OBVIOUS
<1>1. /\ UNCHANGED <<cookie, owner, calls, fetch, frozen, counters, history>> /\ heap \in Heaps
      /\ leaving' \in BOOLEAN /\ pending' \in BOOLEAN /\ ~leaving
  BY DEF Noticed, Inv, DocInv, TypeOK
<1>2. Similar(heap, heap') /\ heap'.shown \in {None, heap.shown} /\ heap'.loaded = heap.loaded
  <2>1. CASE heap.shown # None /\ heap' = SignedIn(heap, None)
    <3>1. heap.loaded /\ None \in Users \cup {None}
      BY <2>1 DEF Inv, DocInv, TypeOK
    <3>. QED
      BY <1>1, <2>1, <3>1, HeapEffect
  <2>2. CASE UNCHANGED heap
    BY <1>1, <2>2 DEF Similar
  <2>. QED
    BY <2>1, <2>2 DEF Noticed
<1>3. Grows /\ CookieMoves
  BY <1>1, KeepOwner DEF CookieMoves, SessionIds, Inv, DocInv, TypeOK
<1>4. /\ calls' \subseteq {Gone[d] : d \in calls} /\ (\A d \in calls : Becomes(d, Gone[d]))
      /\ SameCalls(Gone)
  <2>1. \A d \in calls : Gone[d] = d /\ d \in Calls'
    BY <1>3 DEF Gone, Grows, Inv, DocInv, TypeOK
  <2>. QED
    BY <1>1, <2>1 DEF Becomes, SameCalls
<1>5. Changes(Gone)
  BY <1>1, <1>2, <1>3, <1>4 DEF Changes, Similar, history, Inv, DocInv, TypeOK, OnlyBootstrap
<1>6. Quiet /\ Lasting(Gone) /\ SameUser
  <2>1. ended => cookie = 0
    BY DEF Inv, PageInv, EndedForGood
  <2>2. Quiet /\ SameUser
    BY <1>1, <1>2 DEF Quiet, Similar, history, SameUser
  <2>3. Lasting(Gone)
    BY <1>1, <1>4, <2>1 DEF Lasting, SameCalls, history
  <2>. QED
    BY <2>2, <2>3
<1>. QED
  BY <1>2, <1>4, <1>5, <1>6, MildInv DEF Mild

\* A call that fails, in the plainest way.
LEMMA WithoutInv ==
    ASSUME Inv, NEW c \in calls, Done(c), Grows, CookieMoves, SameUser,
           UNCHANGED <<fetch, frozen, counters>>, (leaving => leaving'), (stuck => stuck'),
           {leaving', pending', ended', revived', thawed', stuck'} \subseteq BOOLEAN,
           ended' => ended /\ cookie' = 0,
           NEW h, Similar(heap, h), h.shown \in {None, heap.shown},
           heap.loaded => h.loaded, c.kind = "session" => h.loaded, h.loaded => heap.loaded \/ c.kind = "session",
           \/ heap' = h
           \/ heap' = [h EXCEPT !.marked = TRUE] /\ (leaving' \/ stuck')
    PROVE  Inv'
<1>1. /\ heap' \in Heaps /\ heap'.promise \in {0, heap.promise} /\ heap'.handled = heap.handled
      /\ heap'.marked = heap.marked \/ leaving' \/ stuck'
      /\ heap'.shown \in {None, heap.shown} /\ heap'.loaded = h.loaded
  BY DEF Similar, Heaps
<1>2. /\ calls' \subseteq {Gone[d] : d \in calls} /\ (\A d \in calls : Becomes(d, Gone[d]))
      /\ SameCalls(Gone)
      /\ \A d \in calls : d.kind = "session" /\ c.kind = "session" => d \notin calls'
  BY GoneCalls DEF Inv
<1>3. heap'.loaded => \A d \in calls' : d.kind # "session"
  BY <1>1, <1>2 DEF Inv, DocInv, OnlyBootstrap, Done
<1>4. ~heap'.loaded => heap'.shown = None
  BY <1>1 DEF Inv, DocInv, TypeOK
<1>5. Changes(Gone)
  BY <1>1, <1>2, <1>3, <1>4 DEF Changes
<1>6. Quiet /\ Lasting(Gone)
  BY <1>1, <1>2 DEF Quiet, Lasting, SameUser, SameCalls
<1>. QED
  BY <1>1, <1>2, <1>5, <1>6, MildInv DEF Mild

\* What WithoutInv asks of the heap after a call that failed, or a logout.
Plain(c, h) ==
    /\ Similar(heap, h) /\ h.shown \in {None, heap.shown}
    /\ (heap.loaded => h.loaded) /\ (c.kind = "session" => h.loaded)
    /\ h.loaded => heap.loaded \/ c.kind = "session"

LEMMA PlainHeaps ==
    ASSUME DocInv, NEW c \in calls
    PROVE  /\ Plain(c, WithoutSession(c, heap))
           /\ c.kind \in {"logout", "idle"} =>
                 /\ Plain(c, WithoutSession(c, ClearToken(c, heap)))
                 /\ (c.kind = "logout" => WithoutSession(c, ClearToken(c, heap)).shown = None)
           /\ heap \in Heaps
           /\ c.kind \notin {"session", "read"} => heap.loaded
<1>1. heap \in Heaps /\ None \in Users \cup {None}
  BY DEF DocInv, TypeOK
<1>2. c.kind \notin {"session", "read"} => heap.loaded
  BY DEF DocInv, OnlyBootstrap
<1>3. Plain(c, WithoutSession(c, heap))
  <2>1. CASE c.kind \in Signs
    BY <1>1, <1>2, <2>1, HeapEffect DEF Plain, Similar, Signs
  <2>2. CASE c.kind \notin Signs
    <3>1. WithoutSession(c, heap) = heap
      BY <1>1, <2>2, HeapEffect
    <3>. QED
      BY <1>1, <2>2, <3>1 DEF Plain, Similar, Signs
  <2>. QED
    BY <2>1, <2>2
<1>4. ASSUME c.kind \in {"logout", "idle"}
      PROVE  /\ Plain(c, WithoutSession(c, ClearToken(c, heap)))
             /\ (c.kind = "logout" => WithoutSession(c, ClearToken(c, heap)).shown = None)
  <2>1. heap.loaded /\ c.kind # "session"
    BY <1>2, <1>4
  <2>. QED
    BY <1>1, <2>1, LogoutEffect DEF Plain, Similar
<1>. QED
  BY <1>1, <1>2, <1>3, <1>4

LEMMA UnauthorizedInv == ASSUME Inv, NEW c \in calls, Unauthorized(c) PROVE Inv'
<1>1. /\ heap \in Heaps /\ leaving \in BOOLEAN /\ pending \in BOOLEAN /\ None \in Users \cup {None}
      /\ UNCHANGED <<cookie, owner, fetch, frozen, counters, history>>
      /\ c.by \in Services
  BY DEF Unauthorized, Inv, DocInv, TypeOK, Calls
<1>2. Grows /\ CookieMoves
  BY <1>1, KeepOwner DEF CookieMoves, SessionIds, Inv, DocInv, TypeOK
<1>3. ended => cookie = 0
  BY DEF Inv, PageInv, EndedForGood
<1>4. CASE c.by \notin heap.handled /\ ~heap.marked
  <2>1. /\ heap' = [SignedIn(heap, None) EXCEPT !.handled = @ \cup {c.by}]
        /\ calls' = Abandoned(calls \ {c}) /\ leaving' = TRUE /\ pending' = FALSE
    BY <1>4 DEF Unauthorized
  <2>2. Similar(heap, SignedIn(heap, None)) /\ SignedIn(heap, None).loaded /\ SignedIn(heap, None).shown = None
    BY <1>1, HeapEffect
  <2>3. /\ heap' \in Heaps /\ heap'.promise \in {0, heap.promise} /\ heap'.loaded /\ heap'.shown = None
        /\ heap'.marked = heap.marked
    BY <1>1, <2>1, <2>2 DEF Similar, Heaps
  <2>4. /\ calls' \subseteq {Left[d] : d \in calls} /\ (\A d \in calls : Becomes(d, Left[d]))
        /\ SameCalls(Left) /\ \A d \in calls' : d.kind # "session"
    BY <1>2, <2>1, LeftCalls, LeftMost DEF Inv
  <2>5. Changes(Left)
    BY <1>1, <1>2, <2>1, <2>3, <2>4 DEF Changes, history, Inv, DocInv, TypeOK
  <2>6. Quiet /\ SameUser /\ Lasting(Left)
    BY <1>1, <1>3, <2>1, <2>3, <2>4 DEF Quiet, SameUser, Lasting, SameCalls, history
  <2>. QED
    BY <2>3, <2>4, <2>5, <2>6, MildInv DEF Mild
<1>5. CASE ~(c.by \notin heap.handled /\ ~heap.marked)
  <2>1. heap' = WithoutSession(c, heap) /\ Done(c) /\ UNCHANGED <<leaving, pending>>
    BY <1>5 DEF Unauthorized
  <2>2. Plain(c, WithoutSession(c, heap))
    BY PlainHeaps DEF Inv
  <2>3. {leaving', pending', ended', revived', thawed', stuck'} \subseteq BOOLEAN
    BY <1>1, <2>1 DEF Inv, DocInv, TypeOK, history
  <2>4. SameUser /\ (ended' => ended /\ cookie' = 0) /\ (leaving => leaving') /\ (stuck => stuck')
    BY <1>1, <1>3, <2>1 DEF SameUser, history
  <2>. QED
    BY <1>1, <1>2, <2>1, <2>2, <2>3, <2>4, WithoutInv DEF Plain
<1>. QED
  BY <1>4, <1>5

\* A call in a maintenance window: the cookie goes, or stays as it is.
LEMMA MaintainedInv ==
    ASSUME Inv, NEW c \in calls, NEW mode, Maintained(c, mode)
    PROVE  Inv'
<1> DEFINE h == WithoutSession(c, IF c.kind \in {"logout", "idle"} THEN ClearToken(c, heap) ELSE heap)
<1>1. /\ Done(c) /\ UNCHANGED <<owner, fetch, frozen, counters, ended, revived, thawed>>
      /\ cookie' \in {0, cookie} /\ heap' = [h EXCEPT !.marked = TRUE]
      /\ leaving' = (leaving \/ mode = "active" \/ ~pending)
      /\ pending' = (mode = "unavailable" /\ c.kind # "logout")
      /\ stuck' = (stuck \/ ~leaving')
  BY DEF Maintained, Leaves
<1>2. Grows /\ CookieMoves
  BY <1>1, KeepOwner DEF CookieMoves, SessionIds, Inv, DocInv, TypeOK
<1>3. Plain(c, h)
  BY PlainHeaps DEF Inv
<1> HIDE DEF h
<1>4. {leaving', pending', ended', revived', thawed', stuck'} \subseteq BOOLEAN
  BY <1>1 DEF Inv, DocInv, TypeOK
<1>5. SameUser /\ (ended' => ended /\ cookie' = 0) /\ (leaving => leaving') /\ (stuck => stuck')
  BY <1>1 DEF SameUser, Inv, PageInv, EndedForGood
<1>6. leaving' \/ stuck'
  BY <1>1
<1>. QED
  BY <1>1, <1>2, <1>3, <1>4, <1>5, <1>6, WithoutInv DEF Plain

\* What a renewal, or none, does to the cookie.
LEMMA RenewSame ==
    ASSUME Inv, NEW s \in SessionIds, NEW renewed, Renew(s, renewed)
    PROVE  /\ Grows /\ CookieMoves /\ SameUser /\ UNCHANGED <<thawed, stuck>>
           /\ {ended', revived', thawed', stuck'} \subseteq BOOLEAN
           /\ ended' => ended /\ cookie' = 0
<1>1. /\ owner \in Seq(Users) /\ cookie \in SessionIds /\ ended \in BOOLEAN /\ revived \in BOOLEAN
      /\ thawed \in BOOLEAN /\ stuck \in BOOLEAN
  BY DEF Inv, DocInv, TypeOK
<1>2. ended => cookie = 0
  BY DEF Inv, PageInv, EndedForGood
<1>3. /\ Grows /\ CookieMoves /\ UNCHANGED <<thawed, stuck>>
      /\ ended' \in BOOLEAN /\ revived' \in BOOLEAN
      /\ ended' => ended /\ UNCHANGED <<cookie, owner>>
      /\ ~revived' => /\ ~revived /\ (cookie' # 0 <=> cookie # 0)
                      /\ cookie # 0 => owner'[cookie'] = owner[cookie]
  BY <1>1, RenewEffect
<1>. QED
  BY <1>1, <1>2, <1>3 DEF SameUser

\* An answer that fails a call, or none: Refused, and Lost, and most of Answered.
LEMMA FailedInv ==
    ASSUME Inv, NEW c \in calls, NEW renewed \in BOOLEAN,
           \/ Refused(c, renewed) \/ Lost(c, renewed)
           \/ Answered(c, renewed) /\ c.kind \notin {"session", "check"}
    PROVE  Inv'
<1>1. /\ Sent(c) /\ Done(c) /\ Renew(c.cookie, renewed) /\ pending' \in BOOLEAN
      /\ UNCHANGED <<leaving, fetch, frozen, counters>> /\ leaving \in BOOLEAN
  BY DEF Refused, Lost, Answered, Inv, DocInv, TypeOK
<1>2. c.cookie \in SessionIds
  BY CallNumbers DEF Inv, DocInv
<1>3. /\ Grows /\ CookieMoves /\ SameUser /\ UNCHANGED <<thawed, stuck>>
      /\ {ended', revived', thawed', stuck'} \subseteq BOOLEAN
      /\ ended' => ended /\ cookie' = 0
  BY <1>1, <1>2, RenewSame
<1>4. Plain(c, heap')
  <2>1. /\ Plain(c, WithoutSession(c, heap)) /\ heap \in Heaps
        /\ c.kind \in {"logout", "idle"} => Plain(c, WithoutSession(c, ClearToken(c, heap)))
        /\ c.kind \notin {"session", "read"} => heap.loaded
    BY PlainHeaps DEF Inv
  <2>2. c.kind # "session" => Plain(c, heap)
    BY <2>1 DEF Plain, Similar
  <2>3. CASE Refused(c, renewed)
    BY <2>1, <2>2, <2>3 DEF Refused, Safe
  <2>4. CASE Lost(c, renewed)
    BY <2>1, <2>4 DEF Lost
  <2>5. CASE Answered(c, renewed) /\ c.kind \notin {"session", "check"}
    BY <2>2, <2>5 DEF Answered
  <2>. QED
    BY <2>3, <2>4, <2>5
<1>. QED
  BY <1>1, <1>3, <1>4, WithoutInv DEF Plain

\* The answer shows the user of the session, or of the login that is complete.
LEMMA ShownInv ==
    ASSUME Inv, NEW c \in calls, NEW renewed \in BOOLEAN, Answered(c, renewed),
           c.kind \in {"session", "check"}
    PROVE  Inv'
<1> DEFINE user == IF c.kind = "session" THEN owner[c.cookie] ELSE c.user
<1>1. /\ Sent(c) /\ Done(c) /\ Renew(c.cookie, renewed) /\ pending' \in BOOLEAN /\ c.cookie # 0
      /\ UNCHANGED <<leaving, fetch, frozen, counters>> /\ leaving \in BOOLEAN /\ heap \in Heaps
      /\ heap' = SignedIn(heap, user)
  BY DEF Answered, Inv, DocInv, TypeOK
<1>2. c.cookie \in SessionIds
  BY CallNumbers DEF Inv, DocInv
<1>3. /\ Grows /\ CookieMoves /\ SameUser /\ UNCHANGED <<thawed, stuck>>
      /\ {ended', revived', thawed', stuck'} \subseteq BOOLEAN
      /\ ended' => ended /\ cookie' = 0
  BY <1>1, <1>2, RenewSame
<1>4. user \in Users
  BY <1>1, <1>2, <1>3 DEF Inv, DocInv, LoginNames, LoginKinds, Grows, SessionIds
<1>5. Similar(heap, heap') /\ heap'.loaded /\ heap'.shown = user
  BY <1>1, <1>4, HeapEffect
<1> HIDE DEF user
<1>6. /\ calls' \subseteq {Gone[d] : d \in calls} /\ (\A d \in calls : Becomes(d, Gone[d]))
      /\ SameCalls(Gone) /\ calls' = calls \ {c}
      /\ \A d \in calls : d.kind = "session" /\ c.kind = "session" => d \notin calls'
  BY <1>1, <1>3, GoneCalls DEF Inv, Done
<1>7. \A d \in calls' : d.kind \notin LoginKinds \cup {"idle", "session"}
  <2>1. CASE c.kind = "session"
    <3>1. ~heap.loaded
      BY <2>1 DEF Inv, DocInv, OnlyBootstrap
    <3>. QED
      BY <2>1, <3>1, <1>6 DEF Inv, DocInv, OnlyBootstrap, LoginKinds
  <2>2. CASE c.kind = "check"
    <3>1. heap.loaded
      BY <2>2 DEF Inv, DocInv, OnlyBootstrap
    <3>. QED
      BY <2>2, <3>1, <1>6 DEF Inv, DocInv, OnlyBootstrap, PageInv, LoginForm, LoginKinds
  <2>. QED
    BY <2>1, <2>2
<1>8. ~ended'
  BY <1>1, <1>3 DEF Inv, PageInv, EndedForGood, Completing
<1>9. Changes(Gone)
  BY <1>1, <1>3, <1>5, <1>6, <1>7 DEF Changes, Similar
<1>10. Quiet /\ Lasting(Gone)
  BY <1>1, <1>3, <1>5, <1>7, <1>8 DEF Quiet, Lasting, Similar
<1>11. DocInv' /\ PageInv'
  BY <1>9, <1>10, ChangesDoc, LastingPage DEF Inv
<1>12. BootstrapAskedNow' /\ CheckOfCookie' /\ WaitsWithCookie' /\ WriteOfUser'
  <2>1. \A d \in calls : /\ Gone[d].kind = "session" => Gone[d].cookie = d.cookie
                         /\ Gone[d].kind = "check" => d.kind = "check"
    BY <1>6 DEF SameCalls
  <2>. QED
    BY <2>1, <1>3, <1>6, <1>9, SessionFits, SameWrites DEF Inv, SameUser
<1>13. ShownIsCookie'
  <2>1. SUFFICES ASSUME ~revived', cookie' # 0 PROVE user = owner'[cookie']
    BY <1>5 DEF ShownIsCookie
  <2>2. ~revived /\ cookie # 0 /\ owner'[cookie'] = owner[cookie]
    BY <2>1, <1>3 DEF SameUser
  <2>. QED
    BY <2>2 DEF Inv, UserInv, BootstrapAskedNow, CheckOfCookie, user
<1>. QED
  BY <1>11, <1>12, <1>13 DEF Inv, UserInv

LEMMA LogoutInv ==
    ASSUME Inv, NEW c \in calls, LogoutAnswered(c)
    PROVE  Inv'
<1>1. /\ Done(c) /\ c.kind \in {"logout", "idle"} /\ cookie' = 0 /\ ended' = ~Completing
      /\ heap' = WithoutSession(c, ClearToken(c, heap)) /\ pending' \in BOOLEAN
      /\ UNCHANGED <<owner, leaving, fetch, frozen, counters, revived, thawed, stuck>>
  BY DEF LogoutAnswered, Inv, DocInv, TypeOK
<1>2. /\ Plain(c, heap') /\ heap.loaded /\ (c.kind = "logout" => heap'.shown = None)
  BY <1>1, PlainHeaps DEF Inv
<1>3. Grows /\ CookieMoves /\ SameUser
  BY <1>1, KeepOwner DEF CookieMoves, SessionIds, Inv, DocInv, TypeOK, SameUser
<1>4. /\ calls' \subseteq {Gone[d] : d \in calls} /\ (\A d \in calls : Becomes(d, Gone[d]))
      /\ SameCalls(Gone) /\ calls' = calls \ {c}
  BY <1>1, <1>3, GoneCalls DEF Inv, Done
<1>5. \A d \in calls : d.kind # "session"
  BY <1>2 DEF Inv, DocInv, OnlyBootstrap
<1>6. {leaving', pending', ended', revived', thawed', stuck'} \subseteq BOOLEAN
  BY <1>1 DEF Inv, DocInv, TypeOK
<1>7. Changes(Gone) /\ Quiet
  BY <1>1, <1>2, <1>3, <1>4, <1>5, <1>6 DEF Changes, Quiet, Plain, Similar
<1>8. DocInv' /\ LoginForm' /\ HandledLeaves'
  BY <1>7, ChangesDoc, QuietPage DEF Inv
<1>9. EndedForGood' /\ EndedStaysEnded'
  <2>1. EndedForGood'
    BY <1>1, <1>4, <1>5 DEF EndedForGood, Completing
  <2>2. heap'.shown = None
    BY <1>1, <1>2 DEF Inv, PageInv, LoginForm, Plain
  <2>. QED
    BY <2>1, <2>2 DEF EndedStaysEnded
<1>10. UserInv'
  <2>1. BootstrapAskedNow' /\ CheckOfCookie' /\ ShownIsCookie'
    BY <1>1 DEF BootstrapAskedNow, CheckOfCookie, ShownIsCookie
  <2>2. WaitsWithCookie' /\ WriteOfUser'
    BY <1>1, <1>4, <1>7, SameWrites DEF Inv
  <2>. QED
    BY <2>1, <2>2 DEF UserInv
<1>. QED
  BY <1>8, <1>9, <1>10 DEF Inv, PageInv

\* A login that succeeds: the page shows the user, or checks the templates first.
LEMMA LoginInv ==
    ASSUME Inv, NEW c \in calls, LoginAnswered(c)
    PROVE  Inv'
<1> DEFINE check == [c EXCEPT !.kind = "check", !.token = None, !.cookie = cookie']
           m == [d \in calls |-> IF d = c THEN check ELSE d]
<1>1. /\ Sent(c) /\ c.kind = "login" /\ c.user \in Users /\ owner' = Append(owner, c.user)
      /\ cookie' = Len(owner) + 1 /\ ended' = FALSE /\ c \in Calls
      /\ UNCHANGED <<leaving, fetch, frozen, counters, revived, thawed, stuck>>
  BY DEF LoginAnswered, Inv, DocInv, TypeOK, LoginNames, LoginKinds
<1>2. /\ Grows /\ owner'[cookie'] = c.user /\ Len(owner') = Len(owner) + 1
      /\ cookie' \in SessionIds' /\ cookie' \in Nat /\ CookieMoves
  <2>1. Grows /\ owner'[cookie'] = c.user /\ Len(owner') = Len(owner) + 1
    BY <1>1, AppendOwner DEF Inv, DocInv, TypeOK
  <2>2. cookie' \in SessionIds' /\ cookie' \in Nat
    BY <1>1, <2>1 DEF SessionIds, Grows
  <2>. QED
    BY <1>1, <2>1, <2>2 DEF CookieMoves
<1>3. /\ heap.loaded /\ heap \in Heaps /\ heap.shown = None
      /\ \A d \in calls : /\ d.kind \notin {"session", "check", "idle"}
                          /\ d.kind \in LoginKinds => d = c
  BY <1>1 DEF Inv, DocInv, TypeOK, OnlyBootstrap, PageInv, LoginForm, LoginKinds
<1>4. /\ check \in Calls' /\ check.id = c.id /\ check.via = 0 /\ check.user = c.user
      /\ check.kind = "check" /\ check.cookie = cookie' /\ c.via = 0
  <2>1. c \in Calls' /\ None \in Tokens'
    BY <1>1, <1>2 DEF Grows, Tokens
  <2>. QED
    BY <1>1, <1>2, <2>1 DEF Calls, Kinds, Sent
<1> HIDE DEF check
<1>5. \A d \in calls : Becomes(d, m[d]) /\ m[d] = IF d = c THEN check ELSE d
  BY <1>1, <1>2, <1>4, CallNumbers DEF Becomes, Grows, Inv, DocInv, TypeOK
<1>6. /\ Similar(heap, heap') /\ heap'.loaded /\ pending' \in BOOLEAN
      /\ calls' \subseteq {m[d] : d \in calls}
      /\ IF c.user \in Admins THEN heap'.shown = None /\ check \in calls'
         ELSE heap'.shown = c.user /\ \A d \in calls' : d \in calls /\ d.kind \notin LoginKinds
  <2> HIDE DEF m
  <2>1. Similar(heap, ClearToken(c, heap)) /\ ClearToken(c, heap).shown = None
    <3>1. heap \in Heaps /\ None \in Users \cup {None}
      BY <1>3
    <3>2. Similar(heap, ClearToken(c, heap)) /\ ClearToken(c, heap).shown = heap.shown
      BY <3>1, HeapEffect
    <3>. QED
      BY <1>3, <3>2
  <2>2. CASE c.user \in Admins
    <3>1. heap' = ClearToken(c, heap) /\ UNCHANGED pending /\ calls' = (calls \ {c}) \cup {check}
      BY <2>2 DEF LoginAnswered, check
    <3>. QED
      BY <1>3, <1>5, <2>1, <2>2, <3>1 DEF Similar, Inv, DocInv, TypeOK
  <2>3. CASE c.user \notin Admins
    <3>1. heap' = SignedIn(ClearToken(c, heap), c.user) /\ calls' = calls \ {c} /\ pending' = FALSE
      BY <2>3 DEF LoginAnswered, Done
    <3>2. ClearToken(c, heap) \in Heaps
      BY <2>1 DEF Similar
    <3>3. /\ Similar(ClearToken(c, heap), heap') /\ heap'.shown = c.user /\ heap'.loaded
      BY <1>1, <3>1, <3>2, HeapEffect
    <3>. QED
      BY <1>3, <1>5, <2>1, <2>3, <3>1, <3>3 DEF Similar
  <2>. QED
    BY <2>2, <2>3
<1>7. \A d \in calls' : d.kind \notin {"session", "idle"}
  BY <1>3, <1>4, <1>6
<1>8. {leaving', pending', ended', revived', thawed', stuck'} \subseteq BOOLEAN
  BY <1>1, <1>6 DEF Inv, DocInv, TypeOK
<1>9. Changes(m)
  <2> HIDE DEF m
  <2>. QED
    BY <1>1, <1>2, <1>5, <1>6, <1>7, <1>8 DEF Changes, Similar
<1>10. Quiet /\ Lasting(m)
  BY <1>1, <1>6, <1>7 DEF Quiet, Lasting, Similar
<1>11. DocInv' /\ PageInv'
  BY <1>9, <1>10, ChangesDoc, LastingPage DEF Inv
<1>12. BootstrapAskedNow'
  BY <1>7 DEF BootstrapAskedNow
<1>13. CheckOfCookie'
  <2>1. \A d \in calls : m[d].kind = "check" => m[d].user = c.user
    BY <1>3, <1>4
  <2>. QED
    BY <1>2, <1>6, <2>1 DEF CheckOfCookie
<1>14. ShownIsCookie'
  BY <1>2, <1>6 DEF ShownIsCookie
<1>15. WaitsWithCookie'
  <2>1. \A f \in fetch : f.cookie # cookie'
    BY <1>1, <1>2, CallNumbers DEF Inv, DocInv, SessionIds, Grows
  <2>. QED
    BY <1>1, <2>1 DEF WaitsWithCookie
<1>16. WriteOfUser'
  <2>1. \A d \in calls : d.cookie # 0 => owner'[d.cookie] = owner[d.cookie]
    BY <1>2, CallNumbers DEF Inv, DocInv, Grows, SessionIds
  <2>2. \A d \in calls' : d.kind = "write" => d \in calls
    BY <1>4, <1>6
  <2>. QED
    BY <1>1, <2>1, <2>2 DEF Inv, UserInv, WriteOfUser, Sent
<1>. QED
  BY <1>11, <1>12, <1>13, <1>14, <1>15, <1>16 DEF Inv, UserInv
------------------------------------------------------------------------------
(* The token arrives, or does not.                                         *)

\* What becomes of the call c when the request f is over.
Serves(f, token) ==
    [c \in calls |-> IF c.via = f.id THEN [c EXCEPT !.via = 0, !.token = token, !.cookie = cookie'] ELSE c]

LEMMA ServedCalls ==
    ASSUME DocInv, NEW f \in fetch, NEW token \in Tokens, Grows, cookie' \in SessionIds',
           calls' = Served(f, token)
    PROVE  /\ calls' = {Serves(f, token)[c] : c \in calls}
           /\ \A c \in calls :
                 /\ Becomes(c, Serves(f, token)[c]) /\ Serves(f, token)[c].kind = c.kind
                 /\ c.kind # "session"
                 /\ c.via # f.id => Serves(f, token)[c] = c
                 /\ c.via = f.id => /\ Serves(f, token)[c].via = 0 /\ Serves(f, token)[c].token = token
                                    /\ Serves(f, token)[c].cookie = cookie'
           /\ heap.loaded /\ f.id # 0
<1>1. calls' = {Serves(f, token)[c] : c \in calls}
  BY DEF Served, Serves
<1>2. heap.loaded /\ f.id # 0
  BY CallNumbers, NoneTypes DEF DocInv, OnlyBootstrap
<1>3. ASSUME NEW c \in calls
      PROVE  /\ Becomes(c, Serves(f, token)[c]) /\ Serves(f, token)[c].kind = c.kind
             /\ c.via # f.id => Serves(f, token)[c] = c
             /\ c.via = f.id => /\ Serves(f, token)[c].via = 0 /\ Serves(f, token)[c].token = token
                                /\ Serves(f, token)[c].cookie = cookie'
  <2>1. c \in Calls' /\ token \in Tokens' /\ 0 \in 0 .. MaxCalls
    BY NoneTypes DEF Grows, DocInv, TypeOK
  <2>2. CASE c.via = f.id
    <3> DEFINE d == [c EXCEPT !.via = 0, !.token = token, !.cookie = cookie']
    <3>1. Serves(f, token)[c] = d
      BY <2>2 DEF Serves
    <3>2. /\ d \in Calls' /\ d.id = c.id /\ d.via = 0 /\ d.user = c.user /\ d.kind = c.kind
          /\ d.token = token /\ d.cookie = cookie'
      BY <2>1 DEF Calls
    <3>. QED
      BY <2>2, <3>1, <3>2 DEF Becomes
  <2>3. CASE c.via # f.id
    BY <2>1, <2>3 DEF Serves, Becomes
  <2>. QED
    BY <2>2, <2>3
<1>. QED
  BY <1>1, <1>2, <1>3 DEF DocInv, OnlyBootstrap

\* Who was served is sent with the cookie of the moment; the token fits it only if it is the request's.
LEMMA ServedUser ==
    ASSUME DocInv, UserInv, NEW f \in fetch, NEW token \in {f.cookie, None}, fetch' = fetch \ {f},
           Changes(Serves(f, token)), calls' = Served(f, token), SameUser
    PROVE  BootstrapAskedNow' /\ CheckOfCookie' /\ WaitsWithCookie' /\ WriteOfUser'
<1> DEFINE m == Serves(f, token)
<1>1. /\ Grows /\ CookieMoves /\ f.cookie \in SessionIds /\ token \in Tokens
  BY CallNumbers DEF Changes, DocInv, Tokens
<1>2. /\ calls' = {m[c] : c \in calls} /\ f.id # 0
      /\ \A c \in calls :
            /\ Becomes(c, m[c]) /\ m[c].kind = c.kind /\ c.kind # "session"
            /\ c.via # f.id => m[c] = c
            /\ c.via = f.id => m[c].via = 0 /\ m[c].token = token /\ m[c].cookie = cookie'
  BY <1>1, ServedCalls DEF CookieMoves
<1> HIDE DEF m
<1>3. BootstrapAskedNow' /\ CheckOfCookie'
  BY <1>2, SessionFits DEF m
<1>4. \A g \in fetch : g.cookie = cookie' /\ cookie' # 0 => cookie' = cookie
  BY <1>1, CallNumbers DEF DocInv, CookieMoves, SessionIds, Grows
<1>5. WaitsWithCookie'
  <2>1. SUFFICES ASSUME NEW c \in calls, NEW g \in fetch', m[c].via = g.id, g.cookie = cookie', cookie' # 0
                 PROVE  m[c].cookie = cookie'
    BY <1>2 DEF WaitsWithCookie
  <2>2. CASE c.via = f.id
    BY <2>2, <1>2
  <2>3. CASE c.via # f.id
    BY <2>1, <2>3, <1>2, <1>4 DEF UserInv, WaitsWithCookie
  <2>. QED
    BY <2>2, <2>3
<1>6. WriteOfUser'
  <2>1. SUFFICES ASSUME ~revived', ~thawed', NEW c \in calls, c.kind = "write", m[c].cookie # 0,
                        m[c].via # 0 \/ m[c].token = m[c].cookie
                 PROVE  owner'[m[c].cookie] = c.user
    BY <1>2 DEF WriteOfUser, Sent, Becomes
  <2>2. ~revived /\ ~thawed /\ c.cookie \in SessionIds
    BY <2>1, CallNumbers DEF SameUser, DocInv
  <2>3. CASE c.via # f.id
    <3>1. m[c] = c /\ c.cookie # 0 /\ (~Sent(c) \/ c.token = c.cookie)
      BY <2>1, <2>3, <1>2 DEF Sent
    <3>2. owner[c.cookie] = c.user /\ owner'[c.cookie] = owner[c.cookie]
      BY <2>1, <2>2, <3>1, <1>1 DEF UserInv, WriteOfUser, Grows, SessionIds
    <3>. QED
      BY <3>1, <3>2
  \* The token fits only if the cookie is still that of the request for it.
  <2>4. CASE c.via = f.id
    <3>1. cookie' # 0 /\ token = cookie' /\ m[c].cookie = cookie'
      BY <2>1, <2>4, <1>2
    <3>2. f.cookie = cookie'
      BY <3>1, <1>1, NoneTypes DEF CookieMoves, SessionIds, Grows
    <3>3. cookie' = cookie /\ f.cookie = cookie
      BY <3>1, <3>2, <1>4
    <3>4. c.cookie = cookie
      BY <2>4, <3>1, <3>3 DEF UserInv, WaitsWithCookie
    <3>5. owner[c.cookie] = c.user
      BY <2>1, <2>2, <2>4, <3>1, <3>3, <3>4, <1>2 DEF UserInv, WriteOfUser, Sent
    <3>6. owner'[cookie] = owner[cookie]
      BY <2>2, <3>1, <3>3, <3>4, <1>1 DEF Grows, SessionIds
    <3>. QED
      BY <3>1, <3>3, <3>4, <3>5, <3>6
  <2>. QED
    BY <2>3, <2>4
<1>. QED
  BY <1>3, <1>5, <1>6

\* The request is over, whatever it brought.
LEMMA ServedInv ==
    ASSUME Inv, NEW f \in fetch, NEW token \in {f.cookie, None}, NEW kept \in Tokens,
           fetch' = fetch \ {f}, calls' = Served(f, token), Grows, CookieMoves, SameUser,
           UNCHANGED <<frozen, counters>>, leaving => leaving', stuck => stuck',
           {leaving', pending', ended', revived', thawed', stuck'} \subseteq BOOLEAN,
           ended' => ended /\ cookie' = 0,
           \/ heap' = Cached(f, heap, kept)
           \/ heap' = [Cached(f, heap, kept) EXCEPT !.marked = TRUE] /\ (leaving' \/ stuck')
    PROVE  Inv'
<1> DEFINE m == Serves(f, token)
<1>1. token \in Tokens /\ heap \in Heaps /\ 0 \in 0 .. MaxCalls
  BY CallNumbers, NoneTypes DEF Inv, DocInv, TypeOK, Tokens
<1>2. /\ calls' = {m[c] : c \in calls} /\ heap.loaded
      /\ \A c \in calls : Becomes(c, m[c]) /\ m[c].kind = c.kind /\ c.kind # "session"
  BY <1>1, ServedCalls DEF Inv, CookieMoves
<1> HIDE DEF m
<1>3. Similar(heap, Cached(f, heap, kept)) /\ Cached(f, heap, kept).shown = heap.shown
  BY <1>1 DEF Cached, Similar, Heaps
<1>4. /\ heap' \in Heaps /\ heap'.promise \in {0, heap.promise} /\ heap'.handled = heap.handled
      /\ heap'.marked = heap.marked \/ leaving' \/ stuck'
      /\ heap'.shown = heap.shown /\ heap'.loaded
  BY <1>2, <1>3 DEF Similar, Heaps
<1>5. Changes(m)
  BY <1>2, <1>4 DEF Changes
<1>6. Quiet /\ Lasting(m)
  BY <1>2, <1>4 DEF Quiet, Lasting, SameUser
<1>7. DocInv' /\ PageInv'
  BY <1>5, <1>6, ChangesDoc, LastingPage DEF Inv
<1>8. BootstrapAskedNow' /\ CheckOfCookie' /\ WaitsWithCookie' /\ WriteOfUser'
  BY <1>5, ServedUser DEF Inv, m
<1>9. ShownIsCookie'
  BY <1>4 DEF Inv, UserInv, ShownIsCookie, SameUser
<1>. QED
  BY <1>7, <1>8, <1>9 DEF Inv, UserInv

LEMMA FetchInv ==
    ASSUME Inv, NEW f \in fetch, NEW result, NEW renewed \in BOOLEAN, FetchAnswered(f, result, renewed)
    PROVE  Inv'
<1> DEFINE token == IF result = "token" THEN f.cookie ELSE None
           kept == IF result = "refused" THEN heap.token ELSE token
<1>1. /\ f.cookie \in SessionIds /\ heap.token \in Tokens
      /\ leaving \in BOOLEAN /\ pending \in BOOLEAN
  BY CallNumbers DEF Inv, DocInv, TypeOK, Heaps
<1>2. token \in {f.cookie, None} /\ kept \in Tokens
  BY <1>1 DEF Tokens
<1>3. /\ Renew(f.cookie, renewed) /\ fetch' = fetch \ {f} /\ calls' = Served(f, token)
      /\ heap' = Cached(f, heap, kept) /\ UNCHANGED <<leaving, pending, frozen, counters>>
  BY DEF FetchAnswered
<1> HIDE DEF token, kept
<1>4. /\ Grows /\ CookieMoves /\ SameUser /\ UNCHANGED <<thawed, stuck>>
      /\ {ended', revived', thawed', stuck'} \subseteq BOOLEAN
      /\ ended' => ended /\ cookie' = 0
  BY <1>1, <1>3, RenewSame
<1>. QED
  BY <1>1, <1>2, <1>3, <1>4, ServedInv

LEMMA FetchMaintainedInv ==
    ASSUME Inv, NEW f \in fetch, NEW mode, FetchMaintained(f, mode)
    PROVE  Inv'
<1>1. /\ cookie' = 0 /\ fetch' = fetch \ {f} /\ calls' = Served(f, None)
      /\ heap' = [Cached(f, heap, heap.token) EXCEPT !.marked = TRUE]
      /\ leaving' = (leaving \/ mode = "active" \/ ~pending)
      /\ pending' = (mode = "unavailable") /\ stuck' = (stuck \/ ~leaving')
      /\ UNCHANGED <<owner, frozen, counters, ended, revived, thawed>>
  BY DEF FetchMaintained, Leaves
<1>2. Grows /\ CookieMoves /\ SameUser
  BY <1>1, KeepOwner DEF CookieMoves, SessionIds, Inv, DocInv, TypeOK, SameUser
<1>3. heap.token \in Tokens /\ (leaving' \/ stuck') /\ (leaving => leaving') /\ (stuck => stuck')
  BY <1>1 DEF Inv, DocInv, TypeOK, Heaps
<1>4. {leaving', pending', ended', revived', thawed', stuck'} \subseteq BOOLEAN
  BY <1>1 DEF Inv, DocInv, TypeOK
<1>. QED
  BY <1>1, <1>2, <1>3, <1>4, ServedInv
------------------------------------------------------------------------------
(* The three ways a call is begun.                                         *)

\* A call that the page, or its form, begins.
Begun(kind, user, h) ==
    /\ Issue(kind, user, h)
    /\ UNCHANGED <<cookie, owner, frozen, opened, history>>
    /\ heap.loaded /\ h \in Heaps /\ h.promise = heap.promise /\ h.loaded /\ h.handled = heap.handled /\ h.marked = heap.marked
    /\ pending' \in BOOLEAN
    /\ \/ /\ kind \in {"read", "write", "logout"} /\ heap.shown # None
          /\ kind = "write" => user = heap.shown
          /\ h.shown = heap.shown /\ leaving' = leaving
       \/ /\ kind = "login" /\ user \in Users /\ heap.shown = None /\ h.shown = None
          /\ ~leaving /\ leaving' = leaving /\ \A c \in calls : c.kind \notin LoginKinds
       \/ /\ kind = "idle" /\ user = None /\ heap.shown # None /\ h.shown = None /\ leaving' = TRUE

LEMMA BeginCases ==
    ASSUME DocInv, (\E kind \in {"read", "write", "logout"} : Start(kind))
                     \/ (\E u \in Users : Submit(u)) \/ IdleOut
    PROVE  \E kind \in Kinds \ {"session", "check"}, user \in Users \cup {None}, h \in Heaps :
              Begun(kind, user, h)
<1>1. heap \in Heaps /\ heap.shown \in Users \cup {None}
  BY DEF DocInv, TypeOK, Heaps
<1>2. ASSUME NEW kind \in {"read", "write", "logout"}, Start(kind)
      PROVE  Begun(kind, IF kind = "write" THEN heap.shown ELSE None, heap)
  BY <1>1, <1>2 DEF Begun, Start, DocInv, TypeOK
<1>3. ASSUME NEW u \in Users, Submit(u)
      PROVE  Begun("login", u, heap)
  BY <1>1, <1>3 DEF Begun, Submit, LoginKinds, DocInv, TypeOK
<1>4. ASSUME IdleOut
      PROVE  Begun("idle", None, [heap EXCEPT !.shown = None])
  <2>1. /\ [heap EXCEPT !.shown = None] \in Heaps /\ [heap EXCEPT !.shown = None].shown = None
        /\ [heap EXCEPT !.shown = None].promise = heap.promise
        /\ [heap EXCEPT !.shown = None].loaded = heap.loaded
        /\ [heap EXCEPT !.shown = None].handled = heap.handled
        /\ [heap EXCEPT !.shown = None].marked = heap.marked
    BY <1>1 DEF Heaps
  <2>. QED
    BY <1>4, <2>1 DEF Begun, IdleOut
<1>5. /\ [heap EXCEPT !.shown = None] \in Heaps
      /\ {"read", "write", "logout", "login", "idle"} \subseteq Kinds \ {"session", "check"}
  BY <1>1 DEF Heaps, Kinds
<1>. QED
  BY <1>1, <1>2, <1>3, <1>4, <1>5

LEMMA BegunDoc ==
    ASSUME DocInv, NEW kind \in Kinds \ {"session", "check"}, NEW user \in Users \cup {None}, NEW h \in Heaps,
           Begun(kind, user, h)
    PROVE  DocInv'
<1>1. leaving' \in BOOLEAN /\ pending' \in BOOLEAN /\ (kind = "login" => user \in Users)
  BY DEF Begun, DocInv, TypeOK
<1>. QED
  BY <1>1, IssueDoc DEF Begun

LEMMA BegunPage ==
    ASSUME DocInv, PageInv, NEW kind \in Kinds \ {"session", "check"}, NEW user \in Users \cup {None},
           NEW h \in Heaps, Begun(kind, user, h)
    PROVE  PageInv'
<1>. USE DEF PageInv
<1>1. /\ heap'.shown = h.shown /\ heap'.handled = h.handled /\ heap'.marked = h.marked
      /\ \E c \in Calls : calls' = calls \cup {c} /\ c.kind = kind
  BY IssueEffect DEF Begun, DocInv, Numbered
<1>2. PICK c \in Calls : calls' = calls \cup {c} /\ c.kind = kind
  BY <1>1
<1>3. UNCHANGED <<cookie, ended, thawed, stuck>>
  BY DEF Begun, history
<1>4. LoginForm'
  <2>1. CASE kind \in {"read", "write", "logout"}
    BY <2>1, <1>1, <1>2, <1>3 DEF Begun, LoginForm, LoginKinds
  <2>2. CASE kind = "login"
    BY <2>2, <1>1, <1>2, <1>3 DEF Begun, LoginForm, LoginKinds
  <2>3. CASE kind = "idle"
    BY <2>3, <1>1, <1>2, <1>3 DEF Begun, LoginForm, LoginKinds
  <2>. QED
    BY <2>1, <2>2, <2>3 DEF Begun
<1>5. EndedForGood'
  BY <1>2, <1>3 DEF EndedForGood, Completing
<1>6. HandledLeaves'
  <2>1. heap'.handled = heap.handled /\ heap'.marked = heap.marked
    BY <1>1 DEF Begun
  <2>2. leaving => leaving'
    BY Zenon DEF Begun
  <2>. QED
    BY <1>3, <2>1, <2>2 DEF HandledLeaves
<1>7. EndedStaysEnded'
  BY <1>1, <1>3 DEF Begun, EndedStaysEnded
<1>. QED
  BY <1>4, <1>5, <1>6, <1>7

LEMMA BegunUser ==
    ASSUME DocInv, UserInv, NEW kind \in Kinds \ {"session", "check"}, NEW user \in Users \cup {None},
           NEW h \in Heaps, Begun(kind, user, h)
    PROVE  UserInv'
<1>. USE DEF UserInv
<1>1. h.promise <= made /\ UNCHANGED <<cookie, owner>>
  BY DEF Begun, DocInv, Numbered
<1>2. heap'.shown = h.shown
  BY <1>1, IssueEffect DEF Begun, DocInv
<1>3. PICK c \in Calls : /\ calls' = calls \cup {c} /\ c.kind = kind /\ c.user = user
                         /\ c.cookie = cookie /\ c.via <= made'
  BY <1>1, IssueEffect DEF Begun, DocInv
<1>4. UNCHANGED fetch \/ \E f \in Fetches :
                            fetch' = fetch \cup {f} /\ f.id = made' /\ f.cookie = cookie
  BY <1>1, IssueEffect DEF Begun, DocInv
<1>5. UNCHANGED <<cookie, owner, ended, revived, thawed>>
  BY DEF Begun, history
<1>6. BootstrapAskedNow' /\ CheckOfCookie'
  BY <1>3, <1>5 DEF BootstrapAskedNow, CheckOfCookie
<1>7. ShownIsCookie'
  BY <1>2, <1>5 DEF Begun, ShownIsCookie
<1>8. WaitsWithCookie'
  <2>1. made' = made + 1
    BY <1>1, IssueEffect DEF Begun, DocInv
  <2>2. ASSUME NEW d \in calls', NEW f \in fetch', d.via = f.id, f.cookie = cookie', cookie' # 0
        PROVE  d.cookie = cookie'
    <3>1. CASE d = c
      BY <3>1, <1>3, <1>5
    <3>2. CASE d \in calls /\ f \in fetch
      BY <2>2, <3>2, <1>5 DEF WaitsWithCookie
    <3>3. CASE d \in calls /\ f \notin fetch
      BY <2>1, <2>2, <3>3, <1>4, CallNumbers DEF DocInv, Numbered
    <3>. QED
      BY <3>1, <3>2, <3>3, <1>3
  <2>. QED
    BY <2>2 DEF WaitsWithCookie
<1>9. WriteOfUser'
  <2>1. SUFFICES ASSUME ~revived, ~thawed, NEW d \in calls', d.kind = "write", d.cookie # 0,
                        ~Sent(d) \/ d.token = d.cookie
                 PROVE  owner[d.cookie] = d.user
    BY <1>5 DEF WriteOfUser, Sent
  <2>2. CASE d = c
    <3>1. kind = "write" /\ heap.shown = user /\ heap.shown # None /\ cookie # 0 /\ d.cookie = cookie
      BY <2>1, <2>2, <1>3 DEF Begun
    <3>. QED
      BY <2>1, <2>2, <3>1, <1>3 DEF ShownIsCookie
  <2>3. CASE d # c
    BY <2>1, <2>3, <1>3 DEF WriteOfUser
  <2>. QED
    BY <2>2, <2>3
<1>. QED
  BY <1>6, <1>7, <1>8, <1>9
------------------------------------------------------------------------------
(* Documents that come and go, and the cookie that expires.                *)

\* A document that asks for its session, and has nothing else to ask for.
LEMMA AskingInv ==
    ASSUME Inv, DocInv', UNCHANGED <<cookie, owner, ended, revived, thawed, stuck>>,
           heap'.shown = None, heap'.handled # {} => leaving', heap'.marked => leaving' \/ stuck,
           fetch' = {},
           \A d \in calls' : /\ d.kind \in {"session", "read"}
                             /\ d.kind = "session" => d.cookie = cookie
    PROVE  Inv'
<1>1. LoginForm' /\ HandledLeaves' /\ EndedStaysEnded'
  BY DEF LoginForm, LoginKinds, HandledLeaves, EndedStaysEnded
<1>2. EndedForGood'
  BY DEF Inv, PageInv, EndedForGood, Completing
<1>3. UserInv'
  BY DEF UserInv, BootstrapAskedNow, CheckOfCookie, ShownIsCookie, WaitsWithCookie, WriteOfUser
<1>. QED
  BY <1>1, <1>2, <1>3 DEF Inv, PageInv

LEMMA NewDocument == Inv /\ (Navigate \/ Open) => Inv'
<1>. SUFFICES ASSUME Inv, Navigate \/ Open PROVE Inv'
  OBVIOUS
<1>1. UNCHANGED <<cookie, owner, ended, revived, thawed, stuck>> /\ fetch' = {}
  BY DEF Navigate, Open, Replace, history
<1>2. heap'.shown = None /\ heap'.handled = {} /\ ~heap'.marked
  BY DEF Navigate, Open, Replace, Fresh
<1>3. \A c \in calls' : c.kind = "session" /\ c.cookie = cookie
  <2>1. SessionCall(Fresh(FALSE)).kind = "session" /\ SessionCall(Fresh(FALSE)).cookie = cookie
    BY DEF SessionCall
  <2>. QED
    BY <2>1 DEF Navigate, Open
<1>4. DocInv'
  BY NavigateDoc, OpenDoc DEF Inv
<1>. QED
  BY <1>1, <1>2, <1>3, <1>4, AskingInv

LEMMA AskAgainInv ==
    ASSUME Inv, DocInv', NEW h \in Heaps, AskAgain(h),
           h.shown = None, h.handled = heap.handled, h.marked = heap.marked
    PROVE  Inv'
<1>1. /\ heap' = h /\ ~heap.loaded /\ calls' = Abandoned(calls) \cup {SessionCall(h)}
      /\ UNCHANGED <<cookie, owner, leaving, fetch, ended, revived, thawed, stuck>>
  BY DEF AskAgain, history
<1>2. fetch' = {} /\ \A d \in calls : d.kind \in {"session", "read"} /\ d \in Calls
  BY <1>1 DEF Inv, DocInv, TypeOK, OnlyBootstrap
<1>3. \A d \in calls' : /\ d.kind \in {"session", "read"}
                        /\ d.kind = "session" => d.cookie = cookie
  <2>1. SessionCall(h).kind = "session" /\ SessionCall(h).cookie = cookie
    BY DEF SessionCall
  <2>2. \A d \in calls : AbandonedCall(d).kind = "read"
    BY <1>2 DEF AbandonedCall, Calls
  <2>. QED
    BY <1>1, <2>1, <2>2 DEF Abandoned
<1>. QED
  <2>1. CASE thawed
    <3>1. LoginForm' /\ HandledLeaves' /\ EndedStaysEnded'
      BY <1>1, <1>3, <2>1 DEF LoginForm, LoginKinds, HandledLeaves, EndedStaysEnded
    <3>2. EndedForGood'
      BY <1>1, <1>3 DEF Inv, PageInv, EndedForGood, Completing
    <3>3. UserInv'
      BY <1>1, <1>2, <1>3, <2>1 DEF UserInv, BootstrapAskedNow, CheckOfCookie, ShownIsCookie, WaitsWithCookie, WriteOfUser
    <3>. QED
      BY <3>1, <3>2, <3>3 DEF Inv, PageInv
  <2>2. CASE ~thawed
    <3>1. (heap'.handled # {} => leaving') /\ (heap'.marked => leaving' \/ stuck)
      BY <1>1, <2>2 DEF Inv, PageInv, HandledLeaves
    <3>. QED
      BY <1>1, <1>2, <1>3, <3>1, AskingInv
  <2>. QED
    BY <2>1, <2>2

LEMMA BrowserInv == Inv /\ (AskAgain(heap) \/ ChangeLanguage \/ Back \/ Expire) => Inv'
<1>. SUFFICES ASSUME Inv, AskAgain(heap) \/ ChangeLanguage \/ Back \/ Expire PROVE Inv'
  OBVIOUS
<1>1. DocInv' /\ heap \in Heaps /\ (~heap.loaded => heap.shown = None)
  BY BrowserDoc DEF Inv, DocInv, TypeOK
<1>2. CASE AskAgain(heap)
  BY <1>1, <1>2, AskAgainInv DEF AskAgain
<1>3. CASE ChangeLanguage
  <2> DEFINE h == [heap EXCEPT !.service = @ + 1, !.token = None, !.promise = 0]
  <2>1. /\ h \in Heaps /\ h.loaded = heap.loaded /\ h.shown = heap.shown
        /\ h.handled = heap.handled /\ h.marked = heap.marked
    BY <1>3, NewService DEF ChangeLanguage, Inv, DocInv
  <2>2. \/ AskAgain(h)
        \/ /\ heap.loaded /\ heap' = h
           /\ UNCHANGED <<cookie, owner, leaving, calls, fetch, ended, revived, thawed, stuck>>
    BY <1>3 DEF ChangeLanguage, history
  <2> HIDE DEF h
  <2>3. CASE AskAgain(h)
    BY <1>1, <2>1, <2>3, AskAgainInv DEF AskAgain
  <2>4. CASE ~AskAgain(h)
    <3>1. PageInv'
      BY <2>1, <2>2, <2>4 DEF Inv, PageInv, LoginForm, EndedForGood, Completing, HandledLeaves, EndedStaysEnded
    <3>2. UserInv'
      BY <2>1, <2>2, <2>4 DEF Inv, UserInv, BootstrapAskedNow, CheckOfCookie, ShownIsCookie, WaitsWithCookie, WriteOfUser, Sent
    <3>. QED
      BY <1>1, <3>1, <3>2 DEF Inv
  <2>. QED
    BY <2>3, <2>4
<1>4. CASE Back
  <2>1. calls' = {} /\ fetch' = {} /\ thawed' = TRUE /\ UNCHANGED <<cookie, ended, revived>>
    BY <1>4 DEF Back
  <2>2. PageInv'
    BY <2>1 DEF Inv, PageInv, LoginForm, EndedForGood, Completing, HandledLeaves, EndedStaysEnded
  <2>3. UserInv'
    BY <2>1 DEF UserInv, BootstrapAskedNow, CheckOfCookie, ShownIsCookie, WaitsWithCookie, WriteOfUser
  <2>. QED
    BY <1>1, <2>2, <2>3 DEF Inv
<1>5. CASE Expire
  <2>1. cookie' = 0 /\ UNCHANGED <<owner, heap, leaving, calls, fetch, ended, revived, thawed, stuck>>
    BY <1>5 DEF Expire, page, history
  <2>2. PageInv'
    BY <2>1 DEF Inv, PageInv, LoginForm, EndedForGood, Completing, HandledLeaves, EndedStaysEnded
  <2>3. UserInv'
    BY <2>1 DEF Inv, UserInv, BootstrapAskedNow, CheckOfCookie, ShownIsCookie, WaitsWithCookie, WriteOfUser, Sent
  <2>. QED
    BY <1>1, <2>2, <2>3 DEF Inv
<1>. QED
  BY <1>2, <1>3, <1>4, <1>5
------------------------------------------------------------------------------
(* The theorems.                                                           *)

LEMMA InitInv == Init => Inv
<1>. SUFFICES ASSUME Init PROVE Inv
  OBVIOUS
<1>1. DocInv
  BY InitDoc
<1>2. calls = {} /\ fetch = {} /\ ~ended /\ heap.shown = None /\ heap.handled = {} /\ ~heap.marked
  BY DEF Init, Fresh
<1>3. PageInv
  BY <1>2 DEF PageInv, LoginForm, EndedForGood, HandledLeaves, EndedStaysEnded
<1>4. UserInv
  BY <1>2 DEF UserInv, BootstrapAskedNow, CheckOfCookie, ShownIsCookie, WaitsWithCookie, WriteOfUser
<1>. QED
  BY <1>1, <1>3, <1>4 DEF Inv

LEMMA NextInv == Inv /\ [Next]_vars => Inv'
<1>. SUFFICES ASSUME Inv, [Next]_vars PROVE Inv'
  OBVIOUS
<1>1. CASE (\E kind \in {"read", "write", "logout"} : Start(kind))
             \/ (\E u \in Users : Submit(u)) \/ IdleOut
  <2>1. PICK kind \in Kinds \ {"session", "check"}, user \in Users \cup {None}, h \in Heaps :
           Begun(kind, user, h)
    BY <1>1, BeginCases DEF Inv
  <2>. QED
    BY <2>1, BegunDoc, BegunPage, BegunUser DEF Inv
<1>2. CASE Navigate \/ Open
  BY <1>2, NewDocument
<1>3. CASE AskAgain(heap) \/ ChangeLanguage \/ Back \/ Expire
  BY <1>3, BrowserInv
<1>4. CASE TurnBack \/ Noticed
  BY <1>4, TurnBackInv, NoticedInv
<1>5. CASE \E f \in fetch, result \in {"token", "refused", "failed"}, renewed \in BOOLEAN :
              FetchAnswered(f, result, renewed)
  BY <1>5, FetchInv
<1>6. CASE \E f \in fetch, mode \in {"active", "unavailable"} : FetchMaintained(f, mode)
  BY <1>6, FetchMaintainedInv
<1>7. CASE \E c \in calls : Settle(c)
  <2>1. PICK c \in calls : Settle(c)
    BY <1>7
  <2>2. CASE Unauthorized(c)
    BY <2>2, UnauthorizedInv
  <2>3. CASE LoginAnswered(c)
    BY <2>3, LoginInv
  <2>4. CASE LogoutAnswered(c)
    BY <2>4, LogoutInv
  <2>5. CASE \E mode \in {"active", "unavailable"} : Maintained(c, mode)
    BY <2>5, MaintainedInv
  <2>6. CASE \E renewed \in BOOLEAN : Refused(c, renewed) \/ Answered(c, renewed) \/ Lost(c, renewed)
    BY <2>6, FailedInv, ShownInv
  <2>. QED
    BY <2>1, <2>2, <2>3, <2>4, <2>5, <2>6 DEF Settle
<1>8. CASE UNCHANGED vars
  <2>1. DocInv'
    BY <1>8 DEF vars, Inv, DocInv, TypeOK, Numbered, OnlyBootstrap, LoginNames, SessionIds, Heaps,
                Calls, Fetches, Tokens
  <2>2. PageInv'
    BY <1>8 DEF vars, Inv, PageInv, LoginForm, EndedForGood, Completing, HandledLeaves, EndedStaysEnded
  <2>3. UserInv'
    BY <1>8 DEF vars, Inv, UserInv, BootstrapAskedNow, CheckOfCookie, ShownIsCookie, WaitsWithCookie,
                WriteOfUser, Sent
  <2>. QED
    BY <2>1, <2>2, <2>3 DEF Inv
<1>. QED
  BY <1>1, <1>2, <1>3, <1>4, <1>5, <1>6, <1>7, <1>8 DEF Next

LEMMA InvAlways == Spec => []Inv
BY InitInv, NextInv, PTL DEF Spec

\* Every variable of the session model has its type in every reachable state.
THEOREM SessionTypes == Spec => []TypeOK
<1>1. Inv => TypeOK
  BY DEF Inv, DocInv
<1>. QED
  BY <1>1, InvAlways, PTL

(* A page never shows one user while the cookie is another's, whatever the *)
(* order of the answers, unless a renewal came too late or a document was  *)
(* brought back.                                                           *)
THEOREM ShownMatchesCookie == Spec => []ShownIsCookie
<1>1. Inv => ShownIsCookie
  BY DEF Inv, UserInv
<1>. QED
  BY <1>1, InvAlways, PTL

(* After the host has ended the session no page shows a user before the    *)
(* next login, unless a renewal came too late or a document was brought    *)
(* back.                                                                   *)
THEOREM EndIsFinal == Spec => []EndedStaysEnded
<1>1. Inv => EndedStaysEnded
  BY DEF Inv, PageInv
<1>. QED
  BY <1>1, InvAlways, PTL

(* A page that shows a user and is not being left still handles the end of *)
(* the session: neither did its service do so before, in whatever language *)
(* the page was, nor does the maintenance marker keep it from it, unless   *)
(* the document was brought back or is stuck.                              *)
THEOREM AlwaysArmed == Spec => []HandlerArmed
<1>1. Inv => HandlerArmed
  BY DEF Inv, PageInv, HandledLeaves, HandlerArmed
<1>. QED
  BY <1>1, InvAlways, PTL

(* A write is carried out only for the user it was begun for, although it  *)
(* may have waited for its token while logins, logouts and renewals were   *)
(* answered.                                                               *)
THEOREM WritesForTheirUser == Spec => []WriteActsForItsUser
<1>1. Inv => WriteActsForItsUser
  BY DEF Inv, UserInv, WriteOfUser, WriteActsForItsUser
<1>. QED
  BY <1>1, InvAlways, PTL
=============================================================================
