--------------------------- MODULE BrowserSession ---------------------------
(***************************************************************************)
(* The session of one browser tab: the cookie the host set, what the page  *)
(* believes, and the anti-forgery token DotNetService caches for writes.   *)
(* Calls are answered in any order; the cookie changes when an answer      *)
(* arrives, which may be after the page has signed out.  The host keeps    *)
(* nothing: a session is a signed token, and every answer to a request of  *)
(* a session in its last 15 minutes replaces it by a new one.  In a        *)
(* maintenance window it answers a customer's request by taking the cookie *)
(* away, and the page leaves.                                              *)
(*                                                                         *)
(* A document may be left for another one and brought back by the          *)
(* browser's Back with its heap as it was (the back-forward cache).  A     *)
(* change of language gives the document a new DotNetService; the calls    *)
(* the former one began are still answered.                                *)
(***************************************************************************)
EXTENDS Sequences, Integers, FiniteSets

CONSTANTS
    Users, Admins, \* a maintenance window does not shut administrators out
    MaxSessions,   \* bound: the sessions the host issues
    MaxCalls,      \* bound: the calls that need the cookie, and the changes of language
    MaxOpens,      \* bound: the documents the user opens or goes back to
    MaxChanges,    \* bound: the changes of language in a document
    None

ASSUME UserAssumption == Admins \subseteq Users
ASSUME BoundAssumption == \A n \in {MaxSessions, MaxCalls, MaxOpens, MaxChanges} : n \in Nat
ASSUME NoneAssumption == None \notin Users \cup Int

VARIABLES
    cookie,    \* the session of the browser's cookie, 0 without one
    owner,     \* whose the sessions are, in the order they were issued
    heap,      \* the document: what its store and its services hold
    leaving,   \* a navigation to another document is under way
    pending,   \* sessionStorage: a redirect to the page that says SAP is down is
    calls,     \* the calls of the document that are not answered
    fetch,     \* the requests for an anti-forgery token, likewise
    frozen,    \* the document before this one, as the browser keeps it
    made, opened,    \* counters for the bounds
    ended,     \* history: the host ended the session and has issued none since
    revived,   \* history: a session was renewed when it had ended
    thawed,    \* history: a frozen document was brought back
    stuck      \* history: a document was marked as leaving for maintenance and did not leave

page == <<heap, leaving, pending>>
history == <<ended, revived, thawed, stuck>>
counters == <<made, opened>>
vars == <<cookie, owner, heap, leaving, pending, calls, fetch, frozen, made, opened, ended, revived, thawed, stuck>>

SessionIds == 0 .. Len(owner)
\* A token is bound to the session it was issued to, 0 for no session.
Tokens == SessionIds \cup {None}
\* An administrator's login checks the e-mail templates before it is complete.
Kinds == {"session", "read", "check", "write", "login", "logout", "idle"}
Safe == {"session", "read", "check"}
\* The DotNetServices of a document, one after every change of language.
Services == 0 .. MaxChanges
Heaps == [shown : Users \cup {None}, loaded : BOOLEAN, marked : BOOLEAN, service : Services,
          handled : SUBSET Services, token : Tokens, promise : 0 .. MaxCalls]
Calls == [id : 1 .. MaxCalls, by : Services, kind : Kinds, user : Users \cup {None},
          via : 0 .. MaxCalls, token : Tokens, cookie : SessionIds]
Fetches == [id : 1 .. MaxCalls, by : Services, cookie : SessionIds]

\* A new document: a page behind the login asks for the session first.
Fresh(loaded) == [shown |-> None, loaded |-> loaded, marked |-> FALSE, service |-> 0,
                  handled |-> {}, token |-> None, promise |-> 0]

Init ==
    /\ cookie = 0 /\ owner = <<>>
    /\ heap = Fresh(TRUE) /\ leaving = FALSE /\ pending = FALSE
    /\ calls = {} /\ fetch = {} /\ frozen = None
    /\ made = 0 /\ opened = 0
    /\ ended = FALSE /\ revived = FALSE /\ thawed = FALSE /\ stuck = FALSE
------------------------------------------------------------------------------
(* Calls and their anti-forgery token.                                     *)

Sent(c) == c.via = 0

(* fetchFn and getCsrfToken: a write uses the cached token, or waits for   *)
(* the request for one that is under way, or starts one.                   *)
Issue(kind, user, h) ==
    LET promise == IF h.promise = 0 THEN made + 1 ELSE h.promise
        waits == kind \notin Safe /\ h.token = None
    IN /\ made < MaxCalls /\ made' = made + 1
       /\ calls' = calls \cup {[id |-> made + 1, by |-> h.service, kind |-> kind, user |-> user,
                                via |-> IF waits THEN promise ELSE 0,
                                token |-> IF kind \in Safe THEN None ELSE h.token,
                                cookie |-> cookie]}
       /\ heap' = IF waits THEN [h EXCEPT !.promise = promise] ELSE h
       /\ fetch' = IF waits /\ h.promise = 0
                     THEN fetch \cup {[id |-> promise, by |-> h.service, cookie |-> cookie]} ELSE fetch

(* The sliding refresh of Program.cs: the answer to a request of session s *)
(* may carry a new session of the same user, whatever else it says.        *)
Renew(s, renewed) ==
    IF renewed
    THEN /\ s # 0 /\ Len(owner) < MaxSessions
         /\ owner' = Append(owner, owner[s]) /\ cookie' = Len(owner) + 1
         /\ revived' = (revived \/ cookie = 0 \/ owner[s] # owner[cookie])
         /\ ended' = FALSE
         /\ UNCHANGED <<thawed, stuck>>
    ELSE UNCHANGED <<owner, cookie, history>>

\* Whoever waits for the token goes on, with the cookie of that moment.
Served(f, token) ==
    {IF c.via = f.id THEN [c EXCEPT !.via = 0, !.token = token, !.cookie = cookie'] ELSE c : c \in calls}

\* What the service that asked remembers; a former service is used no more.
Cached(f, h, token) == IF f.by = h.service THEN [h EXCEPT !.token = token, !.promise = 0] ELSE h

\* Mutant: whoever waits gets a token for the session of the moment, not that of the request.
FetchAnsweredAnew(f, result, renewed) ==
    LET token == IF result = "token" THEN cookie' ELSE None IN
    /\ renewed => result # "failed"
    /\ Renew(f.cookie, renewed)
    /\ fetch' = fetch \ {f}
    /\ heap' = Cached(f, heap, IF result = "refused" THEN heap.token ELSE token)
    /\ calls' = Served(f, token)
    /\ UNCHANGED <<leaving, pending, frozen, counters>>

\* The token arrives, or the request for it does not succeed.
FetchAnswered(f, result, renewed) ==
    LET token == IF result = "token" THEN f.cookie ELSE None IN
    /\ renewed => result # "failed"
    /\ Renew(f.cookie, renewed)
    /\ fetch' = fetch \ {f}
    /\ heap' = Cached(f, heap, IF result = "refused" THEN heap.token ELSE token)
    /\ calls' = Served(f, token)
    /\ UNCHANGED <<leaving, pending, frozen, counters>>

\* clearCsrfToken: a request under way is forgotten, its answer is not.
ClearToken(c, h) == IF c.by = h.service THEN [h EXCEPT !.token = None, !.promise = 0] ELSE h
------------------------------------------------------------------------------
(* What the user, or the page, does.                                       *)

Start(kind) ==
    /\ kind \in {"read", "write", "logout"}
    /\ heap.loaded /\ heap.shown # None
    /\ Issue(kind, IF kind = "write" THEN heap.shown ELSE None, heap)
    /\ UNCHANGED <<cookie, owner, leaving, pending, frozen, opened, history>>

\* The login form is disabled while it submits.  Nobody fills it in a page that is going away.
Submit(u) ==
    /\ heap.loaded /\ heap.shown = None /\ ~leaving /\ \A c \in calls : c.kind \notin {"login", "check"}
    /\ Issue("login", u, heap)
    /\ UNCHANGED <<cookie, owner, leaving, pending, frozen, opened, history>>

\* useEpayIdleTimer: the logout is not waited for, the document is left at once.
IdleOut ==
    /\ heap.loaded /\ heap.shown # None
    /\ Issue("idle", None, [heap EXCEPT !.shown = None])
    /\ leaving' = TRUE /\ pending' = FALSE
    /\ UNCHANGED <<cookie, owner, frozen, opened, history>>

(* The calls of a document end with it, and what they would have brought   *)
(* is lost.  A document the bound lets nobody go back to is not kept.       *)
Replace(h) ==
    /\ leaving' = FALSE /\ fetch' = {}
    /\ frozen' = IF heap.loaded /\ opened' < MaxOpens THEN [heap EXCEPT !.promise = 0] ELSE None
    /\ heap' = h

\* The navigation arrives, at the login page or at the one that says SAP is down.
Navigate ==
    /\ leaving /\ UNCHANGED counters
    /\ Replace(Fresh(TRUE)) /\ calls' = {} /\ pending' = FALSE
    /\ UNCHANGED <<cookie, owner, history>>

\* AuthSessionBootstrap: the request for the session, and what becomes of an abandoned one.
SessionCall(h) == [id |-> made + 1, by |-> h.service, kind |-> "session", user |-> None, via |-> 0,
                   token |-> None, cookie |-> cookie]
AbandonedCall(c) == IF c.kind = "session" THEN [c EXCEPT !.kind = "read"] ELSE c
Abandoned(cs) == {AbandonedCall(c) : c \in cs}

\* The user opens, or reloads, a page behind the login: AuthSessionBootstrap asks.
Open ==
    /\ opened < MaxOpens /\ opened' = opened + 1
    /\ made < MaxCalls /\ made' = made + 1
    /\ Replace(Fresh(FALSE))
    /\ calls' = {SessionCall(Fresh(FALSE))}
    /\ UNCHANGED <<cookie, owner, pending, history>>

\* Before the answer the page or the service changes: the effect runs again.
AskAgain(h) ==
    /\ ~heap.loaded
    /\ made < MaxCalls /\ made' = made + 1
    /\ calls' = Abandoned(calls) \cup {SessionCall(h)}
    /\ heap' = h
    /\ UNCHANGED <<cookie, owner, leaving, pending, fetch, frozen, opened, history>>

\* EpayQueryProvider: a change of language makes a new service.
ChangeLanguage ==
    LET h == [heap EXCEPT !.service = @ + 1, !.token = None, !.promise = 0] IN
    /\ heap.service < MaxChanges
    /\ \/ AskAgain(h)
       \/ /\ heap.loaded /\ heap' = h
          /\ made < MaxCalls /\ made' = made + 1
          /\ UNCHANGED <<cookie, owner, leaving, pending, calls, fetch, frozen, opened, history>>

\* Mutant: the answer of the abandoned request is not ignored.
TurnBackKeeps ==
    /\ ~heap.loaded
    /\ heap' = [heap EXCEPT !.loaded = TRUE]
    /\ UNCHANGED <<cookie, owner, leaving, pending, calls, fetch, frozen, counters, history>>

\* Before the answer Back leads to the login page in the same document.
TurnBack ==
    /\ ~heap.loaded
    /\ heap' = [heap EXCEPT !.loaded = TRUE]
    /\ calls' = Abandoned(calls)
    /\ UNCHANGED <<cookie, owner, leaving, pending, fetch, frozen, counters, history>>

\* The browser brings the former document back; only the maintenance marker is reset.
Back ==
    /\ frozen # None
    /\ opened < MaxOpens /\ opened' = opened + 1
    /\ heap' = [frozen EXCEPT !.marked = FALSE] /\ frozen' = None /\ leaving' = FALSE
    /\ calls' = {} /\ fetch' = {} /\ thawed' = TRUE
    /\ UNCHANGED <<cookie, owner, pending, made, ended, revived, stuck>>

\* The session's hour is over: the browser drops the cookie.
Expire ==
    /\ cookie # 0 /\ cookie' = 0
    /\ UNCHANGED <<owner, page, calls, fetch, frozen, counters, history>>
------------------------------------------------------------------------------
(* Answers.                                                                *)

Done(c) == calls' = calls \ {c}

\* Mutant: the session is not marked as loaded.
SignedInUnloaded(h, u) == [h EXCEPT !.shown = u]

\* loginSuccess, and with None loginFailed and logout.
SignedIn(h, u) == [h EXCEPT !.shown = u, !.loaded = TRUE]

\* What a page does when a call it waited for is over and there is no session.
WithoutSession(c, h) == IF c.kind \in {"session", "check", "logout"} THEN SignedIn(h, None) ELSE h

\* Mutant: the session's end is shown without leaving the document.
UnauthorizedInPlace(c) ==
    /\ Sent(c) /\ c.kind \in Safe \cup {"write"}
    /\ IF c.by \notin heap.handled /\ ~heap.marked
         THEN /\ heap' = [SignedIn(heap, None) EXCEPT !.handled = @ \cup {c.by}]
              /\ calls' = Abandoned(calls \ {c}) /\ pending' = FALSE /\ UNCHANGED leaving
         ELSE heap' = WithoutSession(c, heap) /\ Done(c) /\ UNCHANGED <<leaving, pending>>
    /\ UNCHANGED <<cookie, owner, fetch, frozen, counters, history>>

\* Without a session, or one the host accepts: onUnauthorized, once in the life of the service.
Unauthorized(c) ==
    /\ Sent(c) /\ c.kind \in Safe \cup {"write"}
    /\ IF c.by \notin heap.handled /\ ~heap.marked
         THEN /\ heap' = [SignedIn(heap, None) EXCEPT !.handled = @ \cup {c.by}]
              /\ calls' = Abandoned(calls \ {c}) /\ leaving' = TRUE /\ pending' = FALSE
         ELSE heap' = WithoutSession(c, heap) /\ Done(c) /\ UNCHANGED <<leaving, pending>>
    /\ UNCHANGED <<cookie, owner, fetch, frozen, counters, history>>

(* handleMaintenanceStatusPayload: in a maintenance window the document is *)
(* left for the login page; when SAP is down for the page that says so,    *)
(* unless a redirect to it seems to be under way.                          *)
Leaves(h, mode, cleared) ==
    LET redirects == mode = "active" \/ ~pending IN
    /\ heap' = [h EXCEPT !.marked = TRUE]
    /\ leaving' = (leaving \/ redirects)
    /\ pending' = (mode = "unavailable" /\ ~cleared)
    /\ stuck' = (stuck \/ ~leaving')
    /\ UNCHANGED <<owner, frozen, counters, ended, revived, thawed>>

\* AuthenticatedMaintenanceMiddleware: customers lose their session.
ShutOut(s) == s # 0 /\ owner[s] \notin Admins

\* A login is refused without a session, too, but with this answer only when SAP is down.
Maintained(c, mode) ==
    /\ Sent(c) /\ Done(c)
    /\ ShutOut(c.cookie) \/ (c.kind = "login" /\ mode = "unavailable")
    /\ cookie' = IF ShutOut(c.cookie) THEN 0 ELSE cookie
    /\ Leaves(WithoutSession(c, IF c.kind \in {"logout", "idle"} THEN ClearToken(c, heap) ELSE heap),
              mode, c.kind = "logout")
    /\ UNCHANGED fetch

FetchMaintained(f, mode) ==
    /\ ShutOut(f.cookie) /\ cookie' = 0
    /\ fetch' = fetch \ {f} /\ calls' = Served(f, None)
    /\ Leaves(Cached(f, heap, heap.token), mode, FALSE)

\* MaintenanceProvider: the page that asks for the status signs out, or leaves for the page that says so.
Noticed ==
    /\ ~leaving
    /\ \/ heap.shown # None /\ heap' = SignedIn(heap, None) /\ UNCHANGED <<leaving, pending>>
       \/ ~pending /\ pending' = TRUE /\ leaving' = TRUE /\ UNCHANGED heap
    /\ UNCHANGED <<cookie, owner, calls, fetch, frozen, counters, history>>

(* The token of a write is not that of its session.  A refused logout is   *)
(* taken for one, and the token is cleared as after one.                   *)
Refused(c, renewed) ==
    /\ Sent(c) /\ c.kind \notin Safe /\ c.token # c.cookie
    /\ c.kind = "write" => c.cookie # 0
    /\ Renew(c.cookie, renewed)
    /\ Done(c)
    /\ heap' = IF c.kind \in {"logout", "idle"} THEN WithoutSession(c, ClearToken(c, heap)) ELSE heap
    /\ pending' = (pending /\ c.kind # "logout")
    /\ UNCHANGED <<leaving, fetch, frozen, counters>>

Answered(c, renewed) ==
    /\ Sent(c) /\ c.cookie # 0
    /\ c.kind \in Safe \/ (c.kind = "write" /\ c.token = c.cookie)
    /\ Renew(c.cookie, renewed)
    /\ Done(c)
    /\ heap' = CASE c.kind = "session" -> SignedIn(heap, owner[c.cookie])
                 [] c.kind = "check" -> SignedIn(heap, c.user)
                 [] OTHER -> heap
    /\ pending' = (pending /\ c.kind # "check")
    /\ UNCHANGED <<leaving, fetch, frozen, counters>>

\* The page shows a customer at once, an administrator when the templates have been checked.
LoginAnswered(c) ==
    /\ Sent(c) /\ c.kind = "login" /\ c.token = c.cookie /\ Len(owner) < MaxSessions
    /\ owner' = Append(owner, c.user) /\ cookie' = Len(owner) + 1
    /\ IF c.user \in Admins
         THEN /\ heap' = ClearToken(c, heap) /\ UNCHANGED pending
              /\ calls' = (calls \ {c}) \cup {[c EXCEPT !.kind = "check", !.token = None, !.cookie = cookie']}
         ELSE heap' = SignedIn(ClearToken(c, heap), c.user) /\ Done(c) /\ pending' = FALSE
    /\ ended' = FALSE
    /\ UNCHANGED <<leaving, fetch, frozen, counters, revived, thawed, stuck>>

\* A login that is being completed goes on after the logout of a former session.
Completing == \E c \in calls : c.kind = "check"

\* Mutant: the page waits for the next refused request to sign out.
LogoutAnsweredLater(c) ==
    /\ Sent(c) /\ c.kind \in {"logout", "idle"} /\ c.token = c.cookie
    /\ Done(c)
    /\ cookie' = 0 /\ ended' = ~Completing
    /\ heap' = ClearToken(c, heap)
    /\ pending' = (pending /\ c.kind # "logout")
    /\ UNCHANGED <<owner, leaving, fetch, frozen, counters, revived, thawed, stuck>>

LogoutAnswered(c) ==
    /\ Sent(c) /\ c.kind \in {"logout", "idle"} /\ c.token = c.cookie
    /\ Done(c)
    /\ cookie' = 0 /\ ended' = ~Completing
    /\ heap' = WithoutSession(c, ClearToken(c, heap))
    /\ pending' = (pending /\ c.kind # "logout")
    /\ UNCHANGED <<owner, leaving, fetch, frozen, counters, revived, thawed, stuck>>

\* Mutant: a failed request for the session is not caught.
LostUncaught(c, renewed) ==
    /\ Sent(c) /\ Done(c)
    /\ Renew(c.cookie, renewed)
    /\ heap' = IF c.kind = "session" THEN heap ELSE WithoutSession(c, heap)
    /\ pending' = (pending /\ c.kind # "logout")
    /\ UNCHANGED <<leaving, fetch, frozen, counters>>

\* The call fails, for instance since the password is wrong, or gets no answer.
Lost(c, renewed) ==
    /\ Sent(c) /\ Done(c)
    /\ Renew(c.cookie, renewed)
    /\ heap' = WithoutSession(c, heap)
    /\ pending' = (pending /\ c.kind # "logout")
    /\ UNCHANGED <<leaving, fetch, frozen, counters>>
------------------------------------------------------------------------------
Settle(c) ==
    \/ Unauthorized(c) \/ LoginAnswered(c) \/ LogoutAnswered(c)
    \/ \E renewed \in BOOLEAN : Refused(c, renewed) \/ Answered(c, renewed) \/ Lost(c, renewed)
    \/ \E mode \in {"active", "unavailable"} : Maintained(c, mode)

Next ==
    \/ \E kind \in {"read", "write", "logout"} : Start(kind)
    \/ \E u \in Users : Submit(u)
    \/ IdleOut \/ Navigate \/ Open \/ AskAgain(heap) \/ ChangeLanguage \/ TurnBack
    \/ Back \/ Expire \/ Noticed
    \/ \E f \in fetch, result \in {"token", "refused", "failed"}, renewed \in BOOLEAN :
          FetchAnswered(f, result, renewed)
    \/ \E f \in fetch, mode \in {"active", "unavailable"} : FetchMaintained(f, mode)
    \/ \E c \in calls : Settle(c)

Spec == Init /\ [][Next]_vars

\* Every call is answered or fails, and a navigation arrives.
FairSpec == Spec /\ WF_vars(Navigate) /\ WF_vars(\E c \in calls : Settle(c))
------------------------------------------------------------------------------
(* Properties.                                                             *)

\* Every variable has its type; a page shows nobody before the session is known.
TypeOK ==
    /\ cookie \in SessionIds /\ owner \in Seq(Users) /\ heap \in Heaps
    /\ calls \subseteq Calls /\ fetch \subseteq Fetches
    /\ frozen \in Heaps \cup {None} /\ made \in 0 .. MaxCalls /\ opened \in 0 .. MaxOpens
    /\ \A b \in {leaving, pending, ended, revived, thawed, stuck} : b \in BOOLEAN
    /\ ~heap.loaded => heap.shown = None

(* While the page shows a user the cookie, if there is one, is that        *)
(* user's: refused and lost logouts, logins over a session that is still   *)
(* there and late answers of the bootstrap included.  What breaks it is a  *)
(* renewal that arrives after its session has ended, or a document that is *)
(* brought back.                                                           *)
ShownIsCookie ==
    ~revived /\ ~thawed /\ heap.shown # None /\ cookie # 0 => heap.shown = owner[cookie]

(* Once the host has ended the session no page shows a user before the     *)
(* next login, unless a renewal is late (which clears ended) or a document *)
(* is brought back.  A login an administrator is still completing counts   *)
(* as the next one.                                                        *)
EndedStaysEnded ==
    ended /\ ~thawed => heap.shown = None

(* maintenance.ts:89: "reset it so session-expiry handling works": a page  *)
(* that shows a user, and stays, still reacts to the end of the session:   *)
(* neither has its service done so before nor does the maintenance marker  *)
(* keep it from it.  A document brought back may have done so before and   *)
(* never will again; one that was marked and not left is stuck.            *)
HandlerArmed ==
    ~thawed /\ ~stuck /\ heap.shown # None /\ ~leaving => heap.service \notin heap.handled /\ ~heap.marked

(* A write that was begun while one user was shown is never carried out    *)
(* for another, although it may wait for its token while they change.      *)
WriteActsForItsUser ==
    \A c \in calls :
        Sent(c) /\ c.kind = "write" /\ c.token = c.cookie /\ c.cookie # 0 /\ ~revived /\ ~thawed
            => owner[c.cookie] = c.user

(* Program.cs:461: the renewal of a session is transparent to the          *)
(* frontend, so no write of a live session is refused for its token.       *)
RenewalTransparent ==
    \A c \in calls :
        Sent(c) /\ c.kind = "write" /\ c.token # None /\ c.cookie # 0 => c.token = c.cookie

\* A page behind the login always learns whether there is a session.
BootstrapResolves == ~heap.loaded ~> heap.loaded
=============================================================================
