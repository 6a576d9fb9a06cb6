------------------------------ MODULE Payments ------------------------------
(***************************************************************************)
(* The three ways one browser tab pays: a payment of invoices, a deposit   *)
(* and a scheduled payment.  A press of the pay button starts a handler, a *)
(* chain of promises that outlives its page and ends in a request that     *)
(* moves money.  A card that needs 3-D Secure first gets an access token;  *)
(* the check either passes in the page, and the handler goes on, or sends  *)
(* the tab to the card issuer, which loads a return page in a new          *)
(* document: what was being paid is then read back from the redux store,   *)
(* which a new document fills from sessionStorage.  The return page can be *)
(* opened again with the browser's Back and Reload.                        *)
(*                                                                         *)
(* Goods stands for the invoices, or the deposit, that are paid for.  The  *)
(* overlay that covers the page while a call is under way stops the mouse, *)
(* not the keyboard.                                                       *)
(***************************************************************************)
EXTENDS Sequences, Integers, FiniteSets

CONSTANTS
    Goods,
    Trips,       \* bound: the sets of flows one behaviour may mix
    Kinds,       \* the ways to pay under study, of PayKinds
    Keyboard,    \* a button may be pressed through the overlay
    MaxActs,     \* bound: presses and return pages of one behaviour
    None

FlowKinds == {"payment", "deposit", "schedule"}
PayKinds == {"stripe", "3ds", "plain"}

ASSUME FlowAssumption == Trips \subseteq SUBSET FlowKinds /\ Kinds \subseteq PayKinds
ASSUME BoundAssumption == Keyboard \in BOOLEAN /\ MaxActs \in Nat
ASSUME NoneAssumption == None \notin Goods

VARIABLES
    page,        \* "home", "form", "issuer", "return" or "receipt"
    flow,        \* the flow of the form or of the return page
    goods,       \* what the form shows
    redux,       \* payment.mappedInvoices and payment.depositDetails of the store
    kept,        \* their copies in sessionStorage, the redirect session, payment.vRef
    challenge,   \* the access token the issuer's page was opened with, or 0
    url,         \* the access token of the latest return page in the history, or 0
    acts,        \* what the user did: presses, and return pages opened
    crossed,     \* history: the keyboard got through the overlay
    tokens,      \* the access tokens issued: what for, and whether with a vRef
    tasks,       \* the handlers under way in this document
    loading,     \* EpayLoadingProvider's count
    wire,        \* the requests that move money
    books,       \* the acts SAP or Stripe booked, in order
    receipt      \* what the receipt page says: [act, ok], or None

host == <<wire, books>>
store == <<redux, kept>>
vars == <<page, flow, goods, redux, kept, challenge, url, acts, crossed, tokens, tasks,
          loading, wire, books, receipt>>

Choice == Goods \cup {None}
Stored == [mapped : Choice, deposit : Choice]
Redirects == [goods : Choice, vref : Nat]
Kept == [mapped : Choice, deposit : Choice, redirect : Redirects, vref : Nat]
NoRedirect == [goods |-> None, vref |-> 0]
Stages == {"token", "check", "auth", "post", "charge", "fallback", "confirm"}
Tasks == [act : Nat, flow : FlowKinds, from : {"form", "return"}, kind : PayKinds,
          at : Stages, goods : Choice, token : Nat, vref : Nat, req : Nat]
Acts == [flow : FlowKinds, goods : Choice, of : Nat, again : BOOLEAN]
Requests == [act : Nat, flow : FlowKinds, goods : Choice, token : Nat, vref : Nat,
             stripe : BOOLEAN,
             state : {"sent", "missing", "action", "pending", "booked", "refused"}]

Init ==
    /\ page = "home" /\ flow = None /\ goods = None
    /\ redux = [mapped |-> None, deposit |-> None]
    /\ kept = [mapped |-> None, deposit |-> None, redirect |-> NoRedirect, vref |-> 0]
    /\ challenge = 0 /\ url = 0
    /\ acts = <<>> /\ crossed = FALSE /\ tokens = <<>> /\ tasks = {} /\ loading = 0
    /\ wire = <<>> /\ books = <<>> /\ receipt = None

Reachable == loading = 0 \/ Keyboard
NextAct == Len(acts) + 1
------------------------------------------------------------------------------
(* What the user does on the pages.                                        *)

\* The deposit form starts from the stored details; invoices are chosen anew.
Open(f) ==
    /\ page \in {"home", "receipt"} /\ Reachable
    /\ \E trip \in Trips : {f} \cup {acts[a].flow : a \in DOMAIN acts} \subseteq trip
    /\ page' = "form" /\ flow' = f
    /\ goods' \in IF f = "deposit" THEN {redux.deposit} ELSE Goods
    /\ receipt' = None
    /\ UNCHANGED <<store, challenge, url, acts, crossed, tokens, tasks, loading, host>>

\* updateDepositDetails stores every edit in redux and in sessionStorage.
Type(g) ==
    /\ page = "form" /\ flow = "deposit" /\ Reachable /\ g # goods
    /\ goods' = g /\ crossed' = (crossed \/ loading > 0)
    /\ redux' = [redux EXCEPT !.deposit = g]
    /\ kept' = [kept EXCEPT !.deposit = g]
    /\ UNCHANGED <<page, flow, challenge, url, acts, tokens, tasks, loading, host, receipt>>

\* The browser's Back leaves a form; a link of the header leaves a return page.
Leave ==
    /\ page = "form" \/ (page = "return" /\ Reachable)
    /\ page' = "home" /\ goods' = None
    /\ UNCHANGED <<flow, store, challenge, url, acts, crossed, tokens, tasks, loading, host, receipt>>

\* A request for money leaves the browser, for the host to handle when it gets there.
Send(t, vref, stripe) ==
    wire' = Append(wire, [act |-> t.act, flow |-> t.flow, goods |-> t.goods, token |-> t.token,
                          vref |-> vref, stripe |-> stripe, state |-> "sent"])

\* Mutant: what an earlier press left in the store is not replaced.
PressKeepsStored(k) ==
    LET t == [act |-> NextAct, flow |-> flow, from |-> "form", kind |-> k,
              at |-> CASE k = "stripe" -> "charge" [] k = "3ds" -> "token" [] OTHER -> "post",
              goods |-> goods, token |-> 0, vref |-> 0,
              req |-> IF k = "3ds" THEN 0 ELSE Len(wire) + 1]
    IN /\ page = "form" /\ goods # None /\ Reachable /\ Len(acts) < MaxActs
       /\ k = "stripe" => flow # "schedule"
       /\ acts' = Append(acts, [flow |-> flow, goods |-> goods, of |-> NextAct, again |-> FALSE])
       /\ crossed' = (crossed \/ loading > 0)
       /\ tasks' = tasks \cup {t}
       /\ loading' = loading + 1
       /\ IF k = "3ds" /\ flow # "deposit" /\ redux.mapped = None
            THEN /\ redux' = [redux EXCEPT !.mapped = goods]
                 /\ kept' = [kept EXCEPT !.mapped = goods]
            ELSE UNCHANGED store
       /\ IF k = "3ds" THEN UNCHANGED wire ELSE Send(t, 0, k = "stripe")
       /\ UNCHANGED <<page, flow, goods, challenge, url, tokens, books, receipt>>

(* makePayment, makeDeposit and handleSchedulePayment after their checks.  *)
(* A scheduled payment does not tell Stripe's cards from others.           *)
Press(k) ==
    LET t == [act |-> NextAct, flow |-> flow, from |-> "form", kind |-> k,
              at |-> CASE k = "stripe" -> "charge" [] k = "3ds" -> "token" [] OTHER -> "post",
              goods |-> goods, token |-> 0, vref |-> 0,
              req |-> IF k = "3ds" THEN 0 ELSE Len(wire) + 1]
    IN /\ page = "form" /\ goods # None /\ Reachable /\ Len(acts) < MaxActs
       /\ k = "stripe" => flow # "schedule"
       /\ acts' = Append(acts, [flow |-> flow, goods |-> goods, of |-> NextAct, again |-> FALSE])
       /\ crossed' = (crossed \/ loading > 0)
       /\ tasks' = tasks \cup {t}
       /\ loading' = loading + 1
       /\ IF k = "3ds" /\ flow # "deposit"
            THEN /\ redux' = [redux EXCEPT !.mapped = goods]
                 /\ kept' = [kept EXCEPT !.mapped = goods]
            ELSE UNCHANGED store
       /\ IF k = "3ds" THEN UNCHANGED wire ELSE Send(t, 0, k = "stripe")
       /\ UNCHANGED <<page, flow, goods, challenge, url, tokens, books, receipt>>
------------------------------------------------------------------------------
(* How a handler ends.                                                     *)

Clear(k) == [k EXCEPT !.mapped = None, !.deposit = None]     \* clearPaymentSession3DS

\* Mutant: the redirect session is emptied field by field, as if it were one value.
CleanUpWhole(t) ==
    CASE t.flow = "payment" -> kept' = Clear(kept) /\ UNCHANGED redux
      [] t.flow = "deposit" ->
            /\ kept' = [Clear(kept) EXCEPT !.redirect = None]
            /\ redux' = [redux EXCEPT !.deposit = None]
      [] OTHER -> UNCHANGED store

\* cleanupPaymentFlow and cleanupDepositFlow, and the clean-ups of the return pages.
CleanUp(t) ==
    CASE t.flow = "payment" -> kept' = Clear(kept) /\ UNCHANGED redux
      [] t.flow = "deposit" ->
            /\ kept' = IF t.from = "form" THEN [Clear(kept) EXCEPT !.redirect = NoRedirect]
                       ELSE [kept EXCEPT !.deposit = None, !.redirect = NoRedirect]
            /\ redux' = [redux EXCEPT !.deposit = None]
      [] OTHER -> UNCHANGED store

\* clearURLparamsAndState(true): a scheduled payment made by the return page.
ForgetSchedule ==
    /\ kept' = [kept EXCEPT !.mapped = None]
    /\ redux' = [redux EXCEPT !.mapped = None]

\* The form, or the return page that started the handler and is still the one shown.
Shown(t) ==
    t.from = "return" =>
        /\ page = "return"
        /\ \A u \in tasks : u.from = "return" => u.act <= t.act

ShowReceipt(t, ok) ==
    /\ page' = "receipt" /\ goods' = None /\ receipt' = [act |-> t.act, ok |-> ok]
    /\ UNCHANGED <<flow, url>>

\* decrement stops at zero; LoaderBalanced says that the count never gets there early.
EndTask(t, weight) == tasks' = tasks \ {t} /\ loading' = loading - weight

\* A scheduled payment moves on from any page; a return page that was left does nothing.
Succeed(t) ==
    /\ EndTask(t, 1)
    /\ IF Shown(t) \/ t.flow = "schedule"
         THEN /\ ShowReceipt(t, TRUE)
              /\ IF t.flow = "schedule" /\ t.from = "return" THEN ForgetSchedule ELSE CleanUp(t)
         ELSE UNCHANGED <<store, page, flow, goods, url, receipt>>
    /\ UNCHANGED <<challenge, acts, crossed, tokens>>

\* Mutant: the return page of a payment stays as it is when the authentication fails.
FailSilently(t, weight) ==
    /\ EndTask(t, weight)
    /\ IF ~Shown(t) \/ (t.flow = "schedule" /\ t.from = "form")
               \/ (t.from = "return" /\ t.at = "auth")
         THEN UNCHANGED <<store, page, flow, goods, url, receipt>>
         ELSE IF t.flow = "schedule"
         THEN /\ page' = "form" /\ goods' = t.goods /\ url' = 0
              /\ UNCHANGED <<flow, store, receipt>>
         ELSE ShowReceipt(t, FALSE) /\ CleanUp(t)
    /\ UNCHANGED <<challenge, acts, crossed, tokens>>

(* A payment or a deposit shows an error receipt.  A scheduled payment     *)
(* shows a message and stays on its form; its return page takes the token  *)
(* out of the address.  ProcessingDepositPage does not catch a failed      *)
(* authentication result and stays blank.                                  *)
Fail(t, weight) ==
    /\ EndTask(t, weight)
    /\ IF ~Shown(t) \/ (t.flow = "schedule" /\ t.from = "form")
               \/ (t.flow = "deposit" /\ t.from = "return" /\ t.at = "auth")
         THEN UNCHANGED <<store, page, flow, goods, url, receipt>>
         ELSE IF t.flow = "schedule"
         THEN /\ page' = "form" /\ goods' = t.goods /\ url' = 0
              /\ UNCHANGED <<flow, store, receipt>>
         ELSE ShowReceipt(t, FALSE) /\ CleanUp(t)
    /\ UNCHANGED <<challenge, acts, crossed, tokens>>

Move(t, u) == tasks' = (tasks \ {t}) \cup {u}
------------------------------------------------------------------------------
(* The chain of a card with 3-D Secure.                                    *)

\* Mutant: between the two calls the loader's count falls back to what it was.
TokenIssuedUncounted(t, withVref) ==
    LET n == Len(tokens) + 1
        vref == IF withVref THEN n ELSE 0
    IN /\ t.at = "token"
       /\ tokens' = Append(tokens, [act |-> t.act, flow |-> t.flow, goods |-> t.goods,
                                    vref |-> withVref])
       /\ Move(t, [t EXCEPT !.at = "check", !.token = n, !.vref = vref])
       /\ loading' = loading - 1
       /\ kept' = CASE t.flow = "deposit" ->
                          [kept EXCEPT !.redirect = [goods |-> t.goods, vref |-> vref]]
                    [] withVref /\ t.flow # "deposit" -> [kept EXCEPT !.vref = n]
                    [] OTHER -> kept
       /\ UNCHANGED <<page, flow, goods, redux, challenge, url, acts, crossed, host, receipt>>

\* Mutant: a vRef stored earlier is not replaced.
TokenIssuedKeepsVref(t, withVref) ==
    LET n == Len(tokens) + 1
        vref == IF withVref THEN n ELSE 0
    IN /\ t.at = "token"
       /\ tokens' = Append(tokens, [act |-> t.act, flow |-> t.flow, goods |-> t.goods,
                                    vref |-> withVref])
       /\ Move(t, [t EXCEPT !.at = "check", !.token = n, !.vref = vref])
       /\ loading' = loading + 1
       /\ kept' = CASE t.flow = "deposit" ->
                          [kept EXCEPT !.redirect = [goods |-> t.goods, vref |-> vref]]
                    [] withVref /\ t.flow # "deposit" /\ kept.vref = 0 -> [kept EXCEPT !.vref = n]
                    [] OTHER -> kept
       /\ UNCHANGED <<page, flow, goods, redux, challenge, url, acts, crossed, host, receipt>>

\* getAccessToken answers: the vRef is stored, and a deposit stores all it will need.
TokenIssued(t, withVref) ==
    LET n == Len(tokens) + 1
        vref == IF withVref THEN n ELSE 0
    IN /\ t.at = "token"
       /\ tokens' = Append(tokens, [act |-> t.act, flow |-> t.flow, goods |-> t.goods,
                                    vref |-> withVref])
       /\ Move(t, [t EXCEPT !.at = "check", !.token = n, !.vref = vref])
       /\ loading' = loading + 1
       /\ kept' = CASE t.flow = "deposit" ->
                          [kept EXCEPT !.redirect = [goods |-> t.goods, vref |-> vref]]
                    [] withVref /\ t.flow # "deposit" -> [kept EXCEPT !.vref = n]
                    [] OTHER -> kept
       /\ UNCHANGED <<page, flow, goods, redux, challenge, url, acts, crossed, host, receipt>>

TokenFails(t) ==
    /\ t.at = "token" /\ Fail(t, 1) /\ UNCHANGED host

\* The check passes in the page; the loader's own count goes when the result is asked for.
CheckPasses(t) ==
    /\ t.at = "check"
    /\ Move(t, [t EXCEPT !.at = "auth"]) /\ loading' = loading - 1
    /\ UNCHANGED <<page, flow, goods, store, challenge, url, acts, crossed, tokens, host, receipt>>

\* The check sends the tab to the issuer: the document and all its handlers are gone.
CheckChallenges(t) ==
    /\ t.at = "check"
    /\ page' = "issuer" /\ goods' = None /\ challenge' = t.token
    /\ tasks' = {} /\ loading' = 0
    /\ UNCHANGED <<flow, store, url, acts, crossed, tokens, host, receipt>>

\* Mutant: the count the check added by itself is not taken back when it fails.
CheckFailsOnce(t) ==
    /\ t.at = "check" /\ Fail(t, 1) /\ UNCHANGED host

CheckFails(t) ==
    /\ t.at = "check" /\ Fail(t, 2) /\ UNCHANGED host

(* The authentication result is in: the request for the money goes out.    *)
(* The page uses its own token's vRef; a return page the one in the        *)
(* answer, or else the one stored, which it takes out of the storage.      *)
AuthAnswered(t, answered) ==
    LET stored == IF t.flow = "deposit" THEN t.vref ELSE kept.vref
        vref == IF t.from = "form" THEN t.vref
                ELSE IF answered THEN t.token ELSE stored
    IN /\ t.at = "auth"
       /\ answered => t.from = "return" /\ tokens[t.token].vref
       /\ Send(t, vref, FALSE)
       /\ Move(t, [t EXCEPT !.at = "post", !.vref = vref, !.req = Len(wire) + 1])
       /\ kept' = IF t.from = "return" /\ t.flow # "deposit" THEN [kept EXCEPT !.vref = 0] ELSE kept
       /\ UNCHANGED <<page, flow, goods, redux, challenge, url, acts, crossed, tokens, loading, books, receipt>>

AuthFails(t) ==
    /\ t.at = "auth" /\ Fail(t, 1) /\ UNCHANGED host
------------------------------------------------------------------------------
(* The host's side, and the answers.  A request may be handled after the   *)
(* browser gave it up.                                                     *)

Settle(i, state) ==
    /\ wire' = [wire EXCEPT ![i].state = state]
    /\ books' = IF state = "booked" THEN Append(books, wire[i].act) ELSE books
    /\ UNCHANGED <<page, flow, goods, store, challenge, url, acts, crossed, tokens, tasks, loading, receipt>>

\* MakePayment, MakeDeposit, ScheduledPayment: without documents the request fails.
HostHandles(i, ok) ==
    /\ wire[i].state = "sent" /\ ~wire[i].stripe
    /\ ok => wire[i].goods # None
    /\ Settle(i, IF ok THEN "booked" ELSE "refused")

(* Stripe creates and confirms the intent; a bank debit is decided later.  *)
(* No handler of the host answers 404: a request answered so is "missing", *)
(* a host or a gateway had no route for it.                                *)
StripeHandles(i, state) ==
    /\ wire[i].state = "sent" /\ wire[i].stripe
    /\ state \in {"booked", "refused", "action", "pending", "missing"}
    /\ Settle(i, state)

StripeDecides(i, ok) ==
    /\ wire[i].state = "pending"
    /\ Settle(i, IF ok THEN "booked" ELSE "refused")

(* The answer arrives.  Only a status "E" makes the host answer a payment  *)
(* or a deposit with an error; the page of a scheduled payment takes only  *)
(* an "S" for success.  An answer of SAP that is "unclear", without any of *)
(* them, is a success to the first two whatever SAP did.  Without          *)
(* documents the host fails before it asks SAP.                            *)
PostAnswered(t, unclear) ==
    /\ t.at = "post" /\ wire[t.req].state \in {"booked", "refused"}
    /\ unclear => wire[t.req].goods # None
    /\ IF (IF unclear THEN t.flow # "schedule" ELSE wire[t.req].state = "booked")
         THEN Succeed(t) ELSE Fail(t, 1)
    /\ UNCHANGED host

\* Mutant: the handler of a return page that was left is not told of a lost answer.
PostLostShown(t) ==
    /\ t.at = "post" /\ Shown(t) /\ Fail(t, 1) /\ UNCHANGED host

\* The request, or its answer, is lost: the browser cannot tell whether it was booked.
PostLost(t) ==
    /\ t.at = "post" /\ Fail(t, 1) /\ UNCHANGED host

Charging == {"charge", "fallback"}

\* Mutant: the older address is tried after a lost answer as well.
StripeMissingOrLost(t) ==
    /\ t.at = "charge" /\ wire[t.req].state \in {"sent", "missing"}
    /\ Send(t, 0, TRUE)
    /\ Move(t, [t EXCEPT !.at = "fallback", !.req = Len(wire) + 1])
    /\ UNCHANGED <<page, flow, goods, store, challenge, url, acts, crossed, tokens, loading, books, receipt>>

\* executeStripePayment: after a 404 the same charge goes to the older address.
StripeMissing(t) ==
    /\ t.at = "charge" /\ wire[t.req].state = "missing"
    /\ Send(t, 0, TRUE)
    /\ Move(t, [t EXCEPT !.at = "fallback", !.req = Len(wire) + 1])
    /\ UNCHANGED <<page, flow, goods, store, challenge, url, acts, crossed, tokens, loading, books, receipt>>

(* A refusal and a second 404 are errors; any other answer, unless it      *)
(* requires an action of the card holder, is taken for a payment.          *)
StripeAnswered(t) ==
    /\ t.at \in Charging
    /\ \/ wire[t.req].state \in {"booked", "pending"} /\ Succeed(t)
       \/ wire[t.req].state = "refused" /\ Fail(t, 1)
       \/ t.at = "fallback" /\ wire[t.req].state = "missing" /\ Fail(t, 1)
       \/ /\ wire[t.req].state = "action"
          /\ Move(t, [t EXCEPT !.at = "confirm"])
          /\ UNCHANGED <<page, flow, goods, store, challenge, url, acts, crossed, tokens, loading, receipt>>
    /\ UNCHANGED host

StripeLost(t) ==
    /\ t.at \in Charging \cup {"confirm"} /\ Fail(t, 1) /\ UNCHANGED host

\* stripe.confirmCardPayment: the card holder authenticates, or Stripe's script is missing.
Confirmed(t, state) ==
    /\ t.at = "confirm" /\ state \in {"booked", "pending", "refused"}
    /\ wire' = [wire EXCEPT ![t.req].state = state]
    /\ books' = IF state = "booked" THEN Append(books, t.act) ELSE books
    /\ IF state = "refused" THEN Fail(t, 1) ELSE Succeed(t)

ConfirmSkipped(t) ==
    /\ t.at = "confirm" /\ Succeed(t) /\ UNCHANGED host
------------------------------------------------------------------------------
(* The return page.                                                        *)

\* A new document reads its store from sessionStorage.
Loaded == [mapped |-> kept.mapped, deposit |-> kept.deposit]

(* The page's effect runs once when it is shown: it asks for the result of *)
(* the token in its address and then posts what the store holds.  A        *)
(* deposit falls back on the redirect session, and without details waits.  *)
Mount(n, st, running, again) ==
    LET f == tokens[n].flow
        details == IF f # "deposit" THEN st.mapped
                   ELSE IF st.deposit # None THEN st.deposit ELSE kept.redirect.goods
        count == IF running = {} THEN 0 ELSE loading
        t == [act |-> NextAct, flow |-> f, from |-> "return", kind |-> "3ds", at |-> "auth",
              goods |-> details, token |-> n,
              vref |-> IF f = "deposit" THEN kept.redirect.vref ELSE 0, req |-> 0]
    IN /\ page' = "return" /\ flow' = f /\ goods' = None /\ url' = n /\ challenge' = 0
       /\ redux' = st /\ receipt' = None
       /\ IF f = "deposit" /\ details = None
            THEN tasks' = running /\ loading' = count /\ UNCHANGED acts
            ELSE /\ Len(acts) < MaxActs
                 /\ acts' = Append(acts, [flow |-> f, goods |-> details, of |-> tokens[n].act,
                                          again |-> again])
                 /\ tasks' = running \cup {t}
                 /\ loading' = count + 1
       /\ UNCHANGED <<kept, crossed, tokens, host>>

IssuerReturns == page = "issuer" /\ Mount(challenge, Loaded, {}, FALSE)

IssuerAbandoned ==
    /\ page = "issuer"
    /\ page' = "home" /\ challenge' = 0 /\ redux' = Loaded
    /\ UNCHANGED <<flow, goods, kept, url, acts, crossed, tokens, tasks, loading, host, receipt>>

\* The browser's Back leads to the return page again, in the same document.
Back ==
    /\ page \in {"home", "form", "receipt"} /\ url # 0
    /\ Mount(url, redux, tasks, TRUE)

Reload ==
    /\ page = "return" /\ url # 0
    /\ Mount(url, Loaded, {}, TRUE)
------------------------------------------------------------------------------
TaskStep(t) ==
    \/ \E v \in BOOLEAN : TokenIssued(t, v)
    \/ TokenFails(t)
    \/ CheckPasses(t) \/ CheckChallenges(t) \/ CheckFails(t)
    \/ \E v \in BOOLEAN : AuthAnswered(t, v)
    \/ AuthFails(t)
    \/ \E unclear \in BOOLEAN : PostAnswered(t, unclear)
    \/ PostLost(t)
    \/ StripeMissing(t) \/ StripeAnswered(t) \/ StripeLost(t)
    \/ \E s \in {"booked", "pending", "refused"} : Confirmed(t, s)
    \/ ConfirmSkipped(t)

HostStep(i) ==
    \/ \E ok \in BOOLEAN : HostHandles(i, ok) \/ StripeDecides(i, ok)
    \/ \E s \in {"booked", "refused", "action", "pending", "missing"} : StripeHandles(i, s)

Next ==
    \/ \E f \in FlowKinds : Open(f)
    \/ \E g \in Goods : Type(g)
    \/ Leave
    \/ \E k \in Kinds : Press(k)
    \/ \E t \in tasks : TaskStep(t)
    \/ \E i \in DOMAIN wire : HostStep(i)
    \/ IssuerReturns \/ IssuerAbandoned \/ Back \/ Reload

Spec == Init /\ [][Next]_vars

(* Every call of the browser is answered or fails: fetch settles.  The     *)
(* issuer's check and the card holder's confirmation are calls of other    *)
(* people's scripts, which may never call back.                            *)
AwaitsOthers(t) == t.at \in {"check", "confirm"}
StepOf(a) == \E t \in tasks : t.act = a /\ ~AwaitsOthers(t) /\ TaskStep(t)
FairSpec == Spec /\ \A a \in 1 .. MaxActs : WF_vars(StepOf(a))
------------------------------------------------------------------------------
(* Properties.                                                             *)

\* Every variable has its type, and handlers, tokens and requests name acts and tokens there are.
TypeOK ==
    /\ page \in {"home", "form", "issuer", "return", "receipt"} /\ flow \in FlowKinds \cup {None}
    /\ goods \in Choice /\ redux \in Stored /\ kept \in Kept
    /\ challenge \in 0 .. Len(tokens) /\ url \in 0 .. Len(tokens) /\ loading \in Nat
    /\ page = "issuer" => challenge # 0
    /\ acts \in Seq(Acts) /\ wire \in Seq(Requests) /\ books \in Seq(DOMAIN acts)
    /\ tokens \in Seq([act : DOMAIN acts, flow : FlowKinds, goods : Choice, vref : BOOLEAN])
    /\ tasks \subseteq Tasks
    /\ \A t \in tasks : t.act \in DOMAIN acts /\ t.token \in 0 .. Len(tokens) /\ t.req \in 0 .. Len(wire)
    /\ crossed \in BOOLEAN
    /\ receipt = None \/ receipt \in [act : DOMAIN acts, ok : BOOLEAN]

(* The loader's count is the calls under way: it falls back to zero when   *)
(* the last handler ends, whatever way it ends, and never before.  (Each   *)
(* service call counts itself, and the 3-D Secure check is counted twice.) *)
LoaderBalanced ==
    loading = Cardinality(tasks) + Cardinality({t \in tasks : t.at = "check"})

(* Two presses are under way at once only when one came through the        *)
(* overlay; the form's own disabled flag is reset before any call answers. *)
OnePressAtATime ==
    \A t, u \in tasks :
        t.from = "form" /\ u.from = "form" /\ t.act # u.act => crossed

(* Of the requests an act sends only the last can ever move money: each    *)
(* earlier one was answered 404, so that nothing handled it.  An error of  *)
(* any other step, and a lost answer, is never followed by a request.      *)
OneChargePerAct ==
    \A i, j \in DOMAIN wire :
        i < j /\ wire[i].act = wire[j].act => wire[i].state = "missing"

(* A return page that was not opened again posts the vRef of its own       *)
(* token, or none, whenever the token came with one.  (A token without one *)
(* is exempt: its return page posts the stored vRef, which may be that of  *)
(* an authentication the user gave up earlier.)                            *)
VrefOfToken ==
    \A i \in DOMAIN wire :
        LET w == wire[i] IN
        ~crossed /\ w.token # 0 /\ ~acts[w.act].again /\ tokens[w.token].vref => w.vref \in {0, w.token}

\* The pages keep the ledger's promise.
Ledger == INSTANCE PaymentLedger WITH
    asked <- [a \in DOMAIN acts |-> [goods |-> acts[a].goods, of |-> acts[a].of,
                                     again |-> acts[a].again]]
LedgerKept == Ledger!LedgerSpec

(* Every handler ends, or comes to wait for the issuer's check or the card *)
(* holder; and the return page of a payment is left.                       *)
HandlersEnd ==
    \A a \in 1 .. MaxActs :
        (\E t \in tasks : t.act = a) ~> (\A t \in tasks : t.act = a => AwaitsOthers(t))
ReturnPageLeft == (page = "return" /\ flow = "payment") ~> (page # "return")
=============================================================================
