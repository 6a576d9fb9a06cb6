# A TLA+ verification of ePay3

ePay3 is a customer portal for paying invoices.  A React application in the browser
(`src/Epay3Client`) talks to an ASP.NET host (`src/Epay3Net`) whose managers and clients
(`src/Epay3Service`) call SAP, Salesforce and Stripe.  The host runs in several containers
("replicas" below) that share no memory: what they have in common is the AppValues table in SAP, which
is read as a list and written one value at a time, without transactions.  The browser keeps its own
state in a redux store, in `sessionStorage` and in the variables of promises that outlive the page that
started them.

## The system

| part | code | state it keeps | operations | what is hard about it |
|---|---|---|---|---|
| JWT signing keys | `Managers/JwtKeyManager.cs` | per replica a cached `JwtKeyState`; in SAP the `JWT_KEY_*` values | refresh, bootstrap, lazy clean-up, rotation, key resolution | rotation is six separate writes that other replicas read in between and that may fail or be cut short at any of them |
| Key rotation service | `BackgroundServices/JwtKeyRotationService.cs` | a timer | due test, rotation | every rotating replica has its own timer |
| Session tokens | `Helpers/JwtTokenHelper.cs`, `Program.cs` | the tokens that are out | issue, validate, renew | signed and validated at different replicas with caches of different age |
| Maintenance mode, outage detection | `Services/MaintenanceCacheService.cs`, `Maintenance/`, `Middleware/`, part of `ApplicationConfigurationManager.cs` | per replica: a cached configuration, time stamps, flags, a failure count | refresh in the background, read, edit, enforcement, marks | three kinds of thread end in `SetCache`, whoever is last wins; a replica that thinks SAP is down stops asking |
| Payments (browser) | `hooks/usePaymentExecution.ts`, `hooks/useScheduledPaymentExecution.ts`, `components/payment/`, `components/deposits/`, `services/EpayPaymentService.ts`, `redux/reducers/paymentSlice.ts` | the form, the store and its copy in `sessionStorage`, the handlers under way, the loader's count | press, 3-D Secure check, redirect, return, post, receipt | a chain of calls that a redirect cuts in two; what is paid is read back from storage; Back and Reload repeat the second half |
| Payments (host) | `Managers/PaymentManager.cs`, `Payments/PaymentPolicy.cs` | none | payment, deposit, scheduled payment, deletion of a schedule | answers get lost after the booking |
| Stripe | `StripeController.cs`, `Managers/StripeManager.cs` | payment intents | create, confirm | an intent may be decided later |
| Browser session | `services/DotNetService.ts`, `providers/AuthSessionBootstrap.tsx`, `redux/reducers/userSlice.ts`, `hooks/useEpayIdleTimer.ts`, `AuthController.cs` | the cookie; in the page the user shown, a cached anti-forgery token, a flag for the 401 | bootstrap, login, logout, idle logout, renewal, reload | answers set and clear the cookie in the order they arrive; the token belongs to a session the host may have renewed |
| Invoice list | `components/invoices/InvoicesPage.tsx`, `EpayDataTable.tsx`, `useHeaderAccounts.ts` | the list, the filters, copies of selected rows, dialogs | ask, filter, select, pay, delete schedules | late lists, a switch of the account under a selection, partial failure of several deletions |
| AppValues | `ApplicationConfigurationManager.cs`, `AppValuesRepository.cs`, `SystemConfigService.cs` | cached lists | read, create or modify | create or modify is chosen from a list that may be old |
| SAP, Salesforce clients | `Clients/` | an access token | get, post, retry | an error answer is turned into an empty value; failures are reported to outage detection |
| Login and lockout | `Managers/AuthManager.cs` | the failure count in the user record | login, unlock | concurrent attempts read and write the same record |
| Users, accounts, e-mail, other pages | `UserManager.cs`, `AccountManager.cs`, `SmtpMailer.cs`, `src/Epay3Client` | records elsewhere | forms, queries, rendering | little: one request each |

What makes each part correct:

* **keys**: a kid always names the same key; a replaced key stops signing and, later, stops being
  accepted, and not before the tokens signed with it are over; keys do get rotated; a live key is never
  lost.
* **maintenance**: an edit is enforced everywhere within a known time, half-written or old
  configurations are not enforced for longer than that, a replica does not get stuck unavailable.
* **payments**: what the user asked for once is booked at most once, whatever is lost or late; it is what
  was on the screen; an error or a lost answer is not followed by a second charge; no page of a payment hangs.
* **session**: the user a page shows is the user of the cookie; what is ended stays ended; a write is
  carried out for the user who began it.
* **invoice list**: the payment page has what the button was pressed for, of the account that pays,
  and out of any schedule.

## The modules

| module | models | extends or uses |
|---|---|---|
| `JwtKeys` | the signing-key protocol: every replica's refresh and rotation threads over the shared store | |
| `JwtTokens` | the tokens signed and validated with those keys, composed with `JwtKeys` | extends `JwtKeys` |
| `Maintenance` | maintenance mode and outage detection | |
| `PaymentLedger` | abstract: what the payment pages promise about the books of SAP and Stripe | |
| `Payments` | the payment flows of one tab with SAP, Stripe and the card issuer | refines `PaymentLedger` |
| `BrowserSession` | the session of one tab, its calls in any order, and the host's cookie | |
| `InvoiceList` | the list of open invoices up to the payment page | |
| `JwtKeysProofs`, `JwtRetireProofs`, `JwtScheduleProofs` | theorems about the keys: types and kids, retirement, the orderly deployment | each extends the one before, the first `JwtKeys` |
| `JwtTokensProofs` | theorems about the tokens | extends `JwtTokens` and `JwtScheduleProofs` |
| `MaintenanceProofs`, `PaymentsProofs`, `BrowserSessionProofs`, `InvoiceListProofs` | theorems about the other components | extend the module they are about |
| `MCJwtKeys`, `MCJwtTokens`, `MCMaintenance`, `MCPayments`, `MCBrowserSession`, `MCInvoiceList` | the small instances TLC checks | |

Definitions whose comment begins with "Mutant" are variants of the definition after them, as a plausible
mistake would have it.  No specification uses them; they serve to confirm that each property notices
the mistake.

### JwtKeys

`store` is the `JWT_KEY_*` values; `cache[r]` is the `IMemoryCache` entry of replica `r`, `None` when it
has expired or was removed.  `pc[r]` says where the two threads of `r` are: `"refresh"` is
`RefreshFromSapAsync` (one at a time, it holds `_refreshLock`), `"rotate"` is the background service
and `RotateKeysAsync` (no lock).  Every SAP write is one action (`Write`), because everything else may
happen between two of them; the order of the writes is that of the code.  A read is one action, because
SAP returns the whole list in one answer.  `view` and `job` are the locals of the two threads.

| code | definition |
|---|---|
| `RefreshFromSapAsync` | `RefreshRead`, `CleanUp`, `RefreshPublish`, and `RefreshReread` after a bootstrap |
| `BootstrapAsync` | `Bootstrap` |
| `RotateKeysAsync` | `RotateRead` (the guard and the new key), `RotateWrite`, `RotateForget` |
| `IsRotationDueAsync`, `JwtKeyRotationService` | `RotationDue`, `RotationNotDue`, `TimerDue` |
| `ParseKidCipher`, `ResolveKey` | the same |
| `UpdateAppValue`, `AppValueAction` | `Write` |
| `GetValues` | `Receive` |

`Write` and `Receive` have the outcomes the client code leaves open: a call throws, with or without
having been applied; a read is answered by a JSON error body, which `GetValues` turns into an empty
list; a write is answered by one, which `AppValueAction` ignores; a replica stops anywhere and comes
back empty.  The constant `Faults` says which of these an instance has.

A refresh may start at any instant: an expired cache entry, the warm-up at startup, the service's
due test and a token with an unknown kid all start one.

Data: a key is a number, 0 for the one derived from the KEK and 1, 2, ... for the random ones.  A cipher
is the key it holds, as all replicas have the same KEK.  `JWT_KEY_PREVIOUS_KID` is left out: it is read
(`JwtKeyManager.cs:187`), but only as the kid of a previous record in the old format, and every rotation writes the
previous record in the new one.  Time is in ticks of about half an hour; the 30 seconds of
`ForcedRefreshInterval` and of the clock-skew buffer are below one tick.

### JwtTokens

`signedAt[k]` is when key `k` last signed a token.  `Issue` is a login or the sliding refresh of
`Program.cs:458-496`; `Validates` is `GetValidationKeysAsync` as the bearer handler calls it: the cached state
first, then, for a kid it does not know, what a forced refresh loads.  `limited[r]` says that replica `r` may be within the 30
seconds in which `ShouldForceRefresh` refuses a second forced refresh, whoever caused the first one (any request with a kid
the replica does not know does, `ForceRefresh`).  As 30 seconds are below a tick, the limit ends at any instant (`LimitOver`).
While it holds, `Validates` refuses an unknown kid, as the code does.

So a good token can be refused: its key is newer than what the replica has cached, or the cache entry has expired,
and a refresh was forced a moment ago.  `Behind` names these states, and `TokenGuarantee` says that there is no other way to
refuse a token within its guaranteed time.  A replica that has cached its state more than an operation after the
token was signed, so that it has read the store since then, is not excused by `Behind`.
One thing is abstracted: a validation is evaluated in one state, so that a rotation of the same replica does not
remove the cache entry between the publication of the forced refresh and the read of it at `JwtKeyManager.cs:98`.

`OrderlySchedule`, in `JwtKeys`, names the deployment in which the keys keep all their promises: SAP answers, there is no
legacy record, `KEY_ROTATION_DURATION` is set for one replica only, a cached state and two operations fit into the overlap
window, and a rotation period has room for an overlap window with its skew, a cached state, two operations and a timer
period, one after the other.  An operation is at most a read of 30 seconds (`SapHttpClient.cs:103`) and six writes of
100 seconds (`SapHttpClient.cs:108`, `306`), ten and a half minutes together.  So in the code these are at most 51 minutes against 65, and
some three hours (65 minutes, half a minute, 30, 21 and 60) against the period.  24 hours satisfy it; the `1h` that
`src/README.md:407` gives as an example does not, and is what `JwtCleanUpRace` looks like.  `MCJwtTokens` assumes it, so
that TLC checks `JwtDaily` against it.

### Maintenance

For each replica `cfg`, `expires` (the memory cache), `lastOk`, `lastTry`, `busy`, `lastFailed`,
`failures` (the fields of `MaintenanceCacheService`), and three threads: `"refresh"`, the background
refresh of `MaintenanceConfigRefresher`; `"fill"`, a request to `config/maintenance`; `"edit"`,
`UpdateMaintenanceConfig`.  All three go on through `Ask` (SAP takes the values), `Reply` (the
answer arrives), `Store` and `Stamp` (the two halves of `SetCache`: the memory-cache entry is set outside
the lock).  An edit first writes its values one by one (`PutEdit`).  Both middlewares are `Open`; a request that
starts no refresh changes nothing and is no action.  `SapCall` is any other SAP call and
`SalesforceCall` any Salesforce call: they matter for the marks they leave.

A configuration is reduced to the sign-in switch and its window; texts and the other switches follow the
same path.  `Default` is what an empty database binds to.  `GetState` reads the cache and the
counters one after the other; here they are one snapshot.  `failures` counts up to `Threshold`, beyond
which nothing changes.

### Payments and PaymentLedger

`page`, `flow` and `goods` are what is on the screen; `redux` is the payment part of the store and `kept` its copy
in `sessionStorage`, together with the redirect session of a deposit and `payment.vRef`.  `goods` stands for the
invoices, or the deposit, that are paid for.  A handler is a record in `tasks` that survives its page but
not its document; `at` says which call it waits for.  `wire` holds the requests that move money with
what has become of each at SAP or Stripe, `books` the bookings in order.  `acts` is history: each press of a pay
button and each opening of a return page.

| code | definition |
|---|---|
| `makePayment`, `makeDeposit`, `handleSchedulePayment` | `Press`, then `TokenIssued`, `CheckPasses` or `CheckChallenges`, `AuthAnswered`, `PostAnswered` |
| `executeStripePayment`, `executeStripeDeposit` | `Press("stripe")`, `StripeMissing` (the second address after a 404), `StripeAnswered`, `Confirmed`, `ConfirmSkipped` |
| their error paths | `TokenFails`, `CheckFails`, `AuthFails`, `PostLost`, `StripeLost`, all through `Fail` |
| `ProcessingPaymentPage`, `ProcessingDepositPage`, the return half of `SchedulePayment` | `Mount`, by `IssuerReturns`, `Back` or `Reload` |
| `cleanupPaymentFlow`, `cleanupDepositFlow`, `clearURLparamsAndState` | `CleanUp`, `ForgetSchedule` |
| `EpayLoadingProvider`, `withOptionalGlobalLoader` | `loading`, `Reachable` |
| `PaymentManager`, Stripe | `HostHandles`; `StripeHandles`, `StripeDecides` |

`PaymentLedger` knows neither pages nor calls: something is asked (a press, the return it leads to, a
return page opened again), and is booked at most once, a press and its return once between them.  The
mapping of `Payments` is `asked <- acts` without the flow, and `crossed` and `books` as they are
(`LedgerKept`).  Two weaknesses of the code are visible as exceptions of the ledger.  A return page opened
again by Back or Reload (`again`) may book once more.  And the form is kept from a second press by
the loading overlay only, because `handlePayment` resets its own flag as soon as the handler is started
(`usePaymentExecution.ts:1045-1055`); a key may get through the overlay (`crossed`, only where
`Keyboard` is TRUE), and then the return page may pay for something other than what was pressed.

An answer is not the same as what became of the request.  `PaymentManager.MakePayment` answers with an error only when SAP's
status is "E", so an answer of SAP without a status is passed on as a success, and `usePostPayment` takes any 200 without
an error for one; the page of a scheduled payment insists on an "S".  `PostAnswered` therefore has answers that are `unclear`: a payment or a
deposit then shows a success receipt, and a scheduled payment an error, whether SAP has booked or refused.  A Stripe intent that
is still pending gets a success receipt too.  So a receipt says that no error was reported, not that something is booked, and no
property speaks of receipts.

`executeStripePayment` and `executeStripeDeposit` post the same charge to `/api/stripe/payment-intent` when `/api/stripe/payment`
answers 404 (`usePaymentExecution.ts:528-538`, `636-646`).  No handler of the host answers 404 to such a request, so one that is
answered so (`"missing"`) has not been handled by anybody.  `OneChargePerAct` says that this is the only case of a second request.

### BrowserSession

`cookie` is a session number, `owner` whose the sessions are.  `heap` is one document: the user shown, whether the
session is known, the maintenance marker, the services that have handled a 401, and the current service's cached anti-forgery
token and request for one.  A change of language makes a new `DotNetService` (`ChangeLanguage`), with its own flag and token; the calls of the
former one are still answered.  `calls` are on their way and are answered in any order; the cookie changes when an answer
arrives (`Settle`).  `Renew` is the sliding refresh, which may go with any answer.  A token is bound to the session it was
issued to, because the host's tokens are bound to the claims of the principal.  `frozen` is the document before this
one, which the back-forward cache may bring back (`Back`), with its maintenance marker reset.

| code | definition |
|---|---|
| `fetchFn`, `getCsrfToken`, `clearCsrfToken` | `Issue`, `FetchAnswered`, `Served`, `Cached`, `ClearToken` |
| `AuthSessionBootstrap` | `Open`, `AskAgain` (its effect runs again), `TurnBack`, `Abandoned`, the `"session"` calls |
| `handleSubmit` of the login | `Submit`, `LoginAnswered`, and for an administrator the `"check"` call |
| `logout`, `useEpayIdleTimer` | `Start`, `IdleOut`, `WithoutSession` |
| `onUnauthorized` and its handler | `Unauthorized`, `Navigate`, `Replace` |
| `handleMaintenanceStatusPayload`, `MaintenanceProvider` | `Maintained`, `FetchMaintained`, `Leaves`; `Noticed` |
| `AuthController`, `AuthenticatedMaintenanceMiddleware` | `Answered`, `Refused`, `LoginAnswered`, `LogoutAnswered`; `ShutOut` |

An administrator's login sets the cookie and then waits for the check of the e-mail templates (`LoginPage.tsx:205-216`) before the page
shows the user; when that call fails the page shows nobody and the cookie stays.  A call that the bootstrap has
abandoned counts as a read: nobody waits for it, and its 401, or the renewal in its answer, still takes effect.

In a maintenance window the host takes a customer's cookie away and the page leaves (`Leaves`); while the marker of
`maintenance.ts` is set the handler of a 401 stands down.  The marker is set together with a navigation, except when sessionStorage says that
a redirect to the page of an outage is under way already: then the document stays, marked, and reacts to no 401 any more.  `stuck` records that, and
`HandlerArmed` excepts it.

Four simplifications: an answer with `maintenance_active` that arrives on the login page itself is an `Unauthorized`; a
login that is refused since the user is locked, or a maintenance window is on, is a `Lost` call; the login form can be used again after a 503, although
the page leaves; and of the documents that could be gone back to, only one within the bound `MaxOpens` is kept.  The idle timer and the expiry
of a session may strike at any instant.

### InvoiceList

`schedule` is SAP's table.  `listed` and `selected` hold copies of rows as the page got them, so that a copy may be older
than the table.  `asked` are the list requests under way: a page asks whenever the account, or
the accounts related to it, change, and the answers come in any order.  The header may switch the account at any
instant (`Switch`, `SwitchElsewhere`), the user acts only while the overlay is down (`Idle`).  Nothing stops the
browser's Back: it leaves the list while deletions are under way (`Away`), and `deleteAndProceed` goes on without its page and
opens the payment page from wherever the user is by then (`plan`, `Proceed`).  Another page that is shown meanwhile may have cleared the store (`cleared`).

| code | definition |
|---|---|
| `getData` and the effect that calls it | `Ask`, `Refresh`, `Answered`, `Failed` |
| `filterInvoices`, `updateFilters` | `View`, `Filter`, `FilterNone` |
| `EpayDataTable` | `Chosen`, `ClickRow`, `ClickAll` |
| `handlePay`, `handleSelectedInvoicePay` | `PayAll`, `PayInvoice`, `Warnings` |
| `deleteAndProceed`, `deleteScheduledPaymentsIfAny` | `Confirm`, `Deleted`, `DeletionFails`, `Proceed`, `Go` |
| `applySelectedAccount`, `fetchAccounts` | `Switch`, `SwitchElsewhere` |
| the mount effects of `InvoicesPage` and other pages | `Mount`, `Leave`, `Away`, `Unmount`, `Cleared` |

A deletion has three ends.  It is applied and answered, or it fails, applied or not, or SAP refuses it: then
`DeleteScheduledPayment` answers 200 with SAP's status (`PaymentController.cs:312-314`), and the page, which looks for `error` in the answer
(`EpayPaymentService.ts:996-1011`), takes it for a success (`Deleted` with `applied` FALSE).  The payment page then opens with the schedule in
place; `refused` records it.  The payment page that the browser's Forward brings back is not modelled.

An answer carries the table as it is when it arrives; one that is older than that differs from it by a
change that happened on the way and is no other behaviour of the page.  It is assumed that every
account has related accounts, without which the page does not ask again.

## The runs

`tlc -config X.cfg M`.  The bounds of an instance are in its cfg; a `None` is the model value None.

| run | question | instance | states | result |
|---|---|---|---|---|
| `JwtAnyFault` | Is a cached kid always beside its key? | two rotating replicas, any one fault | 1.3 million | holds |
| `JwtRetire` | Does a replaced key stop signing, and stop being accepted, in time? | two rotating replicas, legacy record, one crash, exception or empty answer | 2.4 million | holds |
| `JwtDaily` | In an orderly deployment: are tokens accepted for their guaranteed time, keys rotated in time, replaced keys kept until their window is over, live keys not bootstrapped over? | one rotating replica, no faults, two rotations, tokens and forced refreshes at any instant | 2.6 million | holds |
| `MntHost` | How old can an enforced configuration be? Do refreshes overlap or get blocked? Does every outage end for the users? | one replica, all its threads, two faults of any kind, fairness | 1.1 million | holds |
| `PayFlows` | Is anything paid twice, or something else than was asked for? Does an old vRef go out? Does the loader count right? | three acts, two sets of goods, payments with schedules or deposits, with and without 3-D Secure | 2.2 million | holds |
| `PayEnds` | Can more than one request of an act move money? Does every handler end, or wait for the issuer's check or the card holder? Is the return page left? | two acts, all flows and ways to pay mixed, Stripe with its second address, keyboard, fairness | 0.7 million | holds |
| `SesPages` | Does what is shown agree with the cookie? Can a page that stays react to the end of its session? Does a write act for its user? Is the session always found out? | a customer and an administrator, three sessions, four calls, one opened document, one change of language, fairness | 1.9 million | holds |
| `InvPay` | Does the payment page have what was pressed for, out of its schedules, of the account that pays? | three documents of two accounts, two schedules, three list requests, symmetry | 3.8 million | holds |
| `JwtCleanUpRace` | Does the clean-up only delete what is over? | no faults | | violated |
| `JwtRebootstrap` | Is a live key safe from a bootstrap? | one empty answer | | violated |
| `MntSavedLost` | Is a saved configuration enforced at once where it was saved? | no faults | | violated |
| `SesRenewal` | Is the renewal of a session transparent to the page? | one user, two sessions, three calls | | violated |

### Bounds

*Keys.*  Two replicas are enough for every race here, since a replica interacts with the others only
through the store, and in each pair one writes and one reads or both write.  Two random keys give
two rotations in a row, so that a key can be active, previous and gone.  One fault per behaviour, at any
point, is followed by fault-free repair, which is where the wrong conclusions would be drawn.
`MaxNow` lets the longest of the windows open and close after the second rotation (in `JwtDaily` the rotation
period is cut from 24 hours to 4, and the overlap window is three ticks, so that the time `TokenGuarantee` speaks of is two).  Operations take no tick (`MaxOpTicks` is 0),
though they interleave; those that span ticks are covered by the theorems.

*Maintenance.*  `MaxNow` covers an edit, its propagation and one refresh after it; `CacheLife` (48 hours)
is the least the assumption allows.  Operations here take no tick and there is one replica: operations that
span ticks, and other replicas' edits, are covered by the theorems, which hold for any `MaxOpTicks` and any
set of replicas.

*Payments.*  `MaxActs` counts presses and openings of return pages.  Three acts give a press, its return and a reload of it,
or an abandoned authentication, another press and its return, which is where something old can go out.
Two sets of goods distinguish old from new.  `Trips` bounds which flows one behaviour mixes; payments and schedules share
`mappedInvoices` and `payment.vRef` and are mixed, deposits have slots of their own.  All of them are mixed in `PayEnds`.

Stripe's cards are in `PayEnds` only, where three requests of two acts may meet.

*Session.*  Four calls and one opened document allow a login, a write that waits for its token, a logout or an idle
logout and a second login with a late answer among them, or the login of an administrator with its check beside a late logout.  A change of language,
and each time the bootstrap asks again, counts as a call; going Back counts as an opened document.  One user is a customer, whom a maintenance window
shuts out, one an administrator.

*Invoices.*  Two documents of one account and one of the other, with any assignment of two schedules, so that two
documents may be in one schedule or in two; three requests give two late answers.  The two schedules, and the two documents of
the one account, are interchangeable (`Alike`): no definition tells them apart.

### Exceptions in the properties

A property that speaks of a history variable, or of a special case, names a hole of the code rather than hiding it:

* `TokenGuarantee`: `Behind`, the limit on forced refreshes at a replica whose cached state was dropped or may have been read before the
  token was signed.
* `OnePressAtATime`, `VrefOfToken`, `LedgerKept`: `crossed`, a key through the overlay.
* `VrefOfToken`, `LedgerKept`: `again`, a return page opened again by Back or Reload.
* `VrefOfToken`: a token that was issued without a vRef.  Its return page takes the vRef from the storage, where an authentication
  that the user gave up may have left one, and posts that.
* `ShownIsCookie`, `WriteActsForItsUser`: `revived`, a renewal answered after its session has ended, which puts a cookie back (in
  `EndedStaysEnded` it clears `ended`).
* `ShownIsCookie`, `EndedStaysEnded`, `HandlerArmed`, `WriteActsForItsUser`: `thawed`, a document brought back by the back-forward cache, whose session may be over and
  whose 401 has been handled.
* `EndedStaysEnded`: a logout that is answered while an administrator's login is being completed does not count as an end
  (`Completing`): the page goes on to show the administrator, without a cookie, until the next call.
* `HandlerArmed`: `stuck`, a document marked for a maintenance redirect that never began.
* `PaidAsPressed`: `cleared`, another page has cleared the store while the payment waited for deletions, and the payment page opens empty.
* `PaidAreDescheduled`: `refused`, SAP has refused the deletion and the page was not told; `overlooked`, a selected
  document whose schedule no row on the screen shows, so that no warning is given.
* `PaidByOwner`: `carried`, the account changed under a selection; `late`, the list of another account was answered last.

Each of these states is reachable in the runs.  No comment or test of the repository promises otherwise, so they are
listed here and not as violations, with one exception.  The warning says that the schedule "must be deleted" for a manual payment
(`SchedulePaymentWarningDialog.tsx:91`), and a refused deletion is a way past it; `PaidAreDescheduled` without `refused` is violated.

### Fairness

* `Maintenance`: threads that have begun go on (they await calls that end or time out), an outage ends, and the host
  goes on calling SAP.  The last is what the code relies on: while it believes SAP is down no request starts a
  background refresh, and what finds out is the probe of the unavailable page (`ServiceUnavailablePage.tsx`), an
  administrator or the key refresh.
* `Payments`: a handler that waits for a `fetch` goes on, because a `fetch` settles, with an answer or an error.  Two steps are no
  fetches and have no fairness (`AwaitsOthers`): the check, which the card issuer's plugin answers by a callback (`EpayPaymentService.ts:311-324`), and
  `stripe.confirmCardPayment`, which waits for the card holder (`usePaymentExecution.ts:558-563`).  `HandlersEnd` says that a handler ends or
  comes to wait for one of them; the loader's overlay stays until they answer.  Nothing is assumed of the host or the user.
* `BrowserSession`: as long as calls are under way one of them is answered or lost, and a navigation that was begun arrives.

The safety runs of `JwtKeys`, `JwtTokens` and `InvoiceList` need none.  Deadlock is checked in every run but `SesPages`
and `SesRenewal`, where the bounds on calls and documents may leave the user with nothing to do.

## What the violations say

* `JwtCleanUpRace`: the lazy clean-up (`JwtKeyManager.cs:195-198`) deletes the previous key on the
  strength of a read that another replica's rotation has outdated.
* `JwtRebootstrap`: an error body is read as "no values", and no values as "first run": the live key is
  overwritten by the bootstrap key.
* `MntSavedLost`: a refresh that read before an edit and answers after it puts the old
  configuration back, and marks it fresh.
* `SesRenewal`: `Program.cs:461` calls the renewal "transparent to the frontend", but an anti-forgery token
  is bound to the claims of the session it was issued to, the page keeps the token until a login or a logout, and so
  the first write after a renewal is refused with 400.

Four more observations have no run.  The overlap window is the token lifetime plus five minutes
(`JwtKeyManager.cs:17`), but a replica may sign with the replaced key for the 30 minutes its cache lives:
`TokenGuarantee` in `JwtDaily` states what does hold, overlap window less cache lifetime and two operations, with the limit on forced refreshes as its one exception.  Where two
replicas rotate, as the log message of `JwtKeyRotationService.cs:58` expects, the guard of `RotateKeysAsync` does not keep them
apart: both may pass it and replace each other's key, and the key of the first is then never stored as the previous one.
`JwtDaily` with `Rotators = {r1, r2}` and `MaxMinted = 3` (and without the assumption of `MCJwtTokens`) violates `ReplacedKeyKept` and `TokenGuarantee`.
`src/README.md:407` names 24 hours as the default of the rotation interval; the service does not rotate at all without a value
(`JwtKeyRotationService.cs:22-26`).  And one refused
Salesforce token request is marked twice against a threshold of two (`SalesforceHttpClient.cs:139`), so a single
failed call makes the site unavailable until the next success, which `AvailableAgain` covers.

## What is proved

All theorems hold for every value of the constants that satisfies the assumptions named in the modules.  Each safety
theorem has the same shape: an inductive invariant, the property as a consequence of it, and one step per
action.

`JwtKeysProofs`, for any sets of replicas and rotators, any time constants and bounds, and any faults:

* `TypeCorrect`: `Spec => [](TypeOK /\ ViewReady)`.  `ViewReady` says that a refresh about to clean up or
  publish holds an active key; without it the types are not inductive, as a publication copies
  the view into the cache.
* `KidsAlwaysMatch`: `LegacyStore = FALSE => (Spec => []KidsMatchKeys)`.  The caches are filled from
  views, views from the store, the store from jobs and jobs from the store again, so the inductive
  invariant `KidsInv` says of all four (`StoreKids`, `ViewKids`, `JobKids`, `CacheKids`) that each kid is
  beside the key generated under it, and that key 0 is v1.  The argument is that every write puts a whole
  pair into one field.  The assumption is needed: the kid of a legacy record is in a field of its own, and a
  rotation writes that field first.

`JwtRetireProofs`, for any sets of replicas and rotators and any time constants and bounds:

* `SigningStops`: `Spec => []RetiredKeyStopsSigning`, through any faults.
* `VerifyingStops`: `"silent" \notin Faults /\ CacheTtl <= OverlapWindow => (Spec => []RetiredKeyStopsVerifying)`.

  All of it is one claim about each place where a key is held, `Since(k, t)`: `k` is the stored active key, or it was
  replaced no earlier than `t`.  A replacement gives the replaced key the time `now`, so no step can break the claim for a `t`
  in the past.  The instants are those of the code: a view and a job hold a key that was active when their operation began
  (`ViewSince`, `JobSince`), and a cached state one that was active an operation before it was cached (`CacheSince`),
  because `until - CacheTtl` is when that was.  `PreviousOk` says of a previous key, in the store, in a view or in a cache, that its expiry is
  at most the overlap window and two operations after its replacement.

  The attempt to prove this corrected the property.  It was stated with one operation, which the runs could not
  refute, as their operations take no time; TLC refutes it with `MaxOpTicks = 1`.  A rotation that read the key before it was
  replaced may store it as the previous one an operation later, and a second rotation under way by then dates it, up to
  another operation later.  Both assumptions of `VerifyingStops` are needed.  A refused write that goes unnoticed leaves the old previous key
  beside a new expiry.  And a cached key counts as accepted for as long as it is cached, whatever its window.

`JwtScheduleProofs`, for any number of replicas in the deployment that `OrderlySchedule` describes, and any bounds:

* `RotationKeepsPrevious`, `CleanUpWaits`, `BootstrapsOnce`: the action properties `ReplacedKeyKept`, `CleanUpOnlyExpired` and
  `BootstrapOnlyOnFirstRun`.  The last two are what `JwtCleanUpRace` and `JwtRebootstrap` violate, so the theorems say what these
  violations need: a rotation that is due before the clean-ups of the last one are over, several rotators or a fault.

  The inductive invariant `DailyInv` is an argument about time, in ten layers.  Only the rotator rotates, and nothing is loaded before the first
  bootstrap (`FirstRun`).  A bootstrap that is still under way began before anything that is stored, loaded or cached was created
  (`Booting`), so that no rotation can be due beside it.  Kids count the keys (`Numbering`).  A rotation finds at each of its
  writes what it has written before, as no clean-up runs beside it (`Rotation`, `Overlap`).  That is so because a clean-up begins
  between the expiry and the first tick after it by which every cached state of the time before has gone (`Cleaning`, `Reading`,
  `Timing`), and a rotation only when the active key is older than all of that (`Age`).  `Timing` holds because the due test of the service loads a state at
  each tick of the timer, and `Age` because the creation time in that state is the stored one, unless the stored key is younger than the state.
  `Signers` is about tokens: a cached active key is stored, or in its window, for as long
  as its cache entry lives.  The layers depend on each other, and the proof reduces each step of `Next` to what it does to the fields first
  (`NextDaily`).

`JwtTokensProofs`:

* `TokenTypeCorrect`: `TokenSpec => []TokenTypeOK`, without the hypothesis of a schedule.
* `TokensAccepted`, `KeysRotated`: in that deployment `TokenGuarantee` and `KeyAgeBounded` hold always, for any number of replicas.
  `Signed` says that the youngest token of each key is `Good`: its key is stored as the active one, or as the previous one with an expiry
  that covers the guarantee, or the guarantee is over.  So a replica that looks the key up finds it.  For one that
  may not look it up `Informed` follows the reads: what a refresh has read since the token was signed knows the key, and so does a cached state whose
  entry lives too long to come from an earlier read.

`MaintenanceProofs`, for any replicas, configurations, faults and bounds, and any time limits such that
a cache entry outlives the TTL by more than the longest operation (`TimeAssumption`; in the code 48 hours
against five minutes and the SAP timeouts):

* `MaintenanceTypes`: `Spec => []TypeOK`, by way of `EditReady`.
* `RefreshesAlone`: `Spec => []OneRefreshAtATime`.
* `FreshAlwaysCached`, `StalenessBound`, `WindowEnforced`: `FreshMeansCached`, `StaleCopyBounded` and
  `MaintenanceEnforced` hold always.  None of them is inductive: a copy is stored and stamped in two
  steps, and between them other threads of the replica store and stamp theirs.  What orders them is the
  expiry of the memory-cache entry, because `expires[r] - CacheLife` is the instant it was last set.
  `ThreadOk` says that what a thread has read was in SAP when, or after, it began, and that the entry
  has been set since a thread that has stored began.  `CopyOk` says that a copy is stamped at most one
  operation after its entry was set, and that the entry of a copy that differs from SAP's was set at
  most one operation after SAP changed.  These are the two operations in the bounds.  That an
  operation takes at most `MaxOpTicks` stands for the timeouts of `SapHttpClient`.

`PaymentsProofs`, for any goods, ways to pay and mixtures of flows and any number of acts:

* `PaymentTypes`, `LoaderNeverStuck`, `OnePress`, `OneCharge`, `VrefNeverStale`: `TypeOK`,
  `LoaderBalanced`, `OnePressAtATime`, `OneChargePerAct` and `VrefOfToken` hold always.
* `LedgerRefined`: `Spec => LedgerKept`, the refinement: initial states are initial, a step asks, books, crosses or
  stutters.

  The invariant says of each handler that it carries the goods, the flow and the token of its act (`DeedInv`) and that it
  has sent nothing before its last stage, and that every request of an act but its latest was answered 404 (`RequestInv`); of each booking that it was requested
  (`BookInv`); of each return page which press it is of (`ChainInv`), and that this press is over: it has no handler and no
  request, and only one first return (`OverInv`).  `OverInv` is what makes a press and its return be booked once between
  them: the handler that sent the tab to the issuer has died with its document before it could post.  `ScreenInv` relates
  the page to the two copies of the store and, as long as no key got through the overlay, `StoreInv` says that the storage
  holds what the press under way, or the return page it led to, will post.

`BrowserSessionProofs`, for any users, sessions and calls: `SessionTypes`, `ShownMatchesCookie`, `EndIsFinal`, `AlwaysArmed`,
`WritesForTheirUser`, for all safety properties of `SesPages`.  The invariant says that a document that does not know
its session has one call that asks for it, beside those it abandoned, and that the cookie remains of one user behind that call (`OnlyBootstrap`,
`BootstrapAskedNow`), and likewise behind the check of an administrator's login (`CheckOfCookie`); that there is one login at a
time, its check included, without an idle logout (`LoginForm`); that nothing under way brings an ended session back (`EndedForGood`); that a document in which a
service has handled a 401 is being left, and one that is marked is left or stuck (`HandledLeaves`); and that
a write waits for a token of the cookie it will be sent with, which is of its user (`WaitsWithCookie`, `WriteOfUser`).

`InvoiceListProofs`, for any documents, owners, accounts and schedules and any number of requests: `ListTypes`,
`PaidIsPressed`, `SchedulesDeletedFirst`, `OwnersPay`, for all properties of `InvPay`.  `Waiting` says that deletions are waited for
without a dialog, that nothing waits behind a payment page, and that a page that is not shown holds nothing.  `AsPressed` says that the opened invoice, or
the store without one, is what was pressed for as long as a warning or a deletion is pending, unless another page cleared the store.  `Covered` says that
each schedule of what was pressed for is gone or refused, or in the warning, or in a deletion under way.  `Owned` and
`OwnedPlan` carry the owner from the list to the selection, to the pending payment and to the payment page.

Every safety property of a passing run is thus proved.  Model-checked only are the liveness properties `AvailableAgain`,
`HandlersEnd`, `ReturnPageLeft` and `BootstrapResolves`, since TLAPS does not prove liveness under fairness.

## Not modelled

* Most of the 70,000 lines of the browser application are pages, forms and tables: rendering, translation, column
  definitions and styles, with one request each and no state that outlives it.  The parts with a protocol of their
  own are the payment flows, the session and the invoice list, and the map covers those; it stays a small share of
  the lines for that reason.
* In the payment flows: amounts, currencies and partial payments, the AVS pre-authentication of some cards, saving of
  cards, the guest pages, and the Chronarpay and hosted-card dialogs.  `InvoiceHistoryPage` and the invoice detail page lead
  to the payment page along the same pattern as `InvoicesPage`.
* Amounts deserve a model of their own, and reading the code for it shows why: the page displays and gates on the open
  amounts plus credits and overpayments (`Payments.tsx:251-277`), while `executeStripePayment` charges `paymentTotal`, the
  sum without either (`usePaymentExecution.ts:496-501`), and SAP gets each row's own amount.  This comes from reading; no run
  shows it, and no document says which of the amounts is meant.
* A Stripe intent that is pending is taken for a payment by the page; the endpoint that would tell how it was decided
  (`StripeController.cs:168`) is not called.  It is in the model, but no property states more than the code.
* The failure count behind the login lock, and concurrent changes of a user record: they are kept by Salesforce code that is
  not in the repository.
* AppValues other than keys and maintenance, and the Salesforce access token shared by many requests.
* The policy check of the host (`PaymentPolicy.cs`) and the payer resolution: computations on one request.
* Several tabs.  They share the cookie and `localStorage`, and each is a `BrowserSession` of its own in which the cookie changes
  under it.
* Rendering of e-mails, mappings of SAP and Salesforce records, generated code and styles.

Next would come the amounts of a payment, several tabs over one cookie, the AVS pre-authentication, and what a schedule with several
rotators does keep.
