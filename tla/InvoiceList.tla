---------------------------- MODULE InvoiceList ----------------------------
(***************************************************************************)
(* The home page with the open invoices of the selected account, up to the *)
(* payment page.  The list is asked for again whenever the account or the  *)
(* accounts related to it change, and the answer that comes last stays.    *)
(* Filters hide documents; the selection keeps copies of the rows as they  *)
(* were when they were clicked, hidden or not, until a click replaces it   *)
(* by what is shown.                                                       *)
(*                                                                         *)
(* A document may be in a scheduled payment.  To pay it by hand its        *)
(* schedule must be deleted first: the page warns, and then deletes the    *)
(* schedules one request each, all at once.  A deletion that SAP refuses   *)
(* is answered like one that was applied.  While a call is under way an    *)
(* overlay stops the user, but not the header, which loads the accounts    *)
(* and may switch to another one, and not the browser's Back: the handler  *)
(* that waits for the deletions outlives its page.                         *)
(***************************************************************************)
EXTENDS Integers, FiniteSets

CONSTANTS
    Docs,
    Accounts,
    Owner,       \* the account of each document
    Schedules,
    MaxReads,    \* bound: the list requests of one visit of the page
    None

ASSUME OwnerAssumption == Owner \in [Docs -> Accounts]
ASSUME BoundAssumption == MaxReads \in Nat \ {0}

VARIABLES
    schedule,    \* SAP: the schedule of each document, or None
    page,        \* "list", "payment" or "other"
    account,     \* the selected account, which is also the payer
    asked,       \* the list requests without an answer
    reads,       \* how many there have been in this visit
    listed,      \* invoices: copies of the documents of the last answer
    hidden,      \* the documents the filters keep out
    selected,    \* selectedDocs: copies
    opened,      \* selectedInvoice: the copy in the invoice dialog, or None
    dialog,      \* "none", "invoice" or "warning"
    warned,      \* scheduledInvoices: the copies the warning names
    store,       \* the store's selectedInvoices, which the payment page takes
    plan,        \* the payment that waits for deletions: its payer and invoice, or None
    deleting,    \* the deletions without an answer, by the copy they are for
    paid,        \* what is on the payment page: [docs, payer], or None
    pressed,     \* history: what the latest press of a pay button was for
    overlooked,  \* history: copies of that press whose schedule no shown row has
    refused,     \* history: schedules whose deletion SAP has refused since
    cleared,     \* history: a page has cleared the store while a payment waited
    carried,     \* history: the account changed under a selection
    late         \* history: the list of another account was taken

lists == <<account, asked, reads, listed, hidden>>
choice == <<selected, opened>>
press == <<pressed, overlooked, refused, cleared>>
history == <<press, carried, late>>
vars == <<schedule, page, account, asked, reads, listed, hidden, selected, opened, dialog, warned,
          store, plan, deleting, paid, pressed, overlooked, refused, cleared, carried, late>>

Copies == [doc : Docs, sched : Schedules \cup {None}]
Reads == [id : 1 .. MaxReads, account : Accounts]
Payments == [docs : SUBSET Copies, payer : Accounts]
Plans == [payer : Accounts, opened : Copies \cup {None}]

ASSUME NoneAssumption ==
    None \notin Schedules /\ None \notin Copies /\ None \notin Payments /\ None \notin Plans

\* filteredInvoices
View == {c \in listed : c.doc \notin hidden}
Chosen(c) == \E s \in selected : s.doc = c.doc
\* The overlay is down, and no dialog covers the list.
Idle == page = "list" /\ asked = {} /\ deleting = {}
AtList == Idle /\ dialog = "none"

Init ==
    /\ schedule \in [Docs -> Schedules \cup {None}]
    /\ page = "list" /\ account \in Accounts
    /\ asked = {[id |-> 1, account |-> account]} /\ reads = 1
    /\ listed = {} /\ hidden = {} /\ selected = {} /\ opened = None
    /\ dialog = "none" /\ warned = {} /\ store = {} /\ plan = None /\ deleting = {} /\ paid = None
    /\ pressed = {} /\ overlooked = {} /\ refused = {} /\ cleared = FALSE
    /\ carried = FALSE /\ late = FALSE
------------------------------------------------------------------------------
(* The list.                                                               *)

\* What the page holds goes with it.
Unmount ==
    /\ asked' = {} /\ reads' = 1 /\ listed' = {} /\ hidden' = {}
    /\ selected' = {} /\ opened' = None /\ dialog' = "none" /\ warned' = {}

\* History goes on while a payment waits.
Cleared ==
    /\ store' = {} /\ cleared' = (plan # None)
    /\ IF plan # None THEN UNCHANGED <<pressed, overlooked, refused, carried, late>>
       ELSE /\ pressed' = {} /\ overlooked' = {} /\ refused' = {}
            /\ carried' = FALSE /\ late' = FALSE

\* The page is shown anew: it clears the store and asks.
Mount(a) ==
    /\ page' = "list" /\ account' = a
    /\ asked' = {[id |-> 1, account |-> a]}
    /\ Cleared /\ paid' = None
    /\ UNCHANGED <<schedule, reads, listed, hidden, choice, dialog, warned, plan, deleting>>

Leave == page # "list" /\ Mount(account)

\* Back, which nothing stops, to another page; that of the scheduled payments clears the store too.
Away ==
    /\ page = "list" /\ page' = "other"
    /\ Unmount
    /\ Cleared \/ UNCHANGED <<store, history>>
    /\ UNCHANGED <<schedule, account, plan, deleting, paid>>

Ask(a) ==
    /\ page = "list" /\ reads < MaxReads
    /\ reads' = reads + 1
    /\ asked' = asked \cup {[id |-> reads + 1, account |-> a]}

\* The related accounts have changed: the same list is asked for again.
Refresh ==
    /\ Ask(account)
    /\ UNCHANGED <<schedule, page, account, listed, hidden, choice, dialog, warned, store,
                   plan, deleting, paid, history>>

\* applySelectedAccount leads back from the payment page, a switch by the header's loader does not.
SwitchElsewhere(a) ==
    /\ page # "list" /\ a # account
    /\ \/ page = "payment" /\ Mount(a)
       \/ /\ account' = a
          /\ UNCHANGED <<schedule, page, asked, reads, listed, hidden, choice, dialog, warned,
                         store, plan, deleting, paid, history>>

\* On the list the account changes under whatever is selected or open.
Switch(a) ==
    /\ a # account /\ Ask(a)
    /\ account' = a
    /\ carried' = (carried \/ selected # {} \/ opened # None)
    /\ UNCHANGED <<schedule, page, listed, hidden, choice, dialog, warned, store, plan,
                   deleting, paid, press, late>>

\* The filters are set back to one of the currencies of the answer.
Answered(r, h) ==
    /\ asked' = asked \ {r}
    /\ listed' = {[doc |-> d, sched |-> schedule[d]] : d \in {d \in Docs : Owner[d] = r.account}}
    /\ hidden' = h
    /\ late' = (late \/ r.account # account)
    /\ UNCHANGED <<schedule, page, account, reads, choice, dialog, warned, store, plan, deleting,
                   paid, press, carried>>

\* Mutant: an error leaves the list as it is.
FailedKeeps(r) ==
    /\ asked' = asked \ {r}
    /\ UNCHANGED <<schedule, page, account, reads, listed, hidden, choice, dialog, warned, store,
                   plan, deleting, paid, history>>

Failed(r) ==
    /\ asked' = asked \ {r}
    /\ listed' = {}
    /\ UNCHANGED <<schedule, page, account, reads, hidden, choice, dialog, warned, store, plan,
                   deleting, paid, history>>
------------------------------------------------------------------------------
(* Filters and selection.                                                  *)

\* updateFilters: what is hidden stays selected, what is shown is copied anew.
Filter(h) ==
    /\ AtList
    /\ hidden' = h
    /\ LET results == {c \in listed : c.doc \notin h} IN
       selected' = {s \in selected : \A c \in results : c.doc # s.doc}
                       \cup {c \in results : Chosen(c)}
    /\ UNCHANGED <<schedule, page, account, asked, reads, listed, opened, dialog, warned, store,
                   plan, deleting, paid, history>>

\* A filter without sub-accounts hides everything and clears the selection.
FilterNone ==
    /\ AtList
    /\ hidden' = Docs /\ selected' = {}
    /\ UNCHANGED <<schedule, page, account, asked, reads, listed, opened, dialog, warned, store,
                   plan, deleting, paid, history>>

Select(s) ==
    /\ AtList
    /\ selected' = s
    /\ UNCHANGED <<schedule, page, lists, opened, dialog, warned, store, plan, deleting, paid,
                   history>>

\* handleRowSelection, handleSelectAll: of the rows that are shown.
ClickRow(c) == Select({v \in View : IF v = c THEN ~ Chosen(v) ELSE Chosen(v)})
ClickAll(checked) == Select(IF checked THEN View ELSE {})
------------------------------------------------------------------------------
(* From the list to the payment page.                                      *)

\* The payment page takes its documents from the store.
Go(payer) == page' = "payment" /\ paid' = [docs |-> store', payer |-> payer] /\ Unmount

OpenInvoice(c) ==
    /\ AtList
    /\ opened' = c /\ dialog' = "invoice"
    /\ UNCHANGED <<schedule, page, lists, selected, warned, store, plan, deleting, paid, history>>

\* Mutant: the dialog stays open without its invoice.
CloseInvoiceHalf ==
    /\ Idle /\ dialog = "invoice"
    /\ opened' = None
    /\ UNCHANGED <<schedule, page, lists, selected, dialog, warned, store, plan, deleting, paid, history>>

CloseInvoice ==
    /\ Idle /\ dialog = "invoice"
    /\ opened' = None /\ dialog' = "none"
    /\ UNCHANGED <<schedule, page, lists, selected, warned, store, plan, deleting, paid, history>>

\* History begins anew with each press of a pay button.
Pressed(docs, unseen) ==
    pressed' = docs /\ overlooked' = unseen /\ refused' = {} /\ cleared' = FALSE

\* handleSelectedInvoicePay
PayInvoice ==
    /\ Idle /\ dialog = "invoice"
    /\ Pressed({opened}, {})
    /\ IF opened.sched # None
         THEN /\ warned' = {opened} /\ dialog' = "warning"
              /\ UNCHANGED <<page, lists, choice, store, paid>>
         ELSE store' = {opened} /\ Go(account) /\ UNCHANGED account
    /\ UNCHANGED <<schedule, plan, deleting, carried, late>>

\* The shown rows in a schedule of a selected document.
Warnings == {v \in View : v.sched # None /\ \E s \in selected : s.sched = v.sched}

Unseen == {s \in selected : s.sched # None /\ \A v \in View : v.sched # s.sched}

\* Mutant: the invoice of an earlier dialog is not forgotten.
PayAllKeepsOpened ==
    /\ AtList /\ selected # {}
    /\ Pressed(selected, Unseen)
    /\ store' = selected
    /\ IF Warnings # {}
         THEN /\ warned' = Warnings /\ dialog' = "warning"
              /\ UNCHANGED <<page, lists, choice, paid>>
         ELSE Go(account) /\ UNCHANGED account
    /\ UNCHANGED <<schedule, plan, deleting, carried, late>>

(* handlePay: the documents of the selection go to the store, but only     *)
(* rows that are shown get a warning.                                      *)
PayAll ==
    /\ AtList /\ selected # {}
    /\ Pressed(selected, Unseen)
    /\ store' = selected
    /\ IF Warnings # {}
         THEN /\ warned' = Warnings /\ dialog' = "warning" /\ opened' = None
              /\ UNCHANGED <<page, lists, selected, paid>>
         ELSE Go(account) /\ UNCHANGED account
    /\ UNCHANGED <<schedule, plan, deleting, carried, late>>

Dismiss ==
    /\ Idle /\ dialog = "warning"
    /\ dialog' = "none"
    /\ UNCHANGED <<schedule, page, lists, choice, warned, store, plan, deleting, paid, history>>

\* deleteAndProceed, until its deletions are answered.
Confirm ==
    /\ Idle /\ dialog = "warning"
    /\ dialog' = "none"
    /\ deleting' = warned /\ plan' = [payer |-> account, opened |-> opened]
    /\ UNCHANGED <<schedule, page, lists, choice, warned, store, paid, history>>

Without(s) == [d \in Docs |-> IF schedule[d] = s THEN None ELSE schedule[d]]

\* What is left of the wait when no deletion has failed: the last one opens the payment page.
Proceed ==
    IF plan # None /\ deleting' = {}
      THEN /\ store' = IF plan.opened # None THEN {plan.opened} ELSE store
           /\ Go(plan.payer) /\ plan' = None /\ UNCHANGED account
      ELSE UNCHANGED <<page, lists, choice, dialog, warned, store, plan, paid>>

\* A refusal of SAP is answered 200 with its status, which the client takes for success.
Deleted(c, applied) ==
    /\ schedule' = IF applied THEN Without(c.sched) ELSE schedule
    /\ refused' = IF applied THEN refused ELSE refused \cup {c.sched}
    /\ deleting' = deleting \ {c}
    /\ Proceed
    /\ UNCHANGED <<pressed, overlooked, cleared, carried, late>>

\* Mutant: the page goes on when all deletions are answered, however they are (allSettled).
DeletionFailsUnnoticed(c, applied) ==
    /\ schedule' = IF applied THEN Without(c.sched) ELSE schedule
    /\ deleting' = deleting \ {c}
    /\ Proceed
    /\ UNCHANGED history

\* Promise.all: the first failure ends the wait, the other deletions go on.
DeletionFails(c, applied) ==
    /\ schedule' = IF applied THEN Without(c.sched) ELSE schedule
    /\ deleting' = deleting \ {c}
    /\ plan' = None
    /\ UNCHANGED <<page, lists, choice, dialog, warned, store, paid, history>>
------------------------------------------------------------------------------
Next ==
    \/ Leave \/ Away \/ Refresh
    \/ \E a \in Accounts : Switch(a) \/ SwitchElsewhere(a)
    \/ \E r \in asked : Failed(r) \/ \E h \in SUBSET Docs : Answered(r, h)
    \/ \E h \in SUBSET Docs : Filter(h)
    \/ FilterNone
    \/ \E c \in View : ClickRow(c) \/ OpenInvoice(c)
    \/ \E checked \in BOOLEAN : ClickAll(checked)
    \/ CloseInvoice \/ PayInvoice \/ PayAll \/ Dismiss \/ Confirm
    \/ \E c \in deleting, applied \in BOOLEAN : Deleted(c, applied) \/ DeletionFails(c, applied)

Spec == Init /\ [][Next]_vars
------------------------------------------------------------------------------
(* Properties.                                                             *)

\* Every variable has its type, a dialog has what it shows, and nothing waits behind the payment page.
TypeOK ==
    /\ schedule \in [Docs -> Schedules \cup {None}] /\ page \in {"list", "payment", "other"}
    /\ account \in Accounts /\ asked \subseteq Reads /\ reads \in 1 .. MaxReads
    /\ listed \subseteq Copies /\ hidden \subseteq Docs /\ selected \subseteq Copies
    /\ opened \in Copies \cup {None} /\ dialog \in {"none", "invoice", "warning"}
    /\ dialog = "invoice" => opened # None
    /\ warned \subseteq Copies /\ store \subseteq Copies /\ plan \in Plans \cup {None}
    /\ deleting \subseteq Copies /\ paid \in Payments \cup {None}
    /\ page = "payment" => paid # None
    /\ pressed \subseteq Copies /\ overlooked \subseteq Copies
    /\ refused \subseteq Schedules /\ cleared \in BOOLEAN
    /\ carried \in BOOLEAN /\ late \in BOOLEAN

(* What is on the payment page is what the pay button was pressed for:     *)
(* dismissed warnings, invoices opened before, changes of the account and  *)
(* a visit of another page while schedules are deleted do not put other    *)
(* documents there.  It is empty when a page has cleared the store while   *)
(* the payment waited for deletions.                                       *)
PaidAsPressed ==
    page = "payment" => paid.docs = pressed \/ (cleared /\ paid.docs = {})

(* SchedulePaymentWarningDialog.tsx:91: "In order to make a manual         *)
(* payment, the related schedule ID(s) must be deleted."  A schedule is    *)
(* left for a document on the payment page only if SAP refused to delete   *)
(* it or no row on the screen had it; a deletion that was lost or failed,  *)
(* one of several, keeps the documents off the payment page.               *)
PaidAreDescheduled ==
    page = "payment" =>
        \A c \in paid.docs \ overlooked :
            c.sched = None \/ c.sched \in refused \/ schedule[c.doc] # c.sched

(* The documents on the payment page are those of the account that pays,   *)
(* unless the account changed under a selection, which the page keeps, or  *)
(* the list of the former account was answered last.                       *)
PaidByOwner ==
    page = "payment" /\ ~carried /\ ~late =>
        \A c \in paid.docs : Owner[c.doc] = paid.payer
=============================================================================
