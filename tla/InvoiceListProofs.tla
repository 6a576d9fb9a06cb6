------------------------- MODULE InvoiceListProofs -------------------------
(***************************************************************************)
(* Proofs about the invoice list, for any documents, accounts, schedules   *)
(* and owners.                                                             *)
(***************************************************************************)
EXTENDS InvoiceList, TLAPS

------------------------------------------------------------------------------
(* The inductive invariant.                                                *)

(* Deletions are waited for without a dialog, a payment page waits for     *)
(* nothing, and a page that is not shown holds nothing.                    *)
Waiting ==
    /\ plan # None => page # "payment" /\ dialog = "none" /\ deleting # {}
    /\ dialog = "warning" => warned # {}
    /\ \A w \in warned \cup deleting : w.sched # None
    /\ page # "list" => /\ asked = {} /\ listed = {} /\ selected = {}
                        /\ opened = None /\ dialog = "none" /\ warned = {}

(* The documents a warning, or the deletions after it, are about are those *)
(* pressed for, unless they were in the store only and it was cleared.     *)
Pending(one) == IF one # None THEN {one} ELSE store
AsPressed ==
    /\ dialog = "warning" => Pending(opened) = pressed
    /\ plan # None => \/ Pending(plan.opened) = pressed
                      \/ cleared /\ Pending(plan.opened) = {}
    /\ page = "payment" => paid.docs = pressed \/ (cleared /\ paid.docs = {})

\* No copy names a schedule that a warning, or a deletion under way, does not cover.
Gone(c) == c.sched = None \/ c.sched \in refused \/ schedule[c.doc] # c.sched
Covered ==
    /\ dialog = "warning" =>
          \A c \in pressed \ overlooked : Gone(c) \/ \E w \in warned : w.sched = c.sched
    /\ plan # None =>
          \A c \in pressed \ overlooked : Gone(c) \/ \E w \in deleting : w.sched = c.sched
    /\ page = "payment" => \A c \in pressed \ overlooked : Gone(c)

\* What the list shows, and what was chosen from it, is of the account.
OwnedBy(S, a) == \A c \in S : Owner[c.doc] = a
Owned ==
    page = "list" /\ ~carried /\ ~late =>
        /\ asked = {} => OwnedBy(listed, account)
        /\ OwnedBy(selected, account)
        /\ opened # None => Owner[opened.doc] = account
        /\ dialog = "warning" =>
              OwnedBy(pressed, account) /\ (opened # None \/ selected # {})
OwnedPlan ==
    ~carried /\ ~late =>
        /\ plan # None => OwnedBy(pressed, plan.payer)
        /\ page = "payment" => OwnedBy(pressed, paid.payer)

Inv == TypeOK /\ Waiting /\ AsPressed /\ Covered /\ Owned /\ OwnedPlan
------------------------------------------------------------------------------
\* The first list request of a visit, and each later one.
LEMMA FirstRead == ASSUME NEW a \in Accounts PROVE [id |-> 1, account |-> a] \in Reads /\ 1 \in 1 .. MaxReads
BY BoundAssumption DEF Reads

LEMMA NextRead ==
    ASSUME NEW n \in 1 .. MaxReads, n < MaxReads, NEW a \in Accounts
    PROVE  [id |-> n + 1, account |-> a] \in Reads /\ n + 1 \in 1 .. MaxReads
BY BoundAssumption DEF Reads

\* A payment, and what is left of the schedules when one is deleted.
LEMMA PaymentType ==
    ASSUME NEW S \in SUBSET Copies, NEW a \in Accounts
    PROVE  [docs |-> S, payer |-> a] \in Payments
BY DEF Payments

LEMMA WithoutType ==
    ASSUME NEW s, schedule \in [Docs -> Schedules \cup {None}]
    PROVE  Without(s) \in [Docs -> Schedules \cup {None}]
BY DEF Without

\* The model value None is no copy and no payment.
LEMMA NoneApart == None \notin Copies
BY NoneAssumption

\* Every action keeps the types.
LEMMA TypeStep == ASSUME TypeOK, Waiting, [Next]_vars PROVE TypeOK'
<1>1. ASSUME Leave PROVE TypeOK'
  BY <1>1, FirstRead DEF TypeOK, Waiting, Leave, Mount, Cleared, choice
<1>2. ASSUME Refresh PROVE TypeOK'
  BY <1>2, NextRead DEF TypeOK, Refresh, Ask, choice, history, press
<1>3. ASSUME NEW a \in Accounts, Switch(a) PROVE TypeOK'
  BY <1>3, NextRead DEF TypeOK, Switch, Ask, choice, press
<1>4. ASSUME NEW a \in Accounts, SwitchElsewhere(a) PROVE TypeOK'
  BY <1>4, FirstRead DEF TypeOK, Waiting, SwitchElsewhere, Mount, Cleared, press, choice, history
<1>5. ASSUME NEW r \in asked, Failed(r) PROVE TypeOK'
  BY <1>5 DEF TypeOK, Waiting, Copies, Payments, Reads, Failed, lists, choice, history, press
<1>6. ASSUME NEW r \in asked, NEW h \in SUBSET Docs, Answered(r, h) PROVE TypeOK'
  BY <1>6, OwnerAssumption, NoneAssumption DEF TypeOK, Waiting, Copies, Payments, Reads, Answered, lists, choice, history, press
<1>7. ASSUME NEW h \in SUBSET Docs, Filter(h) PROVE TypeOK'
  BY <1>7 DEF TypeOK, Waiting, Copies, Payments, Reads, Filter, AtList, Idle, lists, choice, history, press
<1>8. ASSUME FilterNone PROVE TypeOK'
  BY <1>8 DEF TypeOK, Waiting, Copies, Payments, Reads, FilterNone, AtList, Idle, lists, choice, history, press
<1>9. ASSUME NEW c \in View, ClickRow(c) PROVE TypeOK'
  BY <1>9 DEF TypeOK, Waiting, Copies, Payments, Reads, ClickRow, Select, AtList, Idle, View, lists, choice, history, press
<1>10. ASSUME NEW c \in View, OpenInvoice(c) PROVE TypeOK'
  BY <1>10, NoneApart DEF TypeOK, OpenInvoice, AtList, Idle, View, lists, history, press
<1>11. ASSUME NEW checked \in BOOLEAN, ClickAll(checked) PROVE TypeOK'
  BY <1>11 DEF TypeOK, Waiting, Copies, Payments, Reads, ClickAll, Select, AtList, Idle, View, lists, choice, history, press
<1>12. ASSUME CloseInvoice PROVE TypeOK'
  BY <1>12 DEF TypeOK, Waiting, Copies, Payments, Reads, CloseInvoice, Idle, lists, choice, history, press
<1>13. ASSUME PayInvoice PROVE TypeOK'
  <2>1. opened \in Copies /\ {opened} \subseteq Copies
    BY <1>13 DEF TypeOK, PayInvoice
  <2>2. [docs |-> {opened}, payer |-> account] \in Payments \ {None}
    BY <2>1, PaymentType, NoneAssumption DEF TypeOK
  <2>3. CASE opened.sched # None
    BY <1>13, <2>1, <2>3 DEF TypeOK, PayInvoice, Pressed, Idle, lists, choice
  <2>4. CASE opened.sched = None
    <3>1. /\ page' = "payment" /\ store' = {opened} /\ paid' = [docs |-> {opened}, payer |-> account]
          /\ Unmount /\ UNCHANGED <<account, schedule, plan, deleting, carried, late>>
          /\ Pressed({opened}, {})
      BY <1>13, <2>4 DEF PayInvoice, Go
    <3>2. paid' \in Payments /\ paid' # None /\ reads' \in 1 .. MaxReads
      BY <2>2, <3>1, BoundAssumption DEF Unmount
    <3>3. pressed' = {opened} /\ overlooked' = {} /\ refused' = {} /\ cleared' = FALSE
      BY <3>1 DEF Pressed
    <3> QED
      BY <2>1, <3>1, <3>2, <3>3 DEF TypeOK, Unmount
  <2> QED
    BY <2>3, <2>4
<1>14. ASSUME PayAll PROVE TypeOK'
  <2>1. Warnings \subseteq Copies /\ overlooked' \subseteq selected /\ selected \subseteq Copies
    BY <1>14 DEF TypeOK, PayAll, Pressed, Unseen, Warnings, View
  <2>2. [docs |-> selected, payer |-> account] \in Payments \ {None}
    BY <2>1, PaymentType, NoneAssumption DEF TypeOK
  <2>3. CASE Warnings # {}
    BY <1>14, <2>1, <2>3 DEF TypeOK, PayAll, Pressed, AtList, Idle, lists
  <2>4. CASE Warnings = {}
    <3>1. /\ page' = "payment" /\ store' = selected /\ paid' = [docs |-> selected, payer |-> account]
          /\ Unmount /\ UNCHANGED <<account, schedule, plan, deleting, carried, late>>
          /\ Pressed(selected, Unseen)
      BY <1>14, <2>4 DEF PayAll, Go
    <3>2. paid' \in Payments /\ paid' # None /\ reads' \in 1 .. MaxReads
      BY <2>2, <3>1, BoundAssumption DEF Unmount
    <3>3. pressed' = selected /\ refused' = {} /\ cleared' = FALSE
      BY <3>1 DEF Pressed
    <3> QED
      BY <2>1, <3>1, <3>2, <3>3 DEF TypeOK, Unmount
  <2> QED
    BY <2>3, <2>4
<1>15. ASSUME Dismiss PROVE TypeOK'
  BY <1>15 DEF TypeOK, Waiting, Copies, Payments, Reads, Dismiss, Idle, lists, choice, history, press
<1>16. ASSUME Confirm PROVE TypeOK'
  <2>1. plan' \in Plans
    BY <1>16 DEF TypeOK, Confirm, Plans
  <2> QED
    BY <1>16, <2>1 DEF TypeOK, Confirm, lists, choice, history, press
<1>17. ASSUME NEW c \in deleting, NEW applied \in BOOLEAN, Deleted(c, applied) PROVE TypeOK'
  <2>1. c.sched \in Schedules
    BY DEF TypeOK, Waiting, Copies
  <2>2. /\ schedule' \in [Docs -> Schedules \cup {None}] /\ deleting' \subseteq Copies
        /\ refused' \subseteq Schedules
    BY <1>17, <2>1, WithoutType DEF TypeOK, Deleted
  <2>3. CASE plan # None /\ deleting' = {}
    <3>1. plan.payer \in Accounts /\ plan.opened \in Copies \cup {None}
      BY <2>3 DEF TypeOK, Plans
    <3>2. /\ store' = IF plan.opened # None THEN {plan.opened} ELSE store
          /\ Go(plan.payer) /\ plan' = None /\ UNCHANGED account
      BY <1>17, <2>3 DEF Deleted, Proceed
    <3>3. store' \subseteq Copies
      BY <3>1, <3>2 DEF TypeOK
    <3>4. [docs |-> store', payer |-> plan.payer] \in Payments
      BY <3>1, <3>3, PaymentType
    <3>5. page' = "payment" /\ paid' \in Payments /\ paid' # None /\ Unmount
      BY <3>2, <3>4, NoneAssumption DEF Go
    <3>6. UNCHANGED <<pressed, overlooked, cleared, carried, late>>
      BY <1>17 DEF Deleted
    <3> QED
      BY <2>2, <3>2, <3>3, <3>5, <3>6, BoundAssumption DEF TypeOK, Unmount
  <2>4. CASE ~(plan # None /\ deleting' = {})
    <3>1. /\ UNCHANGED <<page, lists, choice, dialog, warned, store, plan, paid>>
          /\ UNCHANGED <<pressed, overlooked, cleared, carried, late>>
      BY <1>17, <2>4 DEF Deleted, Proceed
    <3> QED
      BY <2>2, <3>1 DEF TypeOK, lists, choice
  <2> QED
    BY <2>3, <2>4
<1>18. ASSUME NEW c \in deleting, NEW applied \in BOOLEAN, DeletionFails(c, applied) PROVE TypeOK'
  <2>1. schedule' \in [Docs -> Schedules \cup {None}]
    BY <1>18, WithoutType DEF TypeOK, DeletionFails
  <2> QED
    BY <1>18, <2>1 DEF TypeOK, DeletionFails, lists, choice, history, press
<1>19. ASSUME Away PROVE TypeOK'
  <2>1. Cleared \/ UNCHANGED <<store, history>>
    BY <1>19 DEF Away
  <2>2. /\ store' \subseteq Copies /\ pressed' \subseteq Copies /\ overlooked' \subseteq Copies
        /\ refused' \subseteq Schedules /\ cleared' \in BOOLEAN
        /\ carried' \in BOOLEAN /\ late' \in BOOLEAN
    BY <2>1 DEF TypeOK, Cleared, history, press
  <2> QED
    BY <1>19, <2>2, BoundAssumption DEF TypeOK, Away, Unmount
<1>20. ASSUME UNCHANGED vars PROVE TypeOK'
  BY <1>20 DEF vars, TypeOK, Waiting, Copies, Payments, Reads
<1> QED
  BY <1>1, <1>2, <1>3, <1>4, <1>5, <1>6, <1>7, <1>8, <1>9, <1>10, <1>11, <1>12, <1>13, <1>14, <1>15, <1>16, <1>17, <1>18, <1>19, <1>20 DEF Next

\* Nothing but the warning starts to wait for deletions, and the last of them ends it.
LEMMA WaitingStep == ASSUME TypeOK, Waiting, [Next]_vars PROVE Waiting'
<1>1. ASSUME Leave PROVE Waiting'
  BY <1>1 DEF TypeOK, Waiting, Leave, Mount, Cleared, press, lists, choice, history
<1>2. ASSUME Refresh PROVE Waiting'
  BY <1>2 DEF TypeOK, Waiting, Refresh, Ask, lists, choice, history, press
<1>3. ASSUME NEW a \in Accounts, Switch(a) PROVE Waiting'
  BY <1>3 DEF TypeOK, Waiting, Switch, Ask, lists, choice, history, press
<1>4. ASSUME NEW a \in Accounts, SwitchElsewhere(a) PROVE Waiting'
  BY <1>4 DEF TypeOK, Waiting, SwitchElsewhere, Mount, Cleared, press, lists, choice, history
<1>5. ASSUME NEW r \in asked, Failed(r) PROVE Waiting'
  BY <1>5 DEF TypeOK, Waiting, Failed, lists, choice, history, press
<1>6. ASSUME NEW r \in asked, NEW h \in SUBSET Docs, Answered(r, h) PROVE Waiting'
  BY <1>6, OwnerAssumption, NoneAssumption DEF TypeOK, Waiting, Answered, lists, choice, history, press
<1>7. ASSUME NEW h \in SUBSET Docs, Filter(h) PROVE Waiting'
  BY <1>7 DEF TypeOK, Waiting, Filter, AtList, Idle, lists, choice, history, press
<1>8. ASSUME FilterNone PROVE Waiting'
  BY <1>8 DEF TypeOK, Waiting, FilterNone, AtList, Idle, lists, choice, history, press
<1>9. ASSUME NEW c \in View, ClickRow(c) PROVE Waiting'
  BY <1>9 DEF TypeOK, Waiting, ClickRow, Select, AtList, Idle, View, lists, choice, history, press
<1>10. ASSUME NEW c \in View, OpenInvoice(c) PROVE Waiting'
  BY <1>10 DEF TypeOK, Waiting, OpenInvoice, AtList, Idle, View, lists, choice, history, press
<1>11. ASSUME NEW checked \in BOOLEAN, ClickAll(checked) PROVE Waiting'
  BY <1>11 DEF TypeOK, Waiting, ClickAll, Select, AtList, Idle, View, lists, choice, history, press
<1>12. ASSUME CloseInvoice PROVE Waiting'
  BY <1>12 DEF TypeOK, Waiting, CloseInvoice, Idle, lists, choice, history, press
<1>13. ASSUME PayInvoice PROVE Waiting'
  BY <1>13 DEF TypeOK, Waiting, PayInvoice, Idle, Go, Unmount, Pressed, Unseen, press, lists, choice, history
<1>14. ASSUME PayAll PROVE Waiting'
  BY <1>14 DEF TypeOK, Waiting, PayAll, AtList, Idle, Go, Unmount, Pressed, Unseen, press, Warnings, View, lists, choice, history
<1>15. ASSUME Dismiss PROVE Waiting'
  BY <1>15 DEF TypeOK, Waiting, Dismiss, Idle, lists, choice, history, press
<1>16. ASSUME Confirm PROVE Waiting'
  BY <1>16 DEF TypeOK, Waiting, Confirm, Idle, lists, choice, history, press
<1>17. ASSUME NEW c \in deleting, NEW applied \in BOOLEAN, Deleted(c, applied) PROVE Waiting'
  <2>1. deleting' \subseteq deleting
    BY <1>17 DEF Deleted
  <2>2. CASE plan # None /\ deleting' = {}
    BY <1>17, <2>2 DEF Waiting, Deleted, Proceed, Go, Unmount
  <2>3. CASE ~(plan # None /\ deleting' = {})
    <3>1. UNCHANGED <<page, lists, choice, dialog, warned, store, plan, paid>>
      BY <1>17, <2>3 DEF Deleted, Proceed
    <3> QED
      BY <2>1, <2>3, <3>1 DEF Waiting, lists, choice
  <2> QED
    BY <2>2, <2>3
<1>18. ASSUME NEW c \in deleting, NEW applied \in BOOLEAN, DeletionFails(c, applied) PROVE Waiting'
  BY <1>18 DEF TypeOK, Waiting, DeletionFails, Without, lists, choice, history, press
<1>19. ASSUME Away PROVE Waiting'
  BY <1>19 DEF TypeOK, Waiting, Away, Unmount, Cleared, lists, choice, history, press
<1>20. ASSUME UNCHANGED vars PROVE Waiting'
  BY <1>20 DEF vars, TypeOK, Waiting
<1> QED
  BY <1>1, <1>2, <1>3, <1>4, <1>5, <1>6, <1>7, <1>8, <1>9, <1>10, <1>11, <1>12, <1>13, <1>14, <1>15, <1>16, <1>17, <1>18, <1>19, <1>20 DEF Next

\* What waits is what was pressed for.
LEMMA PressedStep == ASSUME TypeOK, Waiting, AsPressed, [Next]_vars PROVE AsPressed'
<1>1. ASSUME Leave PROVE AsPressed'
  BY <1>1 DEF TypeOK, Waiting, AsPressed, Pending, Leave, Mount, Cleared, press, lists, choice, history
<1>2. ASSUME Refresh PROVE AsPressed'
  BY <1>2 DEF TypeOK, Waiting, AsPressed, Pending, Refresh, Ask, lists, choice, history, press
<1>3. ASSUME NEW a \in Accounts, Switch(a) PROVE AsPressed'
  BY <1>3 DEF TypeOK, Waiting, AsPressed, Pending, Switch, Ask, lists, choice, history, press
<1>4. ASSUME NEW a \in Accounts, SwitchElsewhere(a) PROVE AsPressed'
  BY <1>4 DEF TypeOK, Waiting, AsPressed, Pending, SwitchElsewhere, Mount, Cleared, press, lists, choice, history
<1>5. ASSUME NEW r \in asked, Failed(r) PROVE AsPressed'
  BY <1>5 DEF TypeOK, Waiting, AsPressed, Pending, Failed, lists, choice, history, press
<1>6. ASSUME NEW r \in asked, NEW h \in SUBSET Docs, Answered(r, h) PROVE AsPressed'
  BY <1>6, OwnerAssumption, NoneAssumption DEF TypeOK, Waiting, AsPressed, Pending, Answered, lists, choice, history, press
<1>7. ASSUME NEW h \in SUBSET Docs, Filter(h) PROVE AsPressed'
  BY <1>7 DEF TypeOK, Waiting, AsPressed, Pending, Filter, AtList, Idle, lists, choice, history, press
<1>8. ASSUME FilterNone PROVE AsPressed'
  BY <1>8 DEF TypeOK, Waiting, AsPressed, Pending, FilterNone, AtList, Idle, lists, choice, history, press
<1>9. ASSUME NEW c \in View, ClickRow(c) PROVE AsPressed'
  BY <1>9 DEF TypeOK, Waiting, AsPressed, Pending, ClickRow, Select, AtList, Idle, View, lists, choice, history, press
<1>10. ASSUME NEW c \in View, OpenInvoice(c) PROVE AsPressed'
  BY <1>10 DEF TypeOK, Waiting, AsPressed, Pending, OpenInvoice, AtList, Idle, View, lists, choice, history, press
<1>11. ASSUME NEW checked \in BOOLEAN, ClickAll(checked) PROVE AsPressed'
  BY <1>11 DEF TypeOK, Waiting, AsPressed, Pending, ClickAll, Select, AtList, Idle, View, lists, choice, history, press
<1>12. ASSUME CloseInvoice PROVE AsPressed'
  BY <1>12 DEF TypeOK, Waiting, AsPressed, Pending, CloseInvoice, Idle, lists, choice, history, press
<1>13. ASSUME PayInvoice PROVE AsPressed'
  BY <1>13 DEF TypeOK, Waiting, AsPressed, Pending, PayInvoice, Idle, Go, Unmount, Pressed, Unseen, press, lists, choice, history
<1>14. ASSUME PayAll PROVE AsPressed'
  BY <1>14 DEF TypeOK, Waiting, AsPressed, Pending, PayAll, AtList, Idle, Go, Unmount, Pressed, Unseen, press, Warnings, View, lists, choice, history
<1>15. ASSUME Dismiss PROVE AsPressed'
  BY <1>15 DEF TypeOK, Waiting, AsPressed, Pending, Dismiss, Idle, lists, choice, history, press
<1>16. ASSUME Confirm PROVE AsPressed'
  BY <1>16 DEF TypeOK, Waiting, AsPressed, Pending, Confirm, Idle, lists, choice, history, press
<1>17. ASSUME NEW c \in deleting, NEW applied \in BOOLEAN, Deleted(c, applied) PROVE AsPressed'
  <2>1. UNCHANGED <<pressed, cleared>>
    BY <1>17 DEF Deleted
  <2>2. CASE plan # None /\ deleting' = {}
    <3>1. /\ store' = Pending(plan.opened) /\ plan' = None
          /\ page' = "payment" /\ paid' = [docs |-> store', payer |-> plan.payer] /\ dialog' = "none"
      BY <1>17, <2>2 DEF Deleted, Proceed, Pending, Go, Unmount
    <3> QED
      BY <2>1, <2>2, <3>1 DEF AsPressed
  <2>3. CASE ~(plan # None /\ deleting' = {})
    <3>1. UNCHANGED <<page, choice, dialog, store, plan, paid>>
      BY <1>17, <2>3 DEF Deleted, Proceed
    <3> QED
      BY <2>1, <3>1 DEF AsPressed, Pending, choice
  <2> QED
    BY <2>2, <2>3
<1>18. ASSUME NEW c \in deleting, NEW applied \in BOOLEAN, DeletionFails(c, applied) PROVE AsPressed'
  BY <1>18 DEF TypeOK, Waiting, AsPressed, Pending, DeletionFails, Without, lists, choice, history, press
<1>19. ASSUME Away PROVE AsPressed'
  BY <1>19 DEF TypeOK, Waiting, AsPressed, Pending, Away, Unmount, Cleared, lists, choice, history, press
<1>20. ASSUME UNCHANGED vars PROVE AsPressed'
  BY <1>20 DEF vars, TypeOK, Waiting, AsPressed, Pending
<1> QED
  BY <1>1, <1>2, <1>3, <1>4, <1>5, <1>6, <1>7, <1>8, <1>9, <1>10, <1>11, <1>12, <1>13, <1>14, <1>15, <1>16, <1>17, <1>18, <1>19, <1>20 DEF Next

\* A schedule goes for good, and only an answered deletion stops covering it.
LEMMA CoveredStep == ASSUME TypeOK, Waiting, Covered, [Next]_vars PROVE Covered'
<1>1. ASSUME Leave PROVE Covered'
  BY <1>1, OwnerAssumption, NoneAssumption DEF TypeOK, Waiting, Covered, Gone, Copies, Leave, Mount, Cleared, press, lists, choice, history
<1>2. ASSUME Refresh PROVE Covered'
  BY <1>2, OwnerAssumption, NoneAssumption DEF TypeOK, Waiting, Covered, Gone, Copies, Refresh, Ask, lists, choice, history, press
<1>3. ASSUME NEW a \in Accounts, Switch(a) PROVE Covered'
  BY <1>3, OwnerAssumption, NoneAssumption DEF TypeOK, Waiting, Covered, Gone, Copies, Switch, Ask, lists, choice, history, press
<1>4. ASSUME NEW a \in Accounts, SwitchElsewhere(a) PROVE Covered'
  BY <1>4, OwnerAssumption, NoneAssumption DEF TypeOK, Waiting, Covered, Gone, Copies, SwitchElsewhere, Mount, Cleared, press, lists, choice, history
<1>5. ASSUME NEW r \in asked, Failed(r) PROVE Covered'
  BY <1>5, OwnerAssumption, NoneAssumption DEF TypeOK, Waiting, Covered, Gone, Copies, Failed, lists, choice, history, press
<1>6. ASSUME NEW r \in asked, NEW h \in SUBSET Docs, Answered(r, h) PROVE Covered'
  BY <1>6, OwnerAssumption, NoneAssumption DEF TypeOK, Waiting, Covered, Gone, Copies, Answered, lists, choice, history, press
<1>7. ASSUME NEW h \in SUBSET Docs, Filter(h) PROVE Covered'
  BY <1>7, OwnerAssumption, NoneAssumption DEF TypeOK, Waiting, Covered, Gone, Copies, Filter, AtList, Idle, lists, choice, history, press
<1>8. ASSUME FilterNone PROVE Covered'
  BY <1>8, OwnerAssumption, NoneAssumption DEF TypeOK, Waiting, Covered, Gone, Copies, FilterNone, AtList, Idle, lists, choice, history, press
<1>9. ASSUME NEW c \in View, ClickRow(c) PROVE Covered'
  BY <1>9, OwnerAssumption, NoneAssumption DEF TypeOK, Waiting, Covered, Gone, Copies, ClickRow, Select, AtList, Idle, View, lists, choice, history, press
<1>10. ASSUME NEW c \in View, OpenInvoice(c) PROVE Covered'
  BY <1>10, OwnerAssumption, NoneAssumption DEF TypeOK, Waiting, Covered, Gone, Copies, OpenInvoice, AtList, Idle, View, lists, choice, history, press
<1>11. ASSUME NEW checked \in BOOLEAN, ClickAll(checked) PROVE Covered'
  BY <1>11, OwnerAssumption, NoneAssumption DEF TypeOK, Waiting, Covered, Gone, Copies, ClickAll, Select, AtList, Idle, View, lists, choice, history, press
<1>12. ASSUME CloseInvoice PROVE Covered'
  BY <1>12, OwnerAssumption, NoneAssumption DEF TypeOK, Waiting, Covered, Gone, Copies, CloseInvoice, Idle, lists, choice, history, press
<1>13. ASSUME PayInvoice PROVE Covered'
  BY <1>13, OwnerAssumption, NoneAssumption DEF TypeOK, Waiting, Covered, Gone, Copies, PayInvoice, Idle, Go, Unmount, Pressed, Unseen, press, lists, choice, history
<1>14. ASSUME PayAll PROVE Covered'
  BY <1>14, OwnerAssumption, NoneAssumption DEF TypeOK, Waiting, Covered, Gone, Copies, PayAll, AtList, Idle, Go, Unmount, Pressed, Unseen, press, Warnings, View, lists, choice, history
<1>15. ASSUME Dismiss PROVE Covered'
  BY <1>15, OwnerAssumption, NoneAssumption DEF TypeOK, Waiting, Covered, Gone, Copies, Dismiss, Idle, lists, choice, history, press
<1>16. ASSUME Confirm PROVE Covered'
  BY <1>16, OwnerAssumption, NoneAssumption DEF TypeOK, Waiting, Covered, Gone, Copies, Confirm, Idle, lists, choice, history, press
<1>17. ASSUME NEW c \in deleting, NEW applied \in BOOLEAN, Deleted(c, applied) PROVE Covered'
  BY <1>17, OwnerAssumption, NoneAssumption DEF TypeOK, Waiting, Covered, Gone, Copies, Deleted, Proceed, press, Without, Go, Unmount, Pressed, Unseen, lists, choice, history
<1>18. ASSUME NEW c \in deleting, NEW applied \in BOOLEAN, DeletionFails(c, applied) PROVE Covered'
  BY <1>18, OwnerAssumption, NoneAssumption DEF TypeOK, Waiting, Covered, Gone, Copies, DeletionFails, Without, lists, choice, history, press
<1>19. ASSUME Away PROVE Covered'
  BY <1>19 DEF TypeOK, Waiting, Covered, Gone, Away, Unmount, Cleared, lists, choice, history, press
<1>20. ASSUME UNCHANGED vars PROVE Covered'
  BY <1>20 DEF vars, TypeOK, Waiting, Covered, Gone, Copies
<1> QED
  BY <1>1, <1>2, <1>3, <1>4, <1>5, <1>6, <1>7, <1>8, <1>9, <1>10, <1>11, <1>12, <1>13, <1>14, <1>15, <1>16, <1>17, <1>18, <1>19, <1>20 DEF Next

\* Whatever is chosen is of the account while neither exception has occurred.
LEMMA OwnedStep == ASSUME TypeOK, Waiting, Owned, [Next]_vars PROVE Owned'
<1>1. ASSUME Leave PROVE Owned'
  BY <1>1 DEF TypeOK, Waiting, Owned, OwnedBy, Leave, Mount, Cleared, press, lists, choice, history
<1>2. ASSUME Refresh PROVE Owned'
  BY <1>2 DEF TypeOK, Waiting, Owned, OwnedBy, Refresh, Ask, lists, choice, history, press
<1>3. ASSUME NEW a \in Accounts, Switch(a) PROVE Owned'
  BY <1>3 DEF TypeOK, Waiting, Owned, OwnedBy, Switch, Ask, lists, choice, history, press
<1>4. ASSUME NEW a \in Accounts, SwitchElsewhere(a) PROVE Owned'
  BY <1>4 DEF TypeOK, Waiting, Owned, OwnedBy, SwitchElsewhere, Mount, Cleared, press, lists, choice, history
<1>5. ASSUME NEW r \in asked, Failed(r) PROVE Owned'
  BY <1>5 DEF TypeOK, Waiting, Owned, OwnedBy, Failed, lists, choice, history, press
<1>6. ASSUME NEW r \in asked, NEW h \in SUBSET Docs, Answered(r, h) PROVE Owned'
  <2>1. \A v \in listed' : Owner[v.doc] = r.account
    BY <1>6 DEF Answered
  <2>2. ~late' => ~late /\ ~late' /\ r.account = account /\ account' = account
    BY <1>6 DEF Answered, TypeOK
  <2>3. ~late' => OwnedBy(listed', account')
    BY <2>1, <2>2 DEF OwnedBy
  <2> QED
    BY <1>6, <2>2, <2>3 DEF Owned, OwnedBy, Answered, choice, press
<1>7. ASSUME NEW h \in SUBSET Docs, Filter(h) PROVE Owned'
  BY <1>7 DEF TypeOK, Waiting, Owned, OwnedBy, Filter, AtList, Idle, lists, choice, history, press
<1>8. ASSUME FilterNone PROVE Owned'
  BY <1>8 DEF TypeOK, Waiting, Owned, OwnedBy, FilterNone, AtList, Idle, lists, choice, history, press
<1>9. ASSUME NEW c \in View, ClickRow(c) PROVE Owned'
  BY <1>9 DEF TypeOK, Waiting, Owned, OwnedBy, ClickRow, Select, AtList, Idle, View, lists, choice, history, press
<1>10. ASSUME NEW c \in View, OpenInvoice(c) PROVE Owned'
  BY <1>10 DEF TypeOK, Waiting, Owned, OwnedBy, OpenInvoice, AtList, Idle, View, lists, choice, history, press
<1>11. ASSUME NEW checked \in BOOLEAN, ClickAll(checked) PROVE Owned'
  BY <1>11 DEF TypeOK, Waiting, Owned, OwnedBy, ClickAll, Select, AtList, Idle, View, lists, choice, history, press
<1>12. ASSUME CloseInvoice PROVE Owned'
  BY <1>12 DEF TypeOK, Waiting, Owned, OwnedBy, CloseInvoice, Idle, lists, choice, history, press
<1>13. ASSUME PayInvoice PROVE Owned'
  BY <1>13 DEF TypeOK, Waiting, Owned, OwnedBy, PayInvoice, Idle, Go, Unmount, Pressed, Unseen, press, lists, choice, history
<1>14. ASSUME PayAll PROVE Owned'
  BY <1>14 DEF TypeOK, Waiting, Owned, OwnedBy, PayAll, AtList, Idle, Go, Unmount, Pressed, Unseen, press, Warnings, View, lists, choice, history
<1>15. ASSUME Dismiss PROVE Owned'
  BY <1>15 DEF TypeOK, Waiting, Owned, OwnedBy, Dismiss, Idle, lists, choice, history, press
<1>16. ASSUME Confirm PROVE Owned'
  BY <1>16 DEF TypeOK, Waiting, Owned, OwnedBy, Confirm, Idle, lists, choice, history, press
<1>17. ASSUME NEW c \in deleting, NEW applied \in BOOLEAN, Deleted(c, applied) PROVE Owned'
  BY <1>17 DEF TypeOK, Waiting, Owned, OwnedBy, Deleted, Proceed, press, Without, Go, Unmount, Pressed, Unseen, lists, choice, history
<1>18. ASSUME NEW c \in deleting, NEW applied \in BOOLEAN, DeletionFails(c, applied) PROVE Owned'
  BY <1>18 DEF TypeOK, Waiting, Owned, OwnedBy, DeletionFails, Without, lists, choice, history, press
<1>19. ASSUME Away PROVE Owned'
  BY <1>19 DEF TypeOK, Waiting, Owned, OwnedBy, Away, Unmount, Cleared, lists, choice, history, press
<1>20. ASSUME UNCHANGED vars PROVE Owned'
  BY <1>20 DEF vars, TypeOK, Waiting, Owned, OwnedBy
<1> QED
  BY <1>1, <1>2, <1>3, <1>4, <1>5, <1>6, <1>7, <1>8, <1>9, <1>10, <1>11, <1>12, <1>13, <1>14, <1>15, <1>16, <1>17, <1>18, <1>19, <1>20 DEF Next

\* The payer is taken with the documents, and stays theirs.
LEMMA PlanStep == ASSUME TypeOK, Waiting, Owned, OwnedPlan, [Next]_vars PROVE OwnedPlan'
<1>1. ASSUME Leave PROVE OwnedPlan'
  BY <1>1 DEF TypeOK, Waiting, Owned, OwnedPlan, OwnedBy, Leave, Mount, Cleared, press, lists, choice, history
<1>2. ASSUME Refresh PROVE OwnedPlan'
  BY <1>2 DEF TypeOK, Waiting, Owned, OwnedPlan, OwnedBy, Refresh, Ask, lists, choice, history, press
<1>3. ASSUME NEW a \in Accounts, Switch(a) PROVE OwnedPlan'
  BY <1>3 DEF TypeOK, Waiting, Owned, OwnedPlan, OwnedBy, Switch, Ask, lists, choice, history, press
<1>4. ASSUME NEW a \in Accounts, SwitchElsewhere(a) PROVE OwnedPlan'
  BY <1>4 DEF TypeOK, Waiting, Owned, OwnedPlan, OwnedBy, SwitchElsewhere, Mount, Cleared, press, lists, choice, history
<1>5. ASSUME NEW r \in asked, Failed(r) PROVE OwnedPlan'
  BY <1>5 DEF TypeOK, Waiting, Owned, OwnedPlan, OwnedBy, Failed, lists, choice, history, press
<1>6. ASSUME NEW r \in asked, NEW h \in SUBSET Docs, Answered(r, h) PROVE OwnedPlan'
  BY <1>6, OwnerAssumption, NoneAssumption DEF TypeOK, Waiting, Owned, OwnedPlan, OwnedBy, Answered, lists, choice, history, press
<1>7. ASSUME NEW h \in SUBSET Docs, Filter(h) PROVE OwnedPlan'
  BY <1>7 DEF TypeOK, Waiting, Owned, OwnedPlan, OwnedBy, Filter, AtList, Idle, lists, choice, history, press
<1>8. ASSUME FilterNone PROVE OwnedPlan'
  BY <1>8 DEF TypeOK, Waiting, Owned, OwnedPlan, OwnedBy, FilterNone, AtList, Idle, lists, choice, history, press
<1>9. ASSUME NEW c \in View, ClickRow(c) PROVE OwnedPlan'
  BY <1>9 DEF TypeOK, Waiting, Owned, OwnedPlan, OwnedBy, ClickRow, Select, AtList, Idle, View, lists, choice, history, press
<1>10. ASSUME NEW c \in View, OpenInvoice(c) PROVE OwnedPlan'
  BY <1>10 DEF TypeOK, Waiting, Owned, OwnedPlan, OwnedBy, OpenInvoice, AtList, Idle, View, lists, choice, history, press
<1>11. ASSUME NEW checked \in BOOLEAN, ClickAll(checked) PROVE OwnedPlan'
  BY <1>11 DEF TypeOK, Waiting, Owned, OwnedPlan, OwnedBy, ClickAll, Select, AtList, Idle, View, lists, choice, history, press
<1>12. ASSUME CloseInvoice PROVE OwnedPlan'
  BY <1>12 DEF TypeOK, Waiting, Owned, OwnedPlan, OwnedBy, CloseInvoice, Idle, lists, choice, history, press
<1>13. ASSUME PayInvoice PROVE OwnedPlan'
  BY <1>13 DEF TypeOK, Waiting, Owned, OwnedPlan, OwnedBy, PayInvoice, Idle, Go, Unmount, Pressed, Unseen, press, lists, choice, history
<1>14. ASSUME PayAll PROVE OwnedPlan'
  BY <1>14 DEF TypeOK, Waiting, Owned, OwnedPlan, OwnedBy, PayAll, AtList, Idle, Go, Unmount, Pressed, Unseen, press, Warnings, View, lists, choice, history
<1>15. ASSUME Dismiss PROVE OwnedPlan'
  BY <1>15 DEF TypeOK, Waiting, Owned, OwnedPlan, OwnedBy, Dismiss, Idle, lists, choice, history, press
<1>16. ASSUME Confirm PROVE OwnedPlan'
  BY <1>16 DEF TypeOK, Waiting, Owned, OwnedPlan, OwnedBy, Confirm, Idle, lists, choice, history, press
<1>17. ASSUME NEW c \in deleting, NEW applied \in BOOLEAN, Deleted(c, applied) PROVE OwnedPlan'
  BY <1>17 DEF TypeOK, Waiting, Owned, OwnedPlan, OwnedBy, Deleted, Proceed, press, Without, Go, Unmount, Pressed, Unseen, lists, choice, history
<1>18. ASSUME NEW c \in deleting, NEW applied \in BOOLEAN, DeletionFails(c, applied) PROVE OwnedPlan'
  BY <1>18 DEF TypeOK, Waiting, Owned, OwnedPlan, OwnedBy, DeletionFails, Without, lists, choice, history, press
<1>19. ASSUME Away PROVE OwnedPlan'
  BY <1>19 DEF TypeOK, Waiting, Owned, OwnedPlan, OwnedBy, Away, Unmount, Cleared, lists, choice, history, press
<1>20. ASSUME UNCHANGED vars PROVE OwnedPlan'
  BY <1>20 DEF vars, TypeOK, Waiting, Owned, OwnedPlan, OwnedBy
<1> QED
  BY <1>1, <1>2, <1>3, <1>4, <1>5, <1>6, <1>7, <1>8, <1>9, <1>10, <1>11, <1>12, <1>13, <1>14, <1>15, <1>16, <1>17, <1>18, <1>19, <1>20 DEF Next
\* The invariant holds at first.
LEMMA InvInit == Init => Inv
<1> SUFFICES ASSUME Init PROVE Inv
  OBVIOUS
<1>1. TypeOK
  BY FirstRead DEF Init, TypeOK
<1>2. Waiting /\ AsPressed /\ Covered
  BY DEF Init, Waiting, AsPressed, Covered
<1>3. Owned /\ OwnedPlan
  BY DEF Init, Owned, OwnedPlan, OwnedBy
<1> QED
  BY <1>1, <1>2, <1>3 DEF Inv

\* The invariant holds always.
LEMMA InvAlways == Spec => []Inv
<1>1. Inv /\ [Next]_vars => Inv'
  <2> SUFFICES ASSUME Inv, [Next]_vars PROVE Inv'
    OBVIOUS
  <2> USE DEF Inv
  <2> QED
    BY TypeStep, WaitingStep, PressedStep, CoveredStep, OwnedStep, PlanStep
<1> QED
  BY InvInit, <1>1, PTL DEF Spec

\* Every variable of the invoice list has its type, and nothing waits behind the payment page.
THEOREM ListTypes == Spec => []TypeOK
<1>1. Inv => TypeOK
  BY DEF Inv
<1> QED
  BY InvAlways, <1>1, PTL

\* The payment page has what the pay button was pressed for, or nothing (PaidAsPressed).
THEOREM PaidIsPressed == Spec => []PaidAsPressed
<1>1. Inv => PaidAsPressed
  BY DEF Inv, AsPressed, PaidAsPressed
<1> QED
  BY InvAlways, <1>1, PTL

(* A schedule the screen knew of is left for a document on the payment     *)
(* page only if SAP refused to delete it, whichever of the deletions are   *)
(* lost, fail or are answered last (PaidAreDescheduled).                   *)
THEOREM SchedulesDeletedFirst == Spec => []PaidAreDescheduled
<1>1. Inv => PaidAreDescheduled
  BY DEF Inv, AsPressed, Covered, Gone, PaidAreDescheduled
<1> QED
  BY InvAlways, <1>1, PTL

\* What is paid belongs to the account that pays, with the two exceptions (PaidByOwner).
THEOREM OwnersPay == Spec => []PaidByOwner
<1>1. Inv => PaidByOwner
  BY DEF Inv, AsPressed, OwnedPlan, OwnedBy, PaidByOwner
<1> QED
  BY InvAlways, <1>1, PTL
=============================================================================
