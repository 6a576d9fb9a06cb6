--------------------------- MODULE PaymentLedger ---------------------------
(***************************************************************************)
(* What the payment pages promise about the books of SAP and Stripe.  The  *)
(* user asks (a press of a pay button, or a return from the card issuer);  *)
(* each time something is asked it is booked at most once, and a press and *)
(* the return it leads to are booked once between them.  Only a return     *)
(* page the user opens again, with the browser's Back or Reload, may book  *)
(* once more.                                                              *)
(***************************************************************************)
EXTENDS Sequences, Integers

CONSTANTS Goods, None

VARIABLES
    asked,     \* what was asked, in order: [goods, of, again]
    crossed,   \* the user got at the form while a press was still under way
    books      \* the numbers of the askings that were booked, in order

lvars == <<asked, crossed, books>>

Askings == [goods : Goods \cup {None}, of : Nat, again : BOOLEAN]

Init == asked = <<>> /\ crossed = FALSE /\ books = <<>>

Ask(goods, of, again) ==
    asked' = Append(asked, [goods |-> goods, of |-> of, again |-> again])

Press ==
    /\ \E g \in Goods : Ask(g, Len(asked) + 1, FALSE)
    /\ crossed' \in {crossed, TRUE}
    /\ UNCHANGED books

Cross == crossed' = TRUE /\ UNCHANGED <<asked, books>>

(* The return page posts what was pressed, or has nothing to post; only    *)
(* what the user did in between can make it post something else.           *)
Return ==
    \E p \in DOMAIN asked, g \in Goods \cup {None} :
        /\ crossed \/ g \in {asked[p].goods, None}
        /\ Ask(g, p, FALSE)
        /\ UNCHANGED <<crossed, books>>

Reopen ==
    \E p \in DOMAIN asked, g \in Goods \cup {None} :
        Ask(g, p, TRUE) /\ UNCHANGED <<crossed, books>>

Book(a) ==
    /\ asked[a].goods # None
    /\ \A i \in DOMAIN books :
        /\ books[i] # a
        /\ asked[a].again \/ asked[books[i]].again \/ asked[books[i]].of # asked[a].of
    /\ books' = Append(books, a)
    /\ UNCHANGED <<asked, crossed>>

Next == Press \/ Cross \/ Return \/ Reopen \/ \E a \in DOMAIN asked : Book(a)

LedgerSpec == Init /\ [][Next]_lvars
=============================================================================
