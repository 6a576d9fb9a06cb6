--------------------------- MODULE MCInvoiceList ---------------------------
(* Small instances of InvoiceList.                                         *)
EXTENDS InvoiceList, TLC

CONSTANTS d1, d2, d3, a1, a2, s1, s2

TwoAndOne == d1 :> a1 @@ d2 :> a1 @@ d3 :> a2

\* The schedules are alike, and so are the documents of one account.
Alike == Permutations({s1, s2}) \cup Permutations({d1, d2})
=============================================================================
