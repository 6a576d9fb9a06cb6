----------------------------- MODULE MCPayments -----------------------------
(* Small instances of Payments.                                            *)
EXTENDS Payments, TLC

GoodsSymmetry == Permutations(Goods)
InvoicesOrDeposit == {{"payment", "schedule"}, {"deposit"}}
SapKinds == {"3ds", "plain"}
AnyMix == {FlowKinds}
AllKinds == PayKinds
=============================================================================
