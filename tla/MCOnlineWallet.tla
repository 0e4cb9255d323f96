----------------------------- MODULE MCOnlineWallet -----------------------------
(***************************************************************************)
(* Two sales: the first is partly held in reserve, the second wholly       *)
(* available, so that together they fill two payouts.                      *)
(***************************************************************************)
EXTENDS OnlineWallet

CONSTANTS l1, l2

MCLot == {l1, l2}
MCPayable == [l \in MCLot |-> IF l = l1 THEN 2 ELSE 1]
MCReserve == [l \in MCLot |-> IF l = l1 THEN 1 ELSE 0]
===============================================================================
