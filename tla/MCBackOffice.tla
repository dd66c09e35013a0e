---------------------------- MODULE MCBackOffice ----------------------------
(***************************************************************************)
(* Instance of BackOffice for TLC: wallets 1 and 2 of one currency, wallet 3 *)
(* of another, pages of one row.                                           *)
(***************************************************************************)
EXTENDS BackOffice

MCWallets == 1 .. 3
MCOpening == [w \in MCWallets |-> IF w = 1 THEN 1 ELSE 0]
MCCurrency == [w \in MCWallets |-> IF w = 3 THEN "USD" ELSE "NGN"]
MCMaxPostings == [audit |-> 2, list |-> 4, statistics |-> 3]
MCMoving == [r \in Readers |-> IF r = "list" THEN {1} ELSE MCWallets]

\* Beside a garbled tab with two calls in flight nothing more is followed: the
\* properties speak of it again after a new search, which one call is enough for.
FollowedUntilGarbled == garbled => Len(calls) <= 1
=============================================================================
