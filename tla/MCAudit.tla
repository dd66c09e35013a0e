------------------------------- MODULE MCAudit -------------------------------
(***************************************************************************)
(* Instance of WalletAudit for TLC: two wallets of one currency, two keys.  *)
(***************************************************************************)
EXTENDS WalletAudit

MCWallets == 1 .. 2
MCOpening == [w \in MCWallets |-> w]
MCCurrency == [w \in MCWallets |-> "NGN"]
=============================================================================
