------------------------------ MODULE MCDotnet ------------------------------
(***************************************************************************)
(* Instance of DotnetWalletApi for TLC, in half units: balances 4 and 2 of   *)
(* at most 6, three wallets as in MCDjango, and three sets of payloads.     *)
(***************************************************************************)
EXTENDS DotnetWalletApi, TLC

MCWallets == 1 .. 3
MCWalletIds == 1 .. 4
MCOpening == [w \in MCWallets |-> IF w = 1 THEN 4 ELSE 2]
MCCurrency == [w \in MCWallets |-> IF w = 3 THEN "USD" ELSE "NGN"]
MCOwner == [w \in MCWallets |-> IF w = 2 THEN "bob" ELSE "ann"]

Ask(key, user, type, from, to, amount) ==
  [key |-> key, user |-> user, type |-> type,
   from |-> from, to |-> to, amount |-> amount]

\* Whole units, except for a deposit of half a unit.
MCPayloads == {
  Ask("k1", "ann", "TRANSFER", 1, 2, 4),
  Ask("k1", "ann", "WITHDRAWAL", 1, 1, 4),
  Ask("k1", "ann", "DEPOSIT", 1, 1, 1),
  Ask("k2", "bob", "TRANSFER", 2, 1, 2),
  Ask("k2", "bob", "DEPOSIT", 2, 2, 4),
  Ask("k2", "ann", "TRANSFER", 1, 3, 2),
  Ask("k2", "ann", "WITHDRAWAL", 1, 1, 2),
  Ask("k2", "ann", "WITHDRAWAL", 4, 4, 2),
  Ask("none", "ann", "DEPOSIT", 1, 1, 2) }

\* Whole units, a transfer and a withdrawal of one wallet.
MCStale == {
  Ask("k1", "ann", "TRANSFER", 1, 2, 4),
  Ask("k2", "ann", "WITHDRAWAL", 1, 1, 2) }

\* One withdrawal of half a unit.
MCFraction == { Ask("k1", "ann", "WITHDRAWAL", 1, 1, 1) }

\* Requests are told apart by their payload only.
RequestSymmetry == Permutations(Requests)

=============================================================================
