------------------------------ MODULE MCDjango ------------------------------
(***************************************************************************)
(* Instance of DjangoWalletApi for TLC: three requests for two keys and     *)
(* three wallets.  Wallets 1 and 2 hold the same currency and are close to  *)
(* both ends of their column, wallet 3 another one, wallet 4 does not exist.*)
(***************************************************************************)
EXTENDS DjangoWalletApi, TLC

MCWallets == 1 .. 3
MCWalletIds == 1 .. 4
MCOpening == [w \in MCWallets |-> IF w = 1 THEN 2 ELSE 1]
MCCurrency == [w \in MCWallets |-> IF w = 3 THEN "USD" ELSE "NGN"]
MCOwner == [w \in MCWallets |-> IF w = 2 THEN "bob" ELSE "ann"]

Ask(key, user, type, from, to, amount) ==
  [key |-> key, user |-> user, type |-> type,
   from |-> from, to |-> to, amount |-> amount]

\* Retries of one payload arise when two requests pick the same one; k1 is
\* also reused for other payloads.
MCPayloads == {
  Ask("k1", "ann", "DEPOSIT", 1, 1, 1),
  Ask("k1", "ann", "TRANSFER", 1, 2, 2),
  Ask("k2", "bob", "TRANSFER", 2, 1, 1),
  Ask("k2", "ann", "WITHDRAWAL", 1, 1, 1),
  Ask("k2", "ann", "TRANSFER", 1, 3, 1),
  Ask("k2", "ann", "DEPOSIT", 4, 4, 1),
  Ask("none", "ann", "DEPOSIT", 1, 1, 1) }

\* Opposite transfers, and a withdrawal that competes for the key of one.
MCContended == {
  Ask("k1", "ann", "TRANSFER", 1, 2, 2),
  Ask("k1", "ann", "WITHDRAWAL", 1, 1, 2),
  Ask("k2", "bob", "TRANSFER", 2, 1, 1) }

\* Requests are told apart by their payload only.
RequestSymmetry == Permutations(Requests)

=============================================================================
