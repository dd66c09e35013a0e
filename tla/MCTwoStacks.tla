----------------------------- MODULE MCTwoStacks -----------------------------
(***************************************************************************)
(* Instance of TwoStacks for TLC: a Django transfer and its retry beside two *)
(* .NET requests, two wallets with 4 and 2 half units of at most 6, and a    *)
(* key used on both; one .NET deposit is of half a unit, which the column    *)
(* rounds to one.                                                          *)
(***************************************************************************)
EXTENDS TwoStacks, TLC

MCWallets == 1 .. 2
MCOpening == [w \in MCWallets |-> IF w = 1 THEN 4 ELSE 2]
MCCurrency == [w \in MCWallets |-> "NGN"]
MCOwner == [w \in MCWallets |-> IF w = 2 THEN "bob" ELSE "ann"]

Ask(key, user, type, from, to, amount) ==
  [key |-> key, user |-> user, type |-> type,
   from |-> from, to |-> to, amount |-> amount]

MCDjangoPayloads == {
  Ask("k1", "ann", "TRANSFER", 1, 2, 4) }

MCDotnetPayloads == {
  Ask("k1", "bob", "WITHDRAWAL", 2, 2, 2),
  Ask("k2", "bob", "TRANSFER", 2, 1, 2),
  Ask("k2", "bob", "DEPOSIT", 2, 2, 1) }

StackSymmetry == Permutations(DjangoRequests) \cup Permutations(DotnetRequests)

=============================================================================
