------------------------------- MODULE Ledger -------------------------------
(***************************************************************************)
(* The promise of the wallet backend, without sessions, locks, requests or *)
(* failures: each idempotency key is used for at most one posting, and a    *)
(* posting - a deposit, a withdrawal or a transfer - happens in one step    *)
(* that never overdraws a wallet and records itself in the ledger.          *)
(***************************************************************************)
EXTENDS Integers, Sequences

CONSTANTS Wallets, Keys, Opening, Currency, MaxBalance, NoTxn

VARIABLES balance, txn, ledger

vars == <<balance, txn, ledger>>

Init ==
  /\ balance = Opening
  /\ txn = [k \in Keys |-> NoTxn]
  /\ ledger = [w \in Wallets |-> <<>>]

\* Move the amounts of legs, under a key that was never used.
Post(k, type, amount, legs) ==
  /\ txn[k] = NoTxn
  /\ \A w \in DOMAIN legs : balance[w] + legs[w] \in 0 .. MaxBalance
  /\ txn' = [txn EXCEPT ![k] = [type |-> type, amount |-> amount]]
  /\ balance' = [w \in Wallets |->
                   IF w \in DOMAIN legs THEN balance[w] + legs[w]
                                        ELSE balance[w]]
  /\ ledger' = [w \in Wallets |->
                  IF w \in DOMAIN legs
                  THEN Append(ledger[w], [ref |-> k, amount |-> legs[w],
                                          after |-> balance[w] + legs[w]])
                  ELSE ledger[w]]

Deposit(k, w, amount) ==
  Post(k, "DEPOSIT", amount, [v \in {w} |-> amount])

Withdraw(k, w, amount) ==
  Post(k, "WITHDRAWAL", amount, [v \in {w} |-> -amount])

Transfer(k, from, to, amount) ==
  /\ from # to
  /\ Currency[from] = Currency[to]
  /\ Post(k, "TRANSFER", amount,
          [v \in {from, to} |-> IF v = from THEN -amount ELSE amount])

Next ==
  \E k \in Keys, amount \in 1 .. MaxBalance, v, w \in Wallets :
    \/ Deposit(k, w, amount)
    \/ Withdraw(k, w, amount)
    \/ Transfer(k, v, w, amount)

Spec == Init /\ [][Next]_vars

=============================================================================
