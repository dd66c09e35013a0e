---------------------------- MODULE WalletStore ----------------------------
(***************************************************************************)
(* The PostgreSQL tables wallet_wallet, transaction_transaction and        *)
(* transaction_ledgerentry as the two APIs use them: READ COMMITTED        *)
(* transactions that lock wallet rows with SELECT ... FOR UPDATE, insert a  *)
(* header whose reference is UNIQUE, write the balances and append ledger   *)
(* entries.  Only what transactions can observe of each other is state:     *)
(* the committed rows, the row locks, and the unique-index entries of       *)
(* headers that are inserted but not committed.                             *)
(***************************************************************************)
EXTENDS EntrySums, FiniteSets

CONSTANTS
  Wallets,     \* ids of the wallet rows; uuids are compared as numbers
  Keys,        \* idempotency keys, stored as Transaction.reference
  Sessions,    \* database sessions, one for each request that is served
  Opening,     \* balance of each wallet when the observation starts
  Currency,    \* Wallet.currency, never updated
  MaxBalance,  \* largest magnitude a numeric(20,4) column holds
  NoTxn        \* "no header with this reference"

Types  == {"DEPOSIT", "WITHDRAWAL", "TRANSFER"}
Header == [type : Types, amount : Nat \ {0}]
Column == (-MaxBalance) .. MaxBalance
Entry  == [ref : Keys, amount : Column, after : Column]

ASSUME StoreAssumption ==
  /\ Wallets \subseteq Nat /\ IsFiniteSet(Wallets)
  /\ MaxBalance \in Nat
  /\ Opening \in [Wallets -> 0 .. MaxBalance]
  /\ NoTxn \notin Header

VARIABLES
  balance,  \* wallet_wallet.balance
  txn,      \* the committed header of each reference, or NoTxn
  ledger,   \* the committed ledger entries of each wallet, oldest first
  held,     \* the row locks of each open transaction
  pending   \* references each open transaction inserted and did not commit

storeVars == <<balance, txn, ledger, held, pending>>

StoreTypeOK ==
  /\ balance \in [Wallets -> Column]
  /\ txn \in [Keys -> Header \cup {NoTxn}]
  /\ ledger \in [Wallets -> Seq(Entry)]
  /\ held \in [Sessions -> SUBSET Wallets]
  /\ pending \in [Sessions -> SUBSET Keys]

StoreInit ==
  /\ balance = Opening
  /\ txn = [k \in Keys |-> NoTxn]
  /\ ledger = [w \in Wallets |-> <<>>]
  /\ held = [s \in Sessions |-> {}]
  /\ pending = [s \in Sessions |-> {}]

-----------------------------------------------------------------------------
(* Statements of a transaction.  A definition written just before the one  *)
(* it resembles (TakeRowUnlocked, ReferenceNotUnique, ...) is a faulty      *)
(* variant: no specification uses it, it stands in for the real one to see  *)
(* which property notices.                                                 *)

RowFree(w) == \A s \in Sessions : w \notin held[s]

\* SELECT ... FOR UPDATE gets one row; it waits while another holds it.
TakeRowUnlocked(s, w) == held' = [held EXCEPT ![s] = @ \cup {w}]
TakeRow(s, w) ==
  /\ RowFree(w)
  /\ held' = [held EXCEPT ![s] = @ \cup {w}]

Committed(k) == txn[k] # NoTxn

\* An INSERT with a reference that is in flight elsewhere waits for that
\* transaction to end; with a committed reference it fails.
ReferenceNotUnique(k) == TRUE
ReferenceNotCommitted(k) == ~Committed(k)
ReferenceFree(k) == ~Committed(k) /\ \A s \in Sessions : k \notin pending[s]

InsertReference(s, k) ==
  /\ ReferenceFree(k)
  /\ pending' = [pending EXCEPT ![s] = @ \cup {k}]

EndTransaction(s) ==
  /\ held' = [held EXCEPT ![s] = {}]
  /\ pending' = [pending EXCEPT ![s] = {}]

Rollback(s) == EndTransaction(s) /\ UNCHANGED <<balance, txn, ledger>>

\* COMMIT of a posting: the header of k, the new balances "after" and one
\* ledger entry for each wallet of "amounts" appear at once.
Commit(s, k, header, amounts, after) ==
  /\ txn' = [txn EXCEPT ![k] = header]
  /\ balance' = [w \in Wallets |->
                   IF w \in DOMAIN amounts THEN after[w] ELSE balance[w]]
  /\ ledger' = [w \in Wallets |->
                  IF w \in DOMAIN amounts
                  THEN Append(ledger[w], [ref    |-> k,
                                          amount |-> amounts[w],
                                          after  |-> after[w]])
                  ELSE ledger[w]]
  /\ EndTransaction(s)

-----------------------------------------------------------------------------
(* What the tables must satisfy.                                           *)

\* No wallet is ever overdrawn: the funds checks and the balance writes of
\* concurrent withdrawals and transfers never combine into a negative balance.
NonNegative == \A w \in Wallets : balance[w] >= 0

\* README "Key Design Decisions": the ledger entries of a wallet sum up to
\* its balance, whatever was interleaved, rolled back or lost.
Reconciled ==
  \A w \in Wallets : balance[w] = EntrySum(Opening[w], ledger[w])

PreviousAfter(w, i) == IF i = 1 THEN Opening[w] ELSE ledger[w][i - 1].after

\* balance_after is a running balance: each entry continues from the entry
\* before it (no lost update between two postings of a wallet), and the last
\* one is the wallet's balance.
LedgerChains ==
  \A w \in Wallets :
    /\ \A i \in 1 .. Len(ledger[w]) :
         ledger[w][i].after = PreviousAfter(w, i) + ledger[w][i].amount
    /\ balance[w] = PreviousAfter(w, Len(ledger[w]) + 1)

EntryIds == UNION {{w} \X DOMAIN ledger[w] : w \in Wallets}
EntriesOf(k) == {e \in EntryIds : ledger[e[1]][e[2]].ref = k}
AmountOf(e) == ledger[e[1]][e[2]].amount

\* A reference nobody committed has no entries; a committed header owns exactly
\* the entries its type and amount call for - one credit, one debit, or a debit
\* and a credit of two wallets of one currency.
Booked(k) ==
  \/ /\ ~Committed(k)
     /\ EntriesOf(k) = {}
  \/ /\ Committed(k)
     /\ \/ /\ txn[k].type = "DEPOSIT"
           /\ \E c \in EntriesOf(k) : /\ EntriesOf(k) = {c}
                                      /\ AmountOf(c) = txn[k].amount
        \/ /\ txn[k].type = "WITHDRAWAL"
           /\ \E d \in EntriesOf(k) : /\ EntriesOf(k) = {d}
                                      /\ AmountOf(d) = -txn[k].amount
        \/ /\ txn[k].type = "TRANSFER"
           /\ \E d, c \in EntriesOf(k) :
                /\ EntriesOf(k) = {d, c}
                /\ d[1] # c[1]
                /\ Currency[d[1]] = Currency[c[1]]
                /\ AmountOf(d) = -txn[k].amount
                /\ AmountOf(c) = txn[k].amount

\* Double entry: no header without its entries, and no entry without a header,
\* whatever was interleaved, rolled back or lost.
LedgerMatchesTxns == \A k \in Keys : Booked(k)

\* What a step may never do: replace a committed header (a reference is used
\* once, for good) or rewrite an entry of a wallet's history.
AppendsOnly ==
  /\ \A k \in Keys : Committed(k) => txn'[k] = txn[k]
  /\ \A w \in Wallets :
       /\ Len(ledger[w]) <= Len(ledger'[w])
       /\ \A i \in 1 .. Len(ledger[w]) : ledger'[w][i] = ledger[w][i]
HistoryAppendOnly == [][AppendsOnly]_storeVars

=============================================================================
