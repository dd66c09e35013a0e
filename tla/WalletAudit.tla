---------------------------- MODULE WalletAudit ----------------------------
(***************************************************************************)
(* The Celery task audit_wallet_balances, run by celery beat every hour     *)
(* beside the postings.  It is no database transaction: one query reads all  *)
(* wallets, then one query per wallet sums the ledger, and postings commit   *)
(* in between.  Postings are those of the atomic Ledger.  Drift is a balance *)
(* written without its ledger entry, the fault the audit exists for.        *)
(***************************************************************************)
EXTENDS Ledger, EntrySums

CONSTANT MaxDrifts  \* bound: balances written behind the ledger's back

VARIABLES
  snapshot,    \* the balances the running audit has read
  todo,        \* wallets whose ledger sum it has not asked for yet
  mismatches,  \* discrepancies it has found so far
  report,      \* the mismatches of the last audit that ended
  disturbed,   \* wallets written since the running audit read them
  drifts       \* number of Drift steps so far

auditVars == <<snapshot, todo, mismatches, report>>
allVars == <<balance, txn, ledger, snapshot, todo, mismatches, report,
             disturbed, drifts>>

ASSUME AuditAssumption ==
  /\ Wallets # {} /\ MaxDrifts \in Nat
  /\ MaxBalance \in Nat
  /\ Opening \in [Wallets -> 0 .. MaxBalance]

\* The sum of all entries of a wallet, those before the observation included.
LedgerSum(w) == EntrySum(Opening[w], ledger[w])

Drifted(w) == balance[w] # LedgerSum(w)

AuditTypeOK ==
  /\ balance \in [Wallets -> 0 .. MaxBalance]
  /\ snapshot \in [Wallets -> 0 .. MaxBalance]
  /\ todo \subseteq Wallets
  /\ mismatches \subseteq Wallets \ todo
  /\ report \subseteq Wallets
  /\ disturbed \subseteq Wallets
  /\ drifts \in 0 .. MaxDrifts

AuditInit ==
  /\ Init
  /\ snapshot = Opening
  /\ todo = {}
  /\ mismatches = {}
  /\ report = {}
  /\ disturbed = {}
  /\ drifts = 0

\* Wallet.objects.all(): one query.
StartAuditWithOldRows ==
  /\ todo = {}
  /\ todo' = Wallets
  /\ mismatches' = {}
  /\ disturbed' = {}
  /\ UNCHANGED <<balance, txn, ledger, snapshot, report, drifts>>
StartAuditKeepingMismatches ==
  /\ todo = {}
  /\ todo' = Wallets
  /\ snapshot' = balance
  /\ disturbed' = {}
  /\ UNCHANGED <<balance, txn, ledger, mismatches, report, drifts>>
StartAudit ==
  /\ todo = {}
  /\ todo' = Wallets
  /\ snapshot' = balance
  /\ mismatches' = {}
  /\ disturbed' = {}
  /\ UNCHANGED <<balance, txn, ledger, report, drifts>>

DiscrepancyOverstated(w) == snapshot[w] > LedgerSum(w)
Discrepancy(w) == snapshot[w] # LedgerSum(w)

\* One turn of the loop: the ledger sum of one wallet, compared with the
\* balance read at the start; the task returns after the last one.
AuditWallet(w) ==
  /\ w \in todo
  /\ todo' = todo \ {w}
  /\ mismatches' = IF Discrepancy(w) THEN mismatches \cup {w} ELSE mismatches
  /\ report' = IF todo = {w} THEN mismatches' ELSE report
  /\ UNCHANGED <<balance, txn, ledger, snapshot, disturbed, drifts>>

Disturb ==
  disturbed' = disturbed \cup {w \in Wallets : balance'[w] # balance[w]}

Posting ==
  /\ Next
  /\ Disturb
  /\ UNCHANGED <<auditVars, drifts>>

Drift(w, b) ==
  /\ drifts < MaxDrifts
  /\ b # balance[w]
  /\ balance' = [balance EXCEPT ![w] = b]
  /\ drifts' = drifts + 1
  /\ Disturb
  /\ UNCHANGED <<txn, ledger, auditVars>>

AuditStep == StartAudit \/ \E w \in Wallets : AuditWallet(w)

AuditNext ==
  \/ AuditStep
  \/ Posting
  \/ \E w \in Wallets, b \in 0 .. MaxBalance : Drift(w, b)

\* Beat starts the next audit and the worker runs its queries; nothing makes
\* clients post.
AuditSpec == AuditInit /\ [][AuditNext]_allVars /\ WF_allVars(AuditStep)

-----------------------------------------------------------------------------
(* Properties.                                                             *)

\* The verdict on a wallet nobody wrote since the audit read it is exact: it
\* is listed if and only if its balance differs from its ledger.
VerdictExactWhenQuiet ==
  \A w \in Wallets \ (todo \cup disturbed) : w \in mismatches <=> Drifted(w)

\* A drift that stays is found, and a false alarm does not stay: keys run
\* out, so postings end, and from some audit on the report is exact.
ReportConverges == <>[](report = {w \in Wallets : Drifted(w)})

\* "AUDIT FAILED: Found n wallet balance discrepancies!": every wallet an
\* ended audit reports has, or had when it was read, such a discrepancy.
OnlyRealDiscrepancies ==
  drifts = 0 => report = {}

=============================================================================
