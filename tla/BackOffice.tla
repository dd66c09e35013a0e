----------------------------- MODULE BackOffice -----------------------------
(***************************************************************************)
(* The readers of the ledger - the hourly audit, the admin panel's list and *)
(* its statistics - beside one stream of postings.  No reader writes what    *)
(* another reads, so each behaviour has one of them at work, "reader", and  *)
(* nothing is lost by not interleaving them.                               *)
(***************************************************************************)
EXTENDS WalletAudit, AdminLists

Readers == {"audit", "list", "statistics"}

CONSTANTS
  MaxPostings,  \* bound: postings beside each reader
  Moving        \* bound: the wallets they move

ASSUME OfficeAssumption ==
  /\ MaxPostings \in [Readers -> Nat]
  /\ Moving \in [Readers -> SUBSET Wallets]

VARIABLE reader

officeVars == <<allVars, adminVars, reader>>

OfficeInit ==
  /\ AuditInit
  /\ AdminInit
  /\ reader \in Readers

PostAndList ==
  /\ Len(rows) < MaxPostings[reader]
  /\ Posting
  /\ \A w \in Wallets \ Moving[reader] : balance'[w] = balance[w]
  /\ ListRow
  /\ UNCHANGED reader

Auditing ==
  /\ reader = "audit"
  /\ \/ AuditStep
     \/ \E w \in Wallets, b \in 0 .. MaxBalance : Drift(w, b)
  /\ UNCHANGED <<adminVars, reader>>

Listing ==
  /\ reader = "list"
  /\ ListStep
  /\ UNCHANGED <<allVars, reader>>

Summing ==
  /\ reader = "statistics"
  /\ StatisticsStep
  /\ UNCHANGED <<allVars, reader>>

OfficeNext == PostAndList \/ Auditing \/ Listing \/ Summing

OfficeSpec ==
  /\ OfficeInit
  /\ [][OfficeNext]_officeVars
  /\ WF_officeVars(Auditing /\ AuditStep)

-----------------------------------------------------------------------------
(* Properties.                                                             *)

\* The audit's reports converge in the behaviours that have it at work.
AuditConverges == reader = "audit" => ReportConverges

\* The list as it was after the first n postings had committed.
ListAfter(n) == Kept(rows, 1 .. n)

\* Unless a reply was lost or overtaken, or the page was turned before the
\* count of its search had arrived, the settled tab shows what it says: the
\* count of its search at one moment and its page at a later one, both since
\* the search was typed.  In particular no page asked for is beyond the end.
SettledTabIsCurrent ==
  (reader = "list" /\ calls = <<>> /\ ~garbled) =>
    \E n \in walk.from .. Len(rows) :
      /\ tab.count = Len(Among(ListAfter(n), tab.search))
      /\ \E m \in n .. Len(rows) :
           tab.shown = PageOf(Among(ListAfter(m), tab.search), tab.page, tab.count)

\* Turning the pages one by one up to the last shows every row that was there
\* when the search was typed, although rows are added above and between them.
\* Two things only may let an old row slip by: a posting between the last page's
\* COUNT and its slice, and a page turned before the one before it has arrived.
WalkShowsEveryRow ==
  (/\ reader = "list" /\ calls = <<>> /\ ~garbled /\ ~walk.hasty
   /\ tab.page * PageSize >= tab.count /\ ~walk.shifted)
    => ToSet(Among(ListAfter(walk.from), tab.search)) \subseteq walk.seen

\* The balances after the first n postings, and their total in a currency.
BalanceAfter(n, w) ==
  EntrySum(Opening[w],
           [i \in DOMAIN ledger[w] |->
              [amount |-> IF ledger[w][i].ref <= n THEN ledger[w][i].amount ELSE 0]])
TotalAfter(n, currency) == Total([w \in Wallets |-> BalanceAfter(n, w)], currency)

\* The statistics are no snapshot, but they are in order: the NGN total is the
\* one after some number of postings, the USD total after at least as many, and
\* the number of postings reported covers both.  No total contains half a
\* transfer.
StatisticsInOrder ==
  stats.step = "answered" =>
    \E n \in 0 .. stats.txns : \E m \in n .. stats.txns :
      /\ stats.ngn = TotalAfter(n, "NGN")
      /\ stats.usd = TotalAfter(m, "USD")

=============================================================================
