----------------------------- MODULE AdminLists -----------------------------
(***************************************************************************)
(* The admin panel beside the postings: the dashboard's admin tab, the paged *)
(* list of all transactions behind it and the statistics, as both stacks    *)
(* serve them.  No answer is one database transaction: a page is a COUNT and *)
(* then a slice by offset, the statistics are one query per number, and     *)
(* postings commit in between.  The list of all wallets is the same code    *)
(* over another table.                                                      *)
(***************************************************************************)
EXTENDS Ledger, SequencesExt, FiniteSets

CONSTANTS
  PageSize,  \* rows of a page; the tab divides its count by the same number
  Searches,  \* what is typed into the search field: "" or a transaction type
  MaxCalls   \* bound: list calls in flight

Stacks == {"django", "dotnet"}

ASSUME AdminAssumption ==
  /\ {PageSize, MaxCalls} \subseteq Nat \ {0} /\ "" \in Searches
  /\ IsFiniteSet(Keys) /\ Keys = 1 .. Cardinality(Keys)

VARIABLES
  stack,      \* the stack that serves the panel
  rows,       \* committed references, newest created_at first
  tab,        \* page, search, rows shown and count of the tab
  calls,      \* its list calls in flight, oldest first
  garbled,    \* a reply was lost or overtaken, or the page was turned early
  walk,       \* what turning the pages since the search was typed has shown
  stats       \* the statistics request

listVars == <<tab, calls, garbled, walk>>
adminVars == <<stack, rows, listVars, stats>>

\* The rows of a list that are in "keep", in its order; a recursive function
\* instead of SelectSeq, so that the provers can reason about it.
Kept(list, keep) ==
  LET kept[i \in 0 .. Len(list)] ==
        IF i = 0 THEN <<>>
        ELSE IF list[i] \in keep THEN Append(kept[i - 1], list[i]) ELSE kept[i - 1]
  IN  kept[Len(list)]

Matching(search) == {k \in ToSet(rows) : search \in {"", txn[k].type}}
Among(list, search) == Kept(list, Matching(search))
Sent(page, search) == [page |-> page, search |-> search, step |-> "sent",
                       count |-> 0, rows |-> <<>>, shifted |-> FALSE]

\* Of n rows at least one is on the page, or it is the first page.
BeginsWithin(page, n) == page = 1 \/ (page - 1) * PageSize < n

\* What is listed is what was committed, once each; a page asked for begins
\* within the list of all postings, whatever is searched for.
AdminTypeOK ==
  /\ rows \in Seq(Keys) /\ IsInjective(rows)
  /\ ToSet(rows) = {k \in Keys : txn[k] # NoTxn} /\ ToSet(rows) = 1 .. Len(rows)
  /\ tab.page \in Nat \ {0} /\ BeginsWithin(tab.page, Len(rows))
  /\ tab.search \in Searches
  /\ Len(tab.shown) <= PageSize /\ tab.count <= Len(rows)
  /\ Len(calls) <= MaxCalls
  /\ \A i \in DOMAIN calls : Len(calls[i].rows) <= PageSize

\* Turning the pages begins, over the rows there are.
NewWalk == [from |-> Len(rows), seen |-> {}, shifted |-> FALSE, hasty |-> FALSE]

\* The panel has just been opened: the effect of App.jsx sends the first call.
AdminInit ==
  /\ stack \in Stacks
  /\ rows = <<>>
  /\ tab = [page |-> 1, search |-> "", shown |-> <<>>, count |-> 0]
  /\ calls = <<Sent(1, "")>>
  /\ garbled = FALSE
  /\ walk = NewWalk
  /\ stats = [step |-> "idle", ngn |-> 0, usd |-> 0, txns |-> 0]

\* A posting commits; keys are only names, so the n-th posting has key n.
\* created_at is set before the COMMIT: the new row may belong below rows that
\* are listed already.
ListRow ==
  \E i \in 1 .. Len(rows) + 1 :
    /\ txn'[Len(rows) + 1] # NoTxn
    /\ rows' = InsertAt(rows, i, Len(rows) + 1)
    /\ calls' = [c \in DOMAIN calls |->
                   [calls[c] EXCEPT !.shifted = @ \/ calls[c].step = "counted"]]
    /\ UNCHANGED <<stack, tab, garbled, walk, stats>>

-----------------------------------------------------------------------------
(* The tab.  A change of page or search sends a call for the new ones.      *)

Call(page, search) ==
  /\ Len(calls) < MaxCalls
  /\ calls' = Append(calls, Sent(page, search))
  /\ tab' = [tab EXCEPT !.page = page, !.search = search]
  /\ UNCHANGED <<stack, rows, stats>>

TypeSearchOnSamePage(search) ==
  /\ search # tab.search
  /\ Call(tab.page, search)
  /\ garbled' = FALSE
  /\ walk' = NewWalk
TypeSearch(search) ==
  /\ search # tab.search
  /\ Call(1, search)
  /\ garbled' = FALSE
  /\ walk' = NewWalk

\* The ">" button.  The count it asks belongs to another search as long as the
\* first page of this one has not arrived.
FirstPagePending == \E c \in ToSet(calls) : c.page = 1
TurnForwardUnchecked ==
  /\ Call(tab.page + 1, tab.search)
  /\ garbled' = (garbled \/ FirstPagePending)
  /\ walk' = [walk EXCEPT !.hasty = @ \/ calls # <<>>]
TurnForward ==
  /\ tab.page * PageSize < tab.count
  /\ Call(tab.page + 1, tab.search)
  /\ garbled' = (garbled \/ FirstPagePending)
  /\ walk' = [walk EXCEPT !.hasty = @ \/ calls # <<>>]

\* The "<" button, and leaving the tab and opening it again.
TurnBack ==
  /\ tab.page > 1
  /\ Call(tab.page - 1, tab.search)
  /\ UNCHANGED <<garbled, walk>>
Reopen ==
  /\ Call(tab.page, tab.search)
  /\ UNCHANGED <<garbled, walk>>

-----------------------------------------------------------------------------
(* The server's two queries for a page, and the reply.                      *)

Serve(i, call) ==
  /\ calls' = [calls EXCEPT ![i] = call]
  /\ UNCHANGED <<stack, rows, tab, garbled, walk, stats>>

\* Django's paginator answers 404 to a page beyond the last one; an empty list
\* has a first page.
Beyond(page, count) ==
  stack = "django" /\ page > 1 /\ (page - 1) * PageSize >= count

CountRows(i) ==
  LET c == calls[i]
      n == Len(Among(rows, c.search))
  IN  /\ c.step = "sent"
      /\ Serve(i, [c EXCEPT !.count = n,
                            !.step = IF Beyond(c.page, n) THEN "refused"
                                                          ELSE "counted"])

\* Django ends the slice of the last page at the count, .NET takes a page.
End(page, count) ==
  IF stack = "django" /\ count < page * PageSize THEN count ELSE page * PageSize
PageOfFromPageZero(list, page, count) ==
  SubSeq(list, page * PageSize + 1,
         IF Len(list) < End(page, count) THEN Len(list) ELSE End(page, count))
PageOf(list, page, count) ==
  SubSeq(list, (page - 1) * PageSize + 1,
         IF Len(list) < End(page, count) THEN Len(list) ELSE End(page, count))

FetchPage(i) ==
  LET c == calls[i]
  IN  /\ c.step = "counted"
      /\ Serve(i, [c EXCEPT !.step = "answered",
                            !.rows = PageOf(Among(rows, c.search), c.page, c.count)])

\* Replies are shown in the order they arrive, whatever the tab asks for by
\* then; one that is not ok changes nothing.
Reply(i) ==
  LET c == calls[i]
  IN  /\ c.step \in {"answered", "refused"}
      /\ calls' = RemoveAt(calls, i)
      /\ garbled' = (garbled \/ i # 1)
      /\ IF c.step = "refused" THEN UNCHANGED <<tab, walk>>
         ELSE /\ tab' = [tab EXCEPT !.shown = c.rows, !.count = c.count]
              /\ walk' = IF c.search # tab.search THEN walk
                         ELSE [walk EXCEPT !.seen = @ \cup ToSet(c.rows),
                                           !.shifted = c.shifted]
      /\ UNCHANGED <<stack, rows, stats>>

Lose(i) ==
  /\ calls' = RemoveAt(calls, i)
  /\ garbled' = TRUE
  /\ UNCHANGED <<stack, rows, tab, walk, stats>>

ListStep ==
  \/ \E s \in Searches : TypeSearch(s)
  \/ TurnForward \/ TurnBack \/ Reopen
  \/ \E i \in DOMAIN calls : CountRows(i) \/ FetchPage(i) \/ Reply(i) \/ Lose(i)

-----------------------------------------------------------------------------
(* The statistics: totals of the currencies, then the number of postings.   *)

Holding(currency) == {w \in Wallets : Currency[w] = currency}
Total(balances, currency) ==
  FoldSet(LAMBDA w, sum : balances[w] + sum, 0, Holding(currency))

\* The queries in the order of the code.
NextQueryCountFirst == [idle |-> "count", count |-> "ngn", ngn |-> "usd",
                        usd |-> "answered", answered |-> "count"]
NextQuery == [idle |-> "ngn", ngn |-> "usd", usd |-> "count",
              count |-> "answered", answered |-> "ngn"]

Query(step, answer) ==
  /\ stats.step = step
  /\ stats' = [answer EXCEPT !.step = NextQuery[step]]
  /\ UNCHANGED <<stack, rows, listVars>>

AskStats == \E step \in {"idle", "answered"} :
  Query(step, [step |-> step, ngn |-> 0, usd |-> 0, txns |-> 0])
SumNgn == Query("ngn", [stats EXCEPT !.ngn = Total(balance, "NGN")])
SumUsd == Query("usd", [stats EXCEPT !.usd = Total(balance, "USD")])
CountTxns == Query("count", [stats EXCEPT !.txns = Len(rows)])

StatisticsStep == AskStats \/ SumNgn \/ SumUsd \/ CountTxns

=============================================================================
