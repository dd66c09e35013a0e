------------------------------ MODULE EntrySums ------------------------------
(***************************************************************************)
(* Sums of ledger entries.  A recursive function instead of a fold, so that *)
(* the provers can reason about it.                                        *)
(***************************************************************************)
EXTENDS Integers, Sequences

\* What the balance was after each of the entries, "opening" before the first.
RunningSum(opening, entries) ==
  LET sum[i \in 0 .. Len(entries)] ==
        IF i = 0 THEN opening ELSE sum[i - 1] + entries[i].amount
  IN  sum

EntrySum(opening, entries) == RunningSum(opening, entries)[Len(entries)]

=============================================================================
