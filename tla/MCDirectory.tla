----------------------------- MODULE MCDirectory -----------------------------
(***************************************************************************)
(* Instance of WalletDirectory for TLC: four requests for one address whose *)
(* domain is typed in two ways and for one currency typed in two ways, or    *)
(* for an email, a currency or a name that is longer than its column.       *)
(***************************************************************************)
EXTENDS WalletDirectory, TLC

MCEmails == {"ann@ex", "ann@EX", "longann@ex"}
MCNormalize == [e \in MCEmails |-> IF e = "ann@EX" THEN "ann@ex" ELSE e]
MCCurrencies == {"usd", "USD", "DOLLAR"}
MCUpper == [c \in MCCurrencies |-> IF c = "usd" THEN "USD" ELSE c]
MCNames == {"main", "longname"}
MCTooLong == {"longann@ex", "DOLLAR", "longname"}

Ask(kind, stack, email, currency, name) ==
  [kind |-> kind, stack |-> stack, email |-> email,
   currency |-> currency, name |-> name]

\* Every registration and login; wallets of either owner, on either stack.
MCWanted ==
  {Ask("register", stack, e, "USD", "main") : stack \in Stacks, e \in MCEmails}
  \cup {Ask("login", stack, e, "USD", "main") :
     stack \in Stacks, e \in MCEmails \ MCTooLong}
  \cup {Ask("wallet", stack, e, c, "main") :
     stack \in Stacks, e \in MCEmails \ MCTooLong, c \in {"usd", "USD"}}
  \cup {Ask("wallet", stack, "ann@ex", "DOLLAR", "main") : stack \in Stacks}
  \cup {Ask("register", stack, "ann@ex", "USD", "longname") : stack \in Stacks}

RequestSymmetry == Permutations(Requests)

=============================================================================
