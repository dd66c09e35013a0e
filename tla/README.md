# Thor wallet: TLA+ models, checks and proofs

Thor is a digital wallet implemented twice - Django REST Framework and ASP.NET
Core - over one PostgreSQL database, with a React dashboard and a traffic
simulator as clients.  This directory models its money paths, its audit and
admin panel, its shared directory of users and wallets, and its two clients; TLC
checks the models on small instances, and TLAPS proves the safety of both APIs, alone
and side by side over one database, of the audit, the admin panel, the directory, the
dashboard and the simulator for any number of requests, users, wallets and keys.

`tlc -workers 2 -config MCDjango.cfg MCDjango.tla` runs a model check;
`tlapm DjangoWalletApiProofs.tla` checks the proofs of a module.

## 1. Inventory

| Component | Code | State | Operations | Module |
|---|---|---|---|---|
| Tables | `wallet/models.py`, `transaction/models.py`, `AppDbContext.cs` | balances, headers with a unique reference, ledger entries; row locks and uncommitted index entries | lock a row, insert a header, commit, roll back | `WalletStore`; what it promises: `Ledger` |
| Django transaction API | `transaction/views.py`, `transaction/serializers.py`, `wallet/services.py` | Redis locks `lock:idempotency:<key>`; per request its statement, loaded wallets, answer | deposit, withdraw, transfer | `DjangoWalletApi` |
| .NET transaction API | `TransactionController.cs`, `WalletService.cs` | the same, and the entities tracked by the request's `DbContext` | deposit, withdraw, transfer | `DotnetWalletApi` |
| Two-stack deployment | `docker-compose.yml`, `settings.py`, `Program.cs` | both of the above over one store | all of the above | `TwoStacks` |
| Ledger audit | `wallet/tasks.py` | balances read, wallets still to sum, mismatches | one hourly run of several queries | `WalletAudit` |
| Registration, login, wallet creation | `user/`, `wallet/views.py`, `wallet/serializers.py`, `AuthController.cs`, `WalletController.cs` | rows of `user_user` and `wallet_wallet` | register, log in, create a wallet, on either stack | `WalletDirectory` |
| Dashboard | `frontend/src/App.jsx` | page state, localStorage token, calls in flight; recipient, wallet id, suggestions and lookups of the transfer form | sign in and out, select, open and submit forms, tabs, reload; type, look up, pick or paste a recipient | `Dashboard`, `TransferForm`; together: `Browser` |
| Traffic simulator | `simulate_traffic.py` | users, thread pool, counters, final sum | wait for the API, provision, transfer, duplicate, reconcile | `TrafficSimulator` |
| Admin lists and statistics | `admin_views.py`, `AdminController.cs`, `pagination.py`, the admin tab of `App.jsx` | the tab's page, search, rows and count; calls in flight; per answer several queries | type a search, turn pages, count, slice, reply; statistics | `AdminLists`; beside postings: `BackOffice` |
| Token service, proxies, pool, health checks, Django admin site, benchmark script | `TokenService.cs`, `nginx*.conf`, `pgbouncer.ini`, `run_benchmark.sh`, ... | none of their own | - | not modelled (section 8) |

**How they interact.**  A client sends `X-Idempotency-Key` with every posting.  An
API looks the key up as `Transaction.reference`, takes a Redis lock of 30 s,
validates, and posts in one database transaction: it locks the wallet rows in the
order of their ids, inserts the header, writes balances and ledger entries.  The
two stacks meet only in the tables: their Redis locks lie in different databases
of one server (Django: 1, with a key prefix; .NET: 0).  The audit reads the tables
the APIs write.  The dashboard and the simulator see answers only, may give up a
call that goes on at the server, and repeat calls.

**What is hard**, and which properties answer it:

* lost updates, overdrafts and broken histories when requests interleave between
  their reads, row locks and commits: `Reconciled`, `LedgerChains`,
  `NonNegative`, `LedgerMatchesTxns`;
* deadlocks over row locks and the unique index, within and across the stacks:
  `NoWaitCycle`, `NoCrossStackCycle`;
* idempotency with a lock that expires, that has no owner and is deleted by
  whoever ends first, with crashes and lost answers, and with statements that fail at
  PostgreSQL or Redis - also after the COMMIT, where a release that raises turns the
  answer of a committed posting into a 500: `AnswersMatchStore`, `HistoryAppendOnly`,
  `OneStackPosts`, `KeepsPromise`;
* progress when workers die while they hold a key: `EveryRequestAnswered`,
  `LocksEndFree`;
* reads that are stale when they are used (tracked entities, the audit's
  balances, a closure's `activeWallet`): `FreshPostingsChain`,
  `VerdictExactWhenQuiet`, `SettledViewIsCurrent`, `PostsWhatItShows`;
* check-then-insert without a lock, and who is turned away or fails for it:
  `OneCreatorPerRow`, `RefusedForCause`;
* answers put together from several queries without a snapshot, and replies that overtake
  each other: `WalkShowsEveryRow`, `SettledTabIsCurrent`, `StatisticsInOrder`;
* calls that time out at the client and succeed at the server:
  `TalliesMatchPostings`, `VerdictExactWhenClean`.

`PROJECT.json` lists every hazard with its line.

## 2. The modules

Names follow the code.  One action is one statement that other actors can tell
from the next; the comment at each action says which.  **A definition written just
before the one it resembles** (`TakeRowUnlocked` before `TakeRow`) **is a faulty
variant**: no specification uses it, it takes the place of the real one to
see that a property notices the fault.

**`Ledger`** is the abstract promise: a key is used for at most one posting; a
posting happens at once, leaves balances in `0 .. MaxBalance` and records
itself.  **`WalletStore`** is PostgreSQL as the APIs use it at READ COMMITTED.
`TakeRow` waits for the holder of a row; `ReferenceFree` waits for a reference in
flight and fails on a committed one; `Commit` makes the header, balances and
entries visible at once.  Writes between the header's INSERT and the COMMIT
touch only rows locked by the transaction and are seen by nobody else, so they
are part of `Commit`; an overflow of `numeric(20,4)` is decided there too.

**`EntrySums`** holds the sum of ledger entries, a recursive function so that it can be
proved about; so is `Kept`, the filter of `AdminLists`.

**`DjangoWalletApi`** has one program counter per request: `lookup`, `acquire`,
`validate`, `lock` (one `LockRow` per wallet row), `insert`, `post`, `release`, `done`.  `loaded`
is what `select_for_update` returned.  `Crash` may strike at any step: the server
rolls back, the Redis lock stays.  And any statement may raise because PostgreSQL or
Redis does not answer: before the `try` that is a 500 at once, and Redis may have set the
lock all the same (`FailBefore`); inside it the transaction rolls back and `finally` runs
(`FailInside`); in `finally` the exception of `cache.delete` replaces whatever the answer
was, also the 201 of a posting that is committed, and the lock may stay (`FailRelease`).  A
connection lost while the COMMIT is confirmed is an error of a committed posting too, the
second answer of `Post`.  `Expire` may drop a Redis lock at any moment, whatever its
request does.  A retry is another request with the same key.

**`DotnetWalletApi`** differs in `tracked`: Entity Framework returns the
instance it already tracks, so `TrackSource` and `TrackDestination` (the reads of
the controller's `Transfer`) fix the balances the service computes with, while
`LockRow` only tracks what is not tracked yet.  Its failures are the same
(`KeyDeleteAsync`, `CommitAsync`).  It counts in half units of the
column so that amounts finer than the column exist; `RoundToColumn` rounds header,
entry and balance separately, as the three columns do.

**`TwoStacks`** instantiates both over one set of tables, in half units.  A password hash is
only good on the stack that made it.  A token is signed with one key on both, and still
of no use on the other: Django refuses one of .NET, which has no `token_type`; .NET accepts
one of Django, but its user there is the empty id, which owns no wallet, so that the
request is refused as any request for a foreign wallet is.  Hence the assumption that the
users whose requests get anywhere are disjoint; wallets of both kinds of users may be
touched by either stack through transfers.  Django's amounts are whole units, since its
`DecimalField` refuses a fifth decimal; the .NET API takes any amount, and the columns round.

**`WalletAudit`** extends `Ledger` with the Celery task: one query for all wallets,
one ledger sum per wallet, postings in between.  `Drift` stands for a balance
written without its entry (a stale .NET transfer, an edit in the admin site).

**`AdminLists`** is the admin panel: a page is a COUNT and then a slice by offset, in two
queries; postings insert rows above and - since `created_at` is set before the COMMIT -
between those that are listed (`ListRow`).  The two stacks differ: Django answers 404 beyond
the last page and ends the last page's slice at the count it has read, .NET takes a whole
page.  The tab shows replies in the order they arrive; `garbled` notes that one was lost or
overtaken, or that the page was turned on the count of an older search.  `AdminTypeOK` bounds the page by the postings there are: every page asked for begins within
the list of all of them, though not always within that of the search (a search typed later
has fewer rows, and the list may be asked for a page it does not have).  `walk` remembers
what has been shown since the search was typed, and whether a page was turned before the one
before it had arrived (`hasty`).  The statistics are one query per number.

**`BackOffice`** puts the audit, the list and the statistics beside one stream of
postings.  No reader writes what another reads, and no property speaks of two
readers, so a behaviour has one of them at work, `reader`: projecting a behaviour
of all three onto the postings and one reader gives a behaviour of the model.

**`WalletDirectory`** runs registrations, logins and wallet creations on both
stacks in their two steps, check and insert.  `Normalize` is Django's
lower-casing of an email's domain; `users` also says which stack hashed the password.
What is `TooLong` for its column is refused by Django's serializers and left to the column
by .NET.  A `Stranger` is a user of Django who creates a wallet on .NET: the token passes
`[Authorize]`, and the row of the empty id fails its foreign key.  "lost" is an answer that
never came, or a 500 that only says that PostgreSQL is gone; every other refusal and every
other 500 has a cause, which `RefusedForCause` names.

**`Dashboard`** is `App.jsx`.  An action is a handler up to its first await, the
server's work on one call, or the handler from its await on; a call carries the
token and `activeWallet` its closure captured.  Replies arrive in any order, late
or never; a reply `Lose` takes may be that of a posting, which is then made and not shown.  `stored` is each user's wallets in the database, newest first, as both APIs list
them; the data of a wallet is the number of its entries.  `Render` is part of every
action that changes what is rendered and reproduces an exception of the code: the preview
takes a substring of `tx.reference`, which rows of the history endpoint do not
have, and React unmounts the page (`blank`).

**`TransferForm`** is the recipient search inside the Send Money form: the box with its debounced lookups,
suggestions that arrive in any order, and the wallet id that a suggestion fills in or the user
pastes.  `origin` remembers where that id comes from.  The fields survive closing the form
and logging out.  The .NET API lists users without their wallets (`ListedCurrencies`), so that no suggestion
fills the id in there.

**`Browser`** puts the two side by side.  `Dashboard` lets a transfer go to any recipient and `TransferForm` lets
the page switch the active wallet, open, close or reset the form at any moment, so
neither reads what the other writes; a behaviour follows one of them, `half`.  `PostsWhatItShows` joins `PostsToOpenedWallet` of the one and
`PaysShownRecipient` of the other.

**`TrafficSimulator`** is the script: the wait for the API, which repeats its call without
end until one is answered (`Online`), provisioning, jobs on a pool of threads, an
optional duplicate after the primary has returned, counters, final reads.  The
server behind it is the transfer endpoint cut down to the steps a client can tell
apart (`Lookup`, `Acquire`, `Execute` with the release, `Break`, `Expire`), which go on
when the client has timed out; `Execute` may answer an error of a transfer it has posted.
It is Django's: `run_benchmark.sh` runs the script against .NET too, where a transfer may
lose an update (`dotnet_stale`) and nothing here is said of the balances.  `stats[...] += 1` is one step: under CPython's GIL no
thread switch falls between its load and its store.

**`MC*`** modules give the constants values; **`*Proofs`** modules hold the proofs (section 5).

## 3. The runs

| Run | Question | Instance |
|---|---|---|
| `django_safety` | Do colliding requests ever break the ledger, wait in a circle, answer wrongly, or do something `Ledger` does not allow? | 3 requests drawn from 7 payloads, 2 keys, 4 wallet ids |
| `django_liveness` | Is every request answered, does every Redis lock end? | 3 requests, 3 contending payloads |
| `dotnet_safety` | What survives tracked reads and rounding? | 3 requests from 9 payloads |
| `two_stacks` | Do both stacks together keep one posting per key and one lock order? | 2 Django requests for 1 payload, 2 .NET requests from 3 |
| `audit` (`MCBackOffice`) | When is the audit's verdict right, and does it become right?  Does the admin list miss rows or stay wrong?  What do the statistics mean? | 3 wallets, 4 keys, pages of 1 row, 2 calls in flight; at most 2 postings and 1 drift beside the audit, 4 postings beside the list, 3 beside the statistics |
| `directory` | Do creation races leave one creator per row, is nobody turned away without a cause, and do registered users get in? | 4 requests from 22 payloads |
| `dashboard` (`MCBrowser`) | Does the page end up current, do forms post to their wallet, does a transfer go to the recipient shown? | 2 users, 2 wallets, 2 calls in flight; in the form 2 contacts, 2 currencies, 5 texts, 2 lookups in flight, 1 transfer |
| `simulator` | Are counters and verdict right, does the script end once the API has answered? | 2 users, 2 transfers, 2 threads |
| four violation runs | see section 4 | the smallest instance that shows it |

**Why these bounds.**  Every conflict in the money paths is between two requests over a key
or two wallets; the third request lets a retry enter after a lock was lost or deleted by
another, and lets two waits of different kinds meet.  Two keys separate "same key" from
"other key".  Wallets 1 and 2 share a currency and have two owners, wallet 3 has another
currency, id 4 names no wallet; the opening balances lie close to zero and to `MaxBalance`
so that both ends of the column are hit. `MaxBalance` is the magnitude of `numeric(20,4)`,
made small.  `MaxDrifts` bounds writes behind the ledger's back; one is enough for one audit
to miss and the next to find.  `MaxCalls` = 2 is what it takes for one reply to overtake
another, `MaxForms` = 2 and `MaxPostings` bound the forms opened and the postings committed.
The constraint `DisturbedEarly` of `MCBrowser` follows a page after its first posting only
up to its first disturbance (a late, lost or denied reply); `SettledViewIsCurrent` says
nothing about disturbed pages, and `PostsToOpenedWallet` is decided when the first posting
commits.  In `MCBackOffice` a page has one row, so that three postings make three pages and
the offset of any page can shift while it is read; a fourth beside the list is what it takes
for one of three old rows to slip between two pages fetched at once.  Beside the list they
move one wallet only, because a list shows no balances; and beside a garbled tab with two calls in flight
nothing more is followed (`FollowedUntilGarbled`), since the list's properties speak again
only after a new search, which one call is enough for.  The simulator is followed until it
ends, since it sees nothing later.  With two transfers and two threads its pool cannot
overflow; that it never does is left to `SimulatorTypes`, which is for any numbers of both.

**Symmetry.**  Requests are told apart by their payload only, so runs without a
liveness property permute them.  Wallets are ordered by id and are not permuted.

**Fairness.**  `DjangoWalletApi!Fairness`: each request's next step is weakly fair (gunicorn
runs its threads; PostgreSQL queues lock waiters and grants a row when it is free, and since
`NoWaitCycle` holds each holder ends), and so is the expiry of each Redis key.  `BackOffice`
and `WalletAudit`: celery beat and the worker keep going.  `TrafficSimulator`: the script's
own steps, its timeouts included, are weakly fair once the API has answered a first time;
`Online`, which waits for that answer, and the server are not.  Crashes, failing statements,
lost messages and clients are never fair: nothing makes them happen.  The other modules state
safety only.

**Deadlock** is checked wherever the system cannot simply stop; a state in which all
requests are done stutters explicitly (`Quiescent`, `Ended`).

## 4. What the checks show

The Django API keeps everything it promises.  Its Redis lock turns out not to be what
makes it safe: it may expire, be deleted by another request or be missing across the
stacks, and the unique reference together with the ordered row locks still carry the properties.

The admin panel has no snapshot, and still: turning the pages one by one to the last misses
no row that was there when the search was typed (`WalkShowsEveryRow`), with two exceptions
the property names - on Django a posting between the last page's COUNT and slice may push the
oldest row off the end, and whoever clicks on before a page has arrived has two pages
fetched at once, between whose slices a row may slip through.  A tab at rest shows the count
of one moment and the page of a later one (`SettledTabIsCurrent`), and the totals
shown are totals of moments in order (`StatisticsInOrder`): never half a transfer, never a
count older than the totals.

Violation runs, each a finding in `PROJECT.json`:

1. `dotnet_stale` - the .NET transfer posts balances read before the row lock; a concurrent
   posting is lost and the ledger no longer sums up to the balance.
2. `dotnet_fraction` - a .NET amount below four decimals rounds differently in
   balance and entry, so the two drift apart.
3. `audit_false_alarm` - the audit reports a discrepancy of a wallet that has none when a
   posting commits between its queries.
4. `dashboard_double_click` - two clicks on a form's button are two postings, since each submit
   makes a key of its own.

Where these faults lie, the passing runs say what still holds: `FreshPostingsChain` (.NET
deposits and withdrawals continue the chain even beside stale transfers),
`ChainWithoutDotnetTransfers` (both stacks together are exact as long as nobody uses the
.NET transfer or withdraws a fraction of a unit there), `VerdictExactWhenQuiet` and `AuditConverges` (the report of an audit becomes
exact once postings end), `PostsWhatItShows`, `VerdictExactWhenClean`.

Seen while modelling and kept in the models, without a run of their own: the idempotency
lock expires after 30 s while its request may still execute (README line 102 promises
exclusion); the dashboard goes blank for every funded active wallet (`blank`); an email with
capitals in its domain can be registered but not used to log in with on Django; a user of
one stack gets a 401 or a 500 on the other (a login or a wallet on .NET with what Django
issued is an unhandled exception); a release that raises turns a 201 into a 500
(`AnswersMatchStore` says what a client may still rely on); the simulator's "concurrent" duplicate is
sequential, so a 409 occurs only after an error (`TalliesMatchPostings`); it reports "Double
spending or transaction leak" when a user was not provisioned, or when a transfer it gave up
commits between its final reads - the conditions of `VerdictExactWhenClean`; the .NET lists
build their `next` link from page and page size only, so it forgets the search
(`AdminController.cs:105`; the dashboard does not use it); the lists can be ordered by
amount or balance, where a row may move across pages while they are turned (the dashboard
never asks for it); without `REDIS_URL` Django's lock is local to a process
(`settings.py:181`), which the tables make up for as they do for an expired lock;
the transfer form may show one recipient and pay another
(`origin = "kept"`): selecting a recipient with no wallet in the currency leaves the wallet id of the one
selected before, although the form means to insist on "a valid recipient with a wallet"
(`App.jsx:306`); on .NET no suggestion can fill in a wallet, since the list of users comes without them
(`AuthController.cs:209`);
`run_benchmark.sh` prints "Matched (0.0000 NGN)" whatever the simulator found.

## 5. What is proved

All theorems are about any sets of requests, wallets (finitely many), keys, users and payloads
that satisfy the named assumptions of the modules (`StoreAssumption`, `ApiAssumption`,
`StacksAssumption`, `AuditAssumption`, `AdminAssumption`, `OfficeAssumption`,
`DirectoryAssumption`, `DashboardAssumption`, `FormAssumption`, `SimulatorAssumption`); those
say what the constants are, that payloads are well formed, that the simulator has finitely
many users and that the keys of the admin panel's postings are numbered, nothing about
behaviour.

| Module | Theorem | States |
|---|---|---|
| `DjangoWalletApiProofs` | `TypeCorrect` | `Spec => []TypeOK`: balances never leave their column |
| | `LocksProtect` | `Spec => []LockInv` |
| | `NeverOverdrawn` | `Spec => []NonNegative` |
| | `LedgerIsChain` | `Spec => []LedgerChains` |
| | `LedgerReconciles` | `Spec => []Reconciled`: the entries sum up to the balance |
| | `HistoryIsAppendOnly` | `Spec => HistoryAppendOnly` |
| | `ImplementsLedger` | `Spec => KeepsPromise`: refinement of `Ledger` |
| | `NoDeadlock` | `Spec => []NoWaitCycle` |
| | `DoubleEntry` | `Spec => []LedgerMatchesTxns` |
| | `AnswersAreTrue` | `Spec => []AnswersMatchStore` |
| `DotnetWalletApiProofs` | `DotnetTypes` | `Spec => []TypeOK` |
| | `DotnetNeverOverdrawn` | `Spec => []NonNegative` |
| | `DotnetDoubleEntry` | `Spec => []LedgerMatchesTxns` |
| | `FreshPostingsStayFresh` | `Spec => []FreshPostingsChain`, assuming `WholeWithdrawals` |
| | `DotnetNoDeadlock` | `Spec => []NoWaitCycle` |
| | `DotnetAnswersAreTrue` | `Spec => []AnswersMatchStore` |
| `TwoStacksProofs` | `NoCrossStackDeadlock` | `Spec => []NoCrossStackCycle` |
| | `NoOverdraftAcrossStacks` | `Spec => []NonNegative` |
| | `OneStackPostsAKey` | `Spec => []OneStackPosts` |
| | `ChainAcrossStacks` | `Spec => []ChainWithoutDotnetTransfers` |
| | `DoubleEntryAcrossStacks` | `Spec => []LedgerMatchesTxns` |
| | `HistoryAcrossStacks` | `Spec => HistoryAppendOnly` |
| `BackOfficeProofs` | `AuditTypes` | `AuditSpec => []AuditTypeOK` |
| | `VerdictIsExact` | `AuditSpec => []VerdictExactWhenQuiet` |
| | `VerdictIsExactInOffice` | the same two of `OfficeSpec` |
| | `AdminTypes` | `OfficeSpec => []AdminTypeOK` |
| | `SettledTab` | `OfficeSpec => []SettledTabIsCurrent` |
| | `WalkMissesNothing` | `OfficeSpec => []WalkShowsEveryRow` |
| | `StatisticsAreOrdered` | `OfficeSpec => []StatisticsInOrder` |
| `WalletDirectoryProofs` | `DirectoryTypes` | `Spec => []TypeOK` |
| | `OneCreator` | `Spec => []OneCreatorPerRow` |
| | `RefusalsAreFounded` | `Spec => []RefusedForCause` |
| | `RegisteredCanLogIn` | `Spec => LoginSeesRegistration` |
| `TrafficSimulatorProofs` | `SimulatorTypes` | `Spec => []TypeOK` |
| | `TalliesMatch` | `Spec => []TalliesMatchPostings` |
| | `VerdictIsExact` | `Spec => []VerdictExactWhenClean` |
| `BrowserProofs` | `BrowserTypes` | `BrowserSpec => []BrowserTypeOK` |
| | `FormsPostWhatTheyShow` | `BrowserSpec => []PostsWhatItShows` |
| | `SettledPageIsCurrent` | `BrowserSpec => []SettledViewIsCurrent` |
| `WalletStoreProofs` | `SumOfChain` | a chain of running balances sums up to its last one |

`WalletStoreProofs` also has the lemmas about `Commit` and the entries of a reference that
both APIs' proofs, alone and together, cite.  `DoubleEntryAcrossStacks` and
`HistoryAcrossStacks` state of both stacks what the runs check of each by itself.

**Django tables.**  The inductive invariant is `IInv == TypeOK /\ LockInv /\ NonNegative /\
LedgerChains`. `NonNegative` alone is not inductive: `Post` writes `loaded[from] - amount`,
and one has to know that `loaded` is the current balance (`Fresh`), which holds because the
row is locked by this request alone (`RowDiscipline`), that the funds check still holds
(`Funded`), and that a transfer names two wallets of one currency (`Validated`).
`HistoryAppendOnly` and the refinement also need that a reference in flight is not committed
(`PendingDiscipline`).  `NextInv` splits `Next` into five kinds of step - those that touch
only the request (`LocalStep`), the rollbacks, `LockRow`, `InsertHeader` and `Post` - with
one lemma each. `ImplementsLedger` shows that every step but `Post` leaves the tables alone
and that `Post` is a `Deposit`, `Withdraw` or `Transfer` of `Ledger`.  `IInv`'s conjuncts
are also invariants of `django_safety`.

**Reconciliation.**  If every entry continues from the entry before it and the last one ends
in the balance, the amounts telescope.  The inference goes along the length of the ledger.
The library's induction theorems take an operator as a parameter, so `WalletStoreProofs`
argues by a least counterexample instead: `LeastElement` gives every nonempty set of natural
numbers a least element, and at the first position where the running sums and the chain
disagree (`RunningSumUnique`) they would have agreed one before, hence there too.

**No circle of waits.**  In an API, and over both, the ids of the rows a request holds are
smaller than those it still needs (`LockOrder`, in `TwoStacksProofs` a part of `WaitInv`),
and a request whose reference is in flight waits for nothing, being past its waits.  So in a
circle everyone waits for a row; take the greatest row somebody in it holds and another
wants: its holder waits for a greater one.  Both stacks do the same thing to locks and
references, which `Moves` states once; `DjangoMoves` and `DotnetMoves` show it of the steps
of each.

**Double entry and answers.**  `Booked(k)` says what the tables hold for one key.  A posting
of another key leaves it alone (`CommitEntriesOfKeys`) and its own key had nothing
(`PendingDiscipline`).  For the answers, `AnswerDiscipline` states that a request is
answered once and at its end, and `PostAnswers` that header and entries are those of the
request.  `Post` itself chooses 201 or 500, and `FailRelease` may turn the one into the other
later: what is inductive is that a committed reference belongs to a request told 201, told
500 or told nothing, never to one told 400 or 409.

**.NET.**  Less holds, so the invariant `DotnetInv` is another one.  `Tracking` says what a
`DbContext` holds: balances within the column for everything it tracks, which may be stale
for a transfer, and the current balances of the locked rows for a deposit or a withdrawal.
`Funded` speaks of the tracked number, not of the table's, and is still enough for
`NonNegative` because the write uses the same number; `Rounding` and `RoundingAdds` say what
the column makes of it. `FreshPostingsStayFresh` assumes that withdrawals are whole units of
the column (`WholeWithdrawals`), as the payloads of `dotnet_safety` are: without it the
property is false, as `dotnet_fraction` shows; fractions of deposits and transfers do no
harm to it.

**Both stacks at once.**  `StacksInv` says of every session, whichever stack serves it, what
`IInv` and `DotnetInv` say of the requests of one: `Good` is about one session, `Exclusive`
about any two.  `SeenOf` is the balances a session computes with - loaded or tracked - which
are current for the rows it holds unless the session is `Stale`, a .NET transfer.  A step is
`Sound` if its session stays `Good` and it either leaves the tables alone (`Quiet`) or posts
(`Posts`) under its own row locks a reference of its own; each step of each API is shown to
be `Sound`, and what a sound step does to the other sessions is argued once.  The two APIs
post in different words - Django writes whole numbers, .NET rounds - and the same thing is
committed (`SamePosting`) because Django's amounts are whole.  `NonNegative` needs no
exception for stale transfers, since check and write use the same number; the chain does.

**Audit.**  A wallet outside `disturbed` has the balance the audit read, and one outside
`todo` was compared with its ledger; a posting that does not change a wallet's balance adds
no entry to it, its amount being positive.

**Admin list.**  That every page begins within the list of all postings (`AdminTypes`) takes
the replies too: a page is turned only where the reply shown says there is a next one, and
what a reply counts or shows was in the list (`LaterBegins`, `EarlierBegins`).  `ListInv` says what is still true of the search typed last, unless a reply was
lost or overtaken: either its first page is still to come (`FirstPageComing`; what was sent
before it is of no account), or that has arrived and everything in flight was sent since
(`PagesComing`).  `Asked` follows one such call: its page begins within the list, its count
is that of a moment since (`CountedAt`), its slice that of a later one (`TakenAt`), and
everything old *before* its page has been shown (`Covered`).  A posting puts one row into
the list, which moves the others to later offsets only, so `Covered` survives it
(`PostingKeepsViews`); a slice that is read adds all rows of its page, so that `Completes`
holds: all pages up to its own are covered, and with the last one everything.  Two calls in
flight break just this, since the later page does not wait for the earlier; without `hasty`
the invariant is not inductive and the property is false, from three pages and four
postings on.  The list of a past moment never changes again (`PastViewStays`), which is why
moments can be named by a number of postings.  All of it rests on lemmas about the filter
`Kept`: it is computed row by row (`KeptByRow`), keeps what it should in its order
(`KeptElements`), and inserting a row into a list inserts it into the filtered list or
leaves that alone (`KeptInsert`).  They are inductions over a list, argued by the first
counterexample as for `SumOfChain`.

**Statistics.**  `BalanceAfter(n, w)` sums the entries of the first `n` postings.  A later
posting leaves such sums alone (`PostingKeepsTotals`) and the newest one is the balance in the
table (`Balanced`, false only where drifts are: beside the audit), so each total that is read
is one `TotalAfter(n)` with `n` between the number of the query before and that of the next
(`TotalsRead`).  Nothing about the fold over the wallets is needed: equal balances have equal
totals.

**Directory.**  `Progress` and the rows of the 201s: what was inserted stays, the unique
index keeps a second insert out, and a row's creator is a request that was told so or lost
its answer.  The cause of a refusal is a row, which stays, or a property of the request and
the stack of its user, which stay as well.

**Simulator.**  `SimInv` ties the threads to the calls at the server: a duplicate exists only
after its primary has returned, a transfer is posted by one of its calls, which was told so or
got an error.  The counters
cannot be a function of the calls, because a call that was given up is counted as an error
and then answered all the same; `TallyInv` says that *some* choice of a counter for each
returned call (`Explains`) accounts for all of them, and each step extends the choice.  A
conflict means that the primary was counted as an error.  For the verdict, `Coins` turns a
sum of balances into the cardinality of a set of units, so that wallets are added
(`CoinsAdd`) and a transfer moves coins (`CoinsMove`) without an induction over a sum;
`CleanIsSettled` shows that without errors nothing is under way at the server while the
balances are read.

**Dashboard.**  `FormInv` is about the recipient: a wallet id that a suggestion filled in is
the shown recipient's.  For the page, `PageInv` says that replies hold rows the database has
(they are never taken away) and that, undisturbed, everything shown is the signed-in user's.
`Opened` makes the form's promise inductive: a form whose card was clicked while nothing
was being refreshed is the form of the active wallet, and no call in flight could select
another. `Coming` does so for `SettledViewIsCurrent`, which speaks of quiet pages only: what
the page does not show yet is in the *last* call of its kind in flight - profile, wallets,
rows - or will be asked for when a posting's handler goes on.  The `LastOf` lemmas say how
sending, answering and removing a call moves that last call; while replies arrive in the
order in which they were asked for, what an earlier one writes is overwritten by it.

## 6. Only model-checked

* Liveness (`EveryRequestAnswered`, `LocksEndFree`, `AuditConverges`, `SimulationEnds`):
  fairness and ENABLED are out of the prover's reach.

Every invariant and every action property of the passing runs is proved; the bounds of
section 3 limit the liveness properties and the violation runs only.

## 7. Plan

Done, in this order: `Ledger`, `WalletStore`, `DjangoWalletApi` with its proofs;
`DotnetWalletApi` and `TwoStacks`; `WalletAudit`; `WalletDirectory`; `Dashboard`;
`TrafficSimulator`; `AdminLists` and `BackOffice`; the proofs of section 5: each API alone,
the audit and the directory, then both stacks at once, the simulator, the dashboard and the
admin panel.

Left: effects of the `Dashboard` that run twice under React's StrictMode (in development
only).

## 8. Not modelled

* **Lists of users and wallets in the admin panel**: the same code as the list of
  transactions over tables that no posting adds rows to; their counts likewise.
* **Profile and wallet reads**: `Me` and `FetchWallets` of `Dashboard` model what a client
  sees of them.
* **Token service**: tokens are signed strings and keep no state on the server; what a token
  is worth on the other stack is a guard of `WalletDirectory` and an assumption of `TwoStacks`.
* **nginx, pgbouncer, docker-compose**: configuration of third-party servers.  A lost
  connection or a 502 is one of the failures each module has (`Fail*`, `Crash`,
  `LoseAnswer`, `Lose`, `Break`).  nginx does not repeat
  a POST it has passed on.  A transaction gets its pooled connection before its first row
  lock and asks for no second one, so a full pool delays but adds no circle of waits.
* **Health checks, schema pages, Django admin site, settings**: framework glue.  Edits made
  in the admin site appear as `Drift`.
* **Benchmark script**: starts containers, runs the simulator against either stack and prints
  reports; its run against .NET is not modelled.
* **Formatting and wording** of answers, logs and pages; the toasts of the dashboard; React
  StrictMode's doubled effects in development.
