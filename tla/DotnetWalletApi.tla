-------------------------- MODULE DotnetWalletApi --------------------------
(***************************************************************************)
(* The money endpoints of the .NET API, served from the same tables as the  *)
(* Django API's.  The flow is that of DjangoWalletApi with two differences  *)
(* of substance:                                                           *)
(*   - controller and service of a request share one DbContext.  Transfer   *)
(*     reads both wallets as tracked entities before the service locks      *)
(*     them, and Entity Framework hands the service the tracked objects     *)
(*     again, with the balances of the first read;                          *)
(*   - no one checks the scale of an amount, so the numeric(20,4) columns    *)
(*     round what is written to them.                                      *)
(* All numbers are in half units, 0.00005: a column holds even numbers.     *)
(***************************************************************************)
EXTENDS WalletStore

CONSTANTS
  Requests,   \* the HTTP requests to these endpoints, with a session each
  WalletIds,  \* ids a request may name, those of no wallet included
  Users,
  Owner,      \* Wallet.UserId
  NoKey,      \* a missing or blank X-Idempotency-Key header
  Payloads    \* what the requests may ask for

Payload == [key    : Keys \cup {NoKey},
            user   : Users,
            type   : Types,
            from   : WalletIds,
            to     : WalletIds,
            amount : 0 .. MaxBalance]

\* A deposit or a withdrawal names one wallet, here both "from" and "to"; an
\* amount that is not positive is 0.
ASSUME ApiAssumption ==
  /\ Requests \subseteq Sessions
  /\ Wallets \subseteq WalletIds
  /\ NoKey \notin Keys
  /\ Owner \in [Wallets -> Users]
  /\ Payloads \subseteq Payload
  /\ \A p \in Payloads : p.type # "TRANSFER" => p.from = p.to
  /\ MaxBalance % 2 = 0
  /\ \A w \in Wallets : Opening[w] % 2 = 0

VARIABLES
  locks,    \* the keys whose Redis lock exists; it carries no owner
  req,      \* the payload of each request
  pc,       \* the statement each request is about to execute
  resp,     \* its answer
  tracked   \* the wallets its DbContext tracks: a partial function to balances

apiVars == <<locks, req, pc, resp, tracked>>
vars == <<balance, txn, ledger, held, pending, locks, req, pc, resp, tracked>>

Steps == {"lookup", "acquire", "validate", "destination", "lock", "insert",
          "post", "release", "done"}

\* "created" 201, "hit" 200 with X-Cache-Lookup, "rejected" 400, "conflict"
\* 409, "error" 500; "lost": the client never sees an answer.  What stands
\* here before the request is done is what it is about to answer.
Responses == {"none", "created", "hit", "rejected", "conflict", "error", "lost"}

TypeOK ==
  /\ StoreTypeOK
  /\ locks \subseteq Keys
  /\ req \in [Requests -> Payloads]
  /\ pc \in [Requests -> Steps]
  /\ resp \in [Requests -> Responses]
  /\ \A r \in Requests : /\ DOMAIN tracked[r] \subseteq Wallets
                         /\ \A w \in DOMAIN tracked[r] : tracked[r][w] \in Column
  /\ \A w \in Wallets : balance[w] % 2 = 0

NothingTracked == [w \in {} |-> 0]

Init ==
  /\ StoreInit
  /\ locks = {}
  /\ req \in [Requests -> Payloads]
  /\ pc = [r \in Requests |-> "lookup"]
  /\ resp = [r \in Requests |-> "none"]
  /\ tracked = [r \in Requests |-> NothingTracked]

Goto(r, step) == pc' = [pc EXCEPT ![r] = step]

Answer(r, step, answer) ==
  /\ Goto(r, step)
  /\ resp' = [resp EXCEPT ![r] = answer]

\* A query that materialises wallet w: an instance the context tracks is
\* returned as it is, else the row read becomes the tracked instance.
Track(r, w) ==
  tracked' = [tracked EXCEPT ![r] =
                [v \in DOMAIN @ \cup {w} |-> IF v \in DOMAIN @ THEN @[v]
                                                             ELSE balance[v]]]

\* The scoped DbContext goes with the request.
Forget(r) == tracked' = [tracked EXCEPT ![r] = NothingTracked]

-----------------------------------------------------------------------------
(* HandleIdempotentTransactionAsync up to the action.                       *)

MissingKey(r) ==
  /\ pc[r] = "lookup"
  /\ req[r].key = NoKey
  /\ Answer(r, "done", "rejected")
  /\ UNCHANGED <<storeVars, locks, req, tracked>>

Hit(r) ==
  /\ pc[r] = "lookup"
  /\ req[r].key \in Keys
  /\ Committed(req[r].key)
  /\ Answer(r, "done", "hit")
  /\ UNCHANGED <<storeVars, locks, req, tracked>>

Miss(r) ==
  /\ pc[r] = "lookup"
  /\ req[r].key \in Keys
  /\ ~Committed(req[r].key)
  /\ Goto(r, "acquire")
  /\ UNCHANGED <<storeVars, locks, req, resp, tracked>>

AcquireLock(r) ==
  /\ pc[r] = "acquire"
  /\ req[r].key \notin locks
  /\ locks' = locks \cup {req[r].key}
  /\ Goto(r, "validate")
  /\ UNCHANGED <<storeVars, req, resp, tracked>>

Conflict(r) ==
  /\ pc[r] = "acquire"
  /\ req[r].key \in locks
  /\ Answer(r, "done", "conflict")
  /\ UNCHANGED <<storeVars, locks, req, tracked>>

-----------------------------------------------------------------------------
(* The actions of Deposit, Withdraw and Transfer before the transaction.    *)

OwnWallet(p) == p.from \in Wallets /\ Owner[p.from] = p.user

\* Deposit and Withdraw only ask whether the wallet is the user's (AnyAsync
\* tracks nothing), and the service refuses an amount that is not positive.
ValidFirst(p) ==
  /\ OwnWallet(p)
  /\ IF p.type = "TRANSFER" THEN p.from # p.to ELSE p.amount > 0

PassValidationTracking(r) ==
  /\ pc[r] = "validate"
  /\ req[r].type # "TRANSFER"
  /\ ValidFirst(req[r])
  /\ Track(r, req[r].from)
  /\ Goto(r, "lock")
  /\ UNCHANGED <<storeVars, locks, req, resp>>
PassValidation(r) ==
  /\ pc[r] = "validate"
  /\ req[r].type # "TRANSFER"
  /\ ValidFirst(req[r])
  /\ Goto(r, "lock")
  /\ UNCHANGED <<storeVars, locks, req, resp, tracked>>

TrackSource(r) ==
  /\ pc[r] = "validate"
  /\ req[r].type = "TRANSFER"
  /\ ValidFirst(req[r])
  /\ Track(r, req[r].from)
  /\ Goto(r, "destination")
  /\ UNCHANGED <<storeVars, locks, req, resp>>

FailValidation(r) ==
  /\ pc[r] = "validate"
  /\ ~ValidFirst(req[r])
  /\ Answer(r, "release", "rejected")
  /\ UNCHANGED <<storeVars, locks, req, tracked>>

\* What Transfer checks once both wallets are read; amount > 0 is the
\* service's own check.
ValidTransfer(p, source) ==
  /\ p.to \in Wallets
  /\ Currency[p.from] = Currency[p.to]
  /\ source >= p.amount
  /\ p.amount > 0

TrackDestination(r) ==
  /\ pc[r] = "destination"
  /\ ValidTransfer(req[r], tracked[r][req[r].from])
  /\ Track(r, req[r].to)
  /\ Goto(r, "lock")
  /\ UNCHANGED <<storeVars, locks, req, resp>>

FailTransfer(r) ==
  /\ pc[r] = "destination"
  /\ ~ValidTransfer(req[r], tracked[r][req[r].from])
  /\ Answer(r, "release", "rejected")
  /\ Forget(r)
  /\ UNCHANGED <<storeVars, locks, req>>

-----------------------------------------------------------------------------
(* The transaction of DepositAsync, WithdrawAsync and TransferAsync.        *)

DepositLegs(p)  == [w \in {p.to} |-> p.amount]
WithdrawLegs(p) == [w \in {p.from} |-> -p.amount]
TransferLegs(p) ==
  [w \in {p.from, p.to} |-> IF w = p.from THEN -p.amount ELSE p.amount]

Legs(p) == CASE p.type = "DEPOSIT"    -> DepositLegs(p)
             [] p.type = "WITHDRAWAL" -> WithdrawLegs(p)
             [] p.type = "TRANSFER"   -> TransferLegs(p)

Rows(p) == {p.from, p.to}

\* The rows the SELECT ... FOR UPDATE still has to lock.
Missing(r) == (Rows(req[r]) \cap Wallets) \ held[r]

\* ORDER BY id: the row with the least id is locked next.
NextRowSourceFirst(r, w) ==
  w \in Missing(r) /\ (req[r].from \in Missing(r) => w = req[r].from)
NextRow(r, w) == w \in Missing(r) /\ \A v \in Missing(r) : w <= v

\* The row read under the lock reaches the service only where the context
\* does not track the wallet yet.
LockRow(r, w) ==
  /\ pc[r] = "lock"
  /\ NextRow(r, w)
  /\ TakeRow(r, w)
  /\ Track(r, w)
  /\ UNCHANGED <<balance, txn, ledger, pending, locks, req, pc, resp>>

\* WalletNotFoundException, currency mismatch, InsufficientFundsException.
RefusedDespiteFunds(p, wallets, rows) ==
  \/ rows # Rows(p)
  \/ p.type = "TRANSFER" /\ Currency[p.from] # Currency[p.to]
Refused(p, wallets, rows) ==
  \/ rows # Rows(p)
  \/ p.type = "TRANSFER" /\ Currency[p.from] # Currency[p.to]
  \/ p.type # "DEPOSIT" /\ wallets[p.from] < p.amount

Refuse(r) ==
  /\ pc[r] = "lock"
  /\ Missing(r) = {}
  /\ Refused(req[r], tracked[r], held[r])
  /\ Rollback(r)
  /\ Answer(r, "release", "rejected")
  /\ Forget(r)
  /\ UNCHANGED <<locks, req>>

Accept(r) ==
  /\ pc[r] = "lock"
  /\ Missing(r) = {}
  /\ ~Refused(req[r], tracked[r], held[r])
  /\ Goto(r, "insert")
  /\ UNCHANGED <<storeVars, locks, req, resp, tracked>>

\* The first SaveChangesAsync.
InsertHeader(r) ==
  /\ pc[r] = "insert"
  /\ InsertReference(r, req[r].key)
  /\ Goto(r, "post")
  /\ UNCHANGED <<balance, txn, ledger, held, locks, req, resp, tracked>>

\* DbUpdateException of the unique index: TransactionException, rollback.
DuplicateHeader(r) ==
  /\ pc[r] = "insert"
  /\ Committed(req[r].key)
  /\ Rollback(r)
  /\ Answer(r, "release", "rejected")
  /\ Forget(r)
  /\ UNCHANGED <<locks, req>>

\* numeric(20,4) rounds to the nearest unit, halves away from zero.
RoundToColumn(x) == IF x >= 0 THEN x + (x % 2) ELSE x - (x % 2)

\* Balances are added up in memory with full precision; the columns then
\* round each number on its own.
Amounts(p) == [w \in Rows(p) |-> RoundToColumn(Legs(p)[w])]
Result(p, wallets) ==
  [w \in Rows(p) |-> RoundToColumn(wallets[w] + Legs(p)[w])]
HeaderOf(p) == [type |-> p.type, amount |-> RoundToColumn(p.amount)]

UnboundedColumn(p, wallets) == FALSE
Overflows(p, wallets) == \E w \in Rows(p) : Result(p, wallets)[w] > MaxBalance

\* The second SaveChangesAsync and the COMMIT: writes to locked rows, which
\* nobody sees before the COMMIT, in one step.  CommitAsync throws if the
\* connection breaks before the COMMIT is confirmed, and no catch clause of
\* the controller names its exception; the posting is there all the same.
Post(r) ==
  LET p == req[r]
  IN  /\ pc[r] = "post"
      /\ ~Overflows(p, tracked[r])
      /\ Commit(r, p.key, HeaderOf(p), Amounts(p), Result(p, tracked[r]))
      /\ \E answer \in {"created", "error"} : Answer(r, "release", answer)
      /\ Forget(r)
      /\ UNCHANGED <<locks, req>>

\* A balance that does not fit its column: no catch clause of the controller
\* names the exception, the transaction rolls back, the answer is a 500.
Overflow(r) ==
  /\ pc[r] = "post"
  /\ Overflows(req[r], tracked[r])
  /\ Rollback(r)
  /\ Answer(r, "release", "error")
  /\ Forget(r)
  /\ UNCHANGED <<locks, req>>

-----------------------------------------------------------------------------
(* finally, failures and the end of a Redis lock.                           *)

\* The lock is deleted, whoever set it.
Release(r) ==
  /\ pc[r] = "release"
  /\ locks' = locks \ {req[r].key}
  /\ Goto(r, "done")
  /\ Forget(r)
  /\ UNCHANGED <<storeVars, req, resp>>

\* The lookup or StringSetAsync throws, outside the try.  Redis may have set
\* the lock all the same.
FailBefore(r) ==
  /\ pc[r] \in {"lookup", "acquire"}
  /\ \/ locks' = locks
     \/ pc[r] = "acquire" /\ locks' = locks \cup {req[r].key}
  /\ Answer(r, "done", "error")
  /\ UNCHANGED <<storeVars, req, tracked>>

\* A query inside the try throws what no catch clause names: the transaction
\* rolls back and finally runs.
FailInside(r) ==
  /\ pc[r] \in {"validate", "destination", "lock", "insert", "post"}
  /\ Rollback(r)
  /\ Answer(r, "release", "error")
  /\ Forget(r)
  /\ UNCHANGED <<locks, req>>

\* KeyDeleteAsync throws in finally: its exception replaces the answer, also
\* the 201 of a posting that is committed.  The lock may or may not be gone.
FailRelease(r) ==
  /\ pc[r] = "release"
  /\ locks' \in {locks, locks \ {req[r].key}}
  /\ Answer(r, "done", "error")
  /\ Forget(r)
  /\ UNCHANGED <<storeVars, req>>

\* The process dies: the server rolls back, the finally clause does not run.
Crash(r) ==
  /\ pc[r] # "done"
  /\ Rollback(r)
  /\ Answer(r, "done", "lost")
  /\ Forget(r)
  /\ UNCHANGED <<locks, req>>

Fail(r) == FailBefore(r) \/ FailInside(r) \/ FailRelease(r) \/ Crash(r)

\* The 30 s of a Redis lock run out, whatever its request is doing.
Expire(k) ==
  /\ k \in locks
  /\ locks' = locks \ {k}
  /\ UNCHANGED <<storeVars, req, pc, resp, tracked>>

Step(r) ==
  \/ MissingKey(r) \/ Hit(r) \/ Miss(r)
  \/ AcquireLock(r) \/ Conflict(r)
  \/ PassValidation(r) \/ TrackSource(r) \/ FailValidation(r)
  \/ TrackDestination(r) \/ FailTransfer(r)
  \/ \E w \in Wallets : LockRow(r, w)
  \/ Refuse(r) \/ Accept(r)
  \/ InsertHeader(r) \/ DuplicateHeader(r)
  \/ Post(r) \/ Overflow(r)
  \/ Release(r)

\* Every request is answered and no lock is left: nothing more happens.
Quiescent ==
  /\ \A r \in Requests : pc[r] = "done"
  /\ locks = {}
  /\ UNCHANGED vars

Next ==
  \/ \E r \in Requests : Step(r) \/ Fail(r)
  \/ \E k \in Keys : Expire(k)
  \/ Quiescent

Spec == Init /\ [][Next]_vars

-----------------------------------------------------------------------------
(* Properties.                                                             *)

PostedBy(k) == {<<e[1], AmountOf(e)>> : e \in EntriesOf(k)}
LegsOf(p) == {<<w, Amounts(p)[w]>> : w \in Rows(p)}

\* A 201 answers the one request that posted under its key, with its own
\* payload as the columns hold it; a HIT tells of a committed reference; a
\* posting belongs to a request that is told 201, or 500 (CommitAsync or
\* KeyDeleteAsync failed after it), or loses its answer - never 400 or 409.
AnswersMatchStore ==
  /\ \A r \in Requests :
       /\ resp[r] = "created" => /\ txn[req[r].key] = HeaderOf(req[r])
                                 /\ PostedBy(req[r].key) = LegsOf(req[r])
       /\ resp[r] = "hit" => Committed(req[r].key)
  /\ \A r, s \in Requests :
       (resp[r] = "created" /\ resp[s] = "created" /\ r # s)
         => req[r].key # req[s].key
  /\ \A k \in Keys : Committed(k) =>
       \E r \in Requests : /\ req[r].key = k
                           /\ resp[r] \in {"created", "error", "lost"}
                           /\ txn[k] = HeaderOf(req[r])
                           /\ PostedBy(k) = LegsOf(req[r])

\* Deposits and withdrawals read the balance under the row lock, so their
\* entries continue from the entry before them even where stale transfers are
\* interleaved; and the balance always is what its last entry says.
FreshPostingsChain ==
  \A w \in Wallets :
    /\ \A i \in 1 .. Len(ledger[w]) :
         txn[ledger[w][i].ref].type # "TRANSFER" =>
           ledger[w][i].after = PreviousAfter(w, i) + ledger[w][i].amount
    /\ balance[w] = PreviousAfter(w, Len(ledger[w]) + 1)

\* r's next statement waits for the transaction of s to end.
WaitsFor(r, s) ==
  /\ r # s
  /\ \/ /\ pc[r] = "lock"
        /\ \E w \in held[s] : NextRow(r, w)
     \/ /\ pc[r] = "insert"
        /\ req[r].key \in pending[s]

\* No requests wait for each other in a circle, over row locks, over the
\* unique index or over both.
NoWaitCycle ==
  \A S \in SUBSET Requests :
    S # {} => \E r \in S : \A s \in S : ~WaitsFor(r, s)

=============================================================================
