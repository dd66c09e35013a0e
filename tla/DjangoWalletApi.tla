-------------------------- MODULE DjangoWalletApi --------------------------
(***************************************************************************)
(* The money endpoints of the Django API: POST /transactions/deposit,       *)
(* /withdraw and /transfer.  Each request runs BaseTransactionView          *)
(* .handle_idempotent_request in a worker thread and, inside it, one        *)
(* WalletService method in one database transaction; the requests share     *)
(* the wallet store and the Redis keys lock:idempotency:<key>.              *)
(*                                                                         *)
(* A client's retry is another request with the same key.  A request may    *)
(* be lost at any point (a killed worker): its transaction rolls back, its  *)
(* Redis lock stays until it expires.  And any statement may fail because    *)
(* PostgreSQL or Redis does not answer: that is a 500, by the way of the     *)
(* finally clause if the lock had been acquired.                            *)
(***************************************************************************)
EXTENDS WalletStore

CONSTANTS
  Requests,   \* the HTTP requests to these endpoints, with a session each
  WalletIds,  \* ids a request may name, those of no wallet included
  Users,
  Owner,      \* Wallet.user
  NoKey,      \* a missing or blank X-Idempotency-Key header
  Payloads    \* what the requests may ask for

Payload == [key    : Keys \cup {NoKey},
            user   : Users,
            type   : Types,
            from   : WalletIds,
            to     : WalletIds,
            amount : 0 .. MaxBalance]

\* A deposit or a withdrawal names one wallet, here both "from" and "to".
\* Amounts are in units of the column, 0.0001; a body the serializer fields
\* refuse for its form is one with amount 0.
ASSUME ApiAssumption ==
  /\ Requests \subseteq Sessions
  /\ Wallets \subseteq WalletIds
  /\ NoKey \notin Keys
  /\ Owner \in [Wallets -> Users]
  /\ Payloads \subseteq Payload
  /\ \A p \in Payloads : p.type # "TRANSFER" => p.from = p.to

VARIABLES
  locks,   \* the keys whose Redis lock exists; it carries no owner
  req,     \* the payload of each request
  pc,      \* the statement each request is about to execute
  resp,    \* its answer
  loaded   \* the wallet objects it holds: balances as they were read

apiVars == <<locks, req, pc, resp, loaded>>
vars == <<balance, txn, ledger, held, pending, locks, req, pc, resp, loaded>>

Steps == {"lookup", "acquire", "validate", "lock", "insert", "post",
          "release", "done"}

\* "created" 201, "hit" 200 with X-Cache-Lookup, "rejected" 400, "conflict"
\* 409, "error" 500; "lost": the client never sees an answer.  What stands
\* here before the request is done is what it is about to answer.
Responses == {"none", "created", "hit", "rejected", "conflict", "error", "lost"}

TypeOK ==
  /\ StoreTypeOK
  /\ locks \subseteq Keys
  /\ req \in [Requests -> Payloads]
  /\ pc \in [Requests -> Steps]
  /\ resp \in [Requests -> Responses]
  /\ loaded \in [Requests -> [Wallets -> Column]]

Unread == [w \in Wallets |-> 0]

Init ==
  /\ StoreInit
  /\ locks = {}
  /\ req \in [Requests -> Payloads]
  /\ pc = [r \in Requests |-> "lookup"]
  /\ resp = [r \in Requests |-> "none"]
  /\ loaded = [r \in Requests |-> Unread]

Goto(r, step) == pc' = [pc EXCEPT ![r] = step]

Answer(r, step, answer) ==
  /\ Goto(r, step)
  /\ resp' = [resp EXCEPT ![r] = answer]

Forget(r) == loaded' = [loaded EXCEPT ![r] = Unread]

-----------------------------------------------------------------------------
(* Before the transaction: idempotency key, lookup, Redis lock, serializer. *)

MissingKey(r) ==
  /\ pc[r] = "lookup"
  /\ req[r].key = NoKey
  /\ Answer(r, "done", "rejected")
  /\ UNCHANGED <<storeVars, locks, req, loaded>>

\* The reference is committed: its transaction is returned as it is, with no
\* look at the rest of the request.
Hit(r) ==
  /\ pc[r] = "lookup"
  /\ req[r].key \in Keys
  /\ Committed(req[r].key)
  /\ Answer(r, "done", "hit")
  /\ UNCHANGED <<storeVars, locks, req, loaded>>

Miss(r) ==
  /\ pc[r] = "lookup"
  /\ req[r].key \in Keys
  /\ ~Committed(req[r].key)
  /\ Goto(r, "acquire")
  /\ UNCHANGED <<storeVars, locks, req, resp, loaded>>

AcquireLock(r) ==
  /\ pc[r] = "acquire"
  /\ req[r].key \notin locks
  /\ locks' = locks \cup {req[r].key}
  /\ Goto(r, "validate")
  /\ UNCHANGED <<storeVars, req, resp, loaded>>

Conflict(r) ==
  /\ pc[r] = "acquire"
  /\ req[r].key \in locks
  /\ Answer(r, "done", "conflict")
  /\ UNCHANGED <<storeVars, locks, req, loaded>>

OwnWallet(p) == p.from \in Wallets /\ Owner[p.from] = p.user

\* The serializers read the wallets without a lock; min_value is one unit.
\* Owner and currency never change; the balance may, before the transaction
\* reads it again.
ValidTransfer(p) ==
  /\ p.from # p.to
  /\ OwnWallet(p)
  /\ p.to \in Wallets
  /\ Currency[p.from] = Currency[p.to]
  /\ balance[p.from] >= p.amount

Valid(p) ==
  /\ p.amount > 0
  /\ IF p.type = "TRANSFER" THEN ValidTransfer(p) ELSE OwnWallet(p)

PassValidation(r) ==
  /\ pc[r] = "validate"
  /\ Valid(req[r])
  /\ Goto(r, "lock")
  /\ UNCHANGED <<storeVars, locks, req, resp, loaded>>

FailValidation(r) ==
  /\ pc[r] = "validate"
  /\ ~Valid(req[r])
  /\ Answer(r, "release", "rejected")
  /\ UNCHANGED <<storeVars, locks, req, loaded>>

-----------------------------------------------------------------------------
(* The transaction of WalletService.deposit, withdraw and transfer.         *)

DepositLegs(p)  == [w \in {p.to} |-> p.amount]
WithdrawLegs(p) == [w \in {p.from} |-> -p.amount]
TransferLegsDebitOnly(p) == [w \in {p.from} |-> -p.amount]
TransferLegs(p) ==
  [w \in {p.from, p.to} |-> IF w = p.from THEN -p.amount ELSE p.amount]

Legs(p) == CASE p.type = "DEPOSIT"    -> DepositLegs(p)
             [] p.type = "WITHDRAWAL" -> WithdrawLegs(p)
             [] p.type = "TRANSFER"   -> TransferLegs(p)

Rows(p) == {p.from, p.to}

\* The rows the SELECT ... FOR UPDATE still has to lock.
Missing(r) == (Rows(req[r]) \cap Wallets) \ held[r]

\* ORDER BY id: the row with the least id is locked next.
NextRowSourceFirst(r, w) ==
  w \in Missing(r) /\ (req[r].from \in Missing(r) => w = req[r].from)
NextRow(r, w) == w \in Missing(r) /\ \A v \in Missing(r) : w <= v

\* The balance is read from the row version that is current once the lock is
\* granted.
LockRow(r, w) ==
  /\ pc[r] = "lock"
  /\ NextRow(r, w)
  /\ TakeRow(r, w)
  /\ loaded' = [loaded EXCEPT ![r][w] = balance[w]]
  /\ UNCHANGED <<balance, txn, ledger, pending, locks, req, pc, resp>>

\* WalletNotFoundError, currency mismatch and InsufficientFundsError.
RefusedDespiteFunds(p, wallets, rows) ==
  \/ rows # Rows(p)
  \/ p.type = "TRANSFER" /\ Currency[p.from] # Currency[p.to]
Refused(p, wallets, rows) ==
  \/ rows # Rows(p)
  \/ p.type = "TRANSFER" /\ Currency[p.from] # Currency[p.to]
  \/ p.type # "DEPOSIT" /\ wallets[p.from] < p.amount

Refuse(r) ==
  /\ pc[r] = "lock"
  /\ Missing(r) = {}
  /\ Refused(req[r], loaded[r], held[r])
  /\ Rollback(r)
  /\ Answer(r, "release", "rejected")
  /\ Forget(r)
  /\ UNCHANGED <<locks, req>>

Accept(r) ==
  /\ pc[r] = "lock"
  /\ Missing(r) = {}
  /\ ~Refused(req[r], loaded[r], held[r])
  /\ Goto(r, "insert")
  /\ UNCHANGED <<storeVars, locks, req, resp, loaded>>

\* Each statement of the transaction sees what the ones before it wrote; the
\* others see it after the COMMIT.
InsertHeaderAutocommit(r) ==
  /\ pc[r] = "insert"
  /\ ReferenceFree(req[r].key)
  /\ txn' = [txn EXCEPT ![req[r].key] =
               [type |-> req[r].type, amount |-> req[r].amount]]
  /\ Goto(r, "post")
  /\ UNCHANGED <<balance, ledger, held, pending, locks, req, resp, loaded>>
InsertHeader(r) ==
  /\ pc[r] = "insert"
  /\ InsertReference(r, req[r].key)
  /\ Goto(r, "post")
  /\ UNCHANGED <<balance, txn, ledger, held, locks, req, resp, loaded>>

\* IntegrityError: TransactionError, and the transaction rolls back.
DuplicateHeader(r) ==
  /\ pc[r] = "insert"
  /\ Committed(req[r].key)
  /\ Rollback(r)
  /\ Answer(r, "release", "rejected")
  /\ Forget(r)
  /\ UNCHANGED <<locks, req>>

\* The balances of a posting's wallets after it.
Result(legs, wallets) == [w \in DOMAIN legs |-> wallets[w] + legs[w]]

UnboundedColumn(legs, wallets) == FALSE
Overflows(legs, wallets) ==
  \E w \in DOMAIN legs : Result(legs, wallets)[w] > MaxBalance

\* The balance and ledger writes and the COMMIT.  Until the COMMIT they touch
\* only locked rows and are invisible to others, so they are one step.  The
\* posting is there also if the connection breaks before the COMMIT is
\* confirmed: an OperationalError, which nothing in the view catches.
Post(r) ==
  LET p == req[r]
  IN  /\ pc[r] = "post"
      /\ ~Overflows(Legs(p), loaded[r])
      /\ Commit(r, p.key, [type |-> p.type, amount |-> p.amount],
                Legs(p), Result(Legs(p), loaded[r]))
      /\ \E answer \in {"created", "error"} : Answer(r, "release", answer)
      /\ Forget(r)
      /\ UNCHANGED <<locks, req>>

\* A balance that does not fit its column is a DataError, which nothing in
\* the view catches: the transaction rolls back and the answer is a 500.
Overflow(r) ==
  /\ pc[r] = "post"
  /\ Overflows(Legs(req[r]), loaded[r])
  /\ Rollback(r)
  /\ Answer(r, "release", "error")
  /\ Forget(r)
  /\ UNCHANGED <<locks, req>>

-----------------------------------------------------------------------------
(* finally, failures and the end of a Redis lock.                           *)

\* The lock is deleted, whoever set it.
Release(r) ==
  /\ pc[r] = "release"
  /\ locks' = locks \ {req[r].key}
  /\ Goto(r, "done")
  /\ UNCHANGED <<storeVars, req, resp, loaded>>

\* The lookup or cache.add raises, outside the try.  Redis may have set the
\* lock all the same.
FailBefore(r) ==
  /\ pc[r] \in {"lookup", "acquire"}
  /\ \/ locks' = locks
     \/ pc[r] = "acquire" /\ locks' = locks \cup {req[r].key}
  /\ Answer(r, "done", "error")
  /\ UNCHANGED <<storeVars, req, loaded>>

\* A query inside the try raises: the transaction rolls back and finally runs.
FailInside(r) ==
  /\ pc[r] \in {"validate", "lock", "insert", "post"}
  /\ Rollback(r)
  /\ Answer(r, "release", "error")
  /\ Forget(r)
  /\ UNCHANGED <<locks, req>>

\* cache.delete raises in finally: its exception replaces the answer, also the
\* 201 of a posting that is committed.  The lock may or may not be gone.
FailRelease(r) ==
  /\ pc[r] = "release"
  /\ locks' \in {locks, locks \ {req[r].key}}
  /\ Answer(r, "done", "error")
  /\ UNCHANGED <<storeVars, req, loaded>>

\* The worker dies.  The server rolls an open transaction back; the finally
\* clause does not run.
Crash(r) ==
  /\ pc[r] # "done"
  /\ Rollback(r)
  /\ Answer(r, "done", "lost")
  /\ Forget(r)
  /\ UNCHANGED <<locks, req>>

Fail(r) == FailBefore(r) \/ FailInside(r) \/ FailRelease(r) \/ Crash(r)

\* The 30 s of a Redis lock run out, whatever its request is doing.
NeverExpire(k) == FALSE
Expire(k) ==
  /\ k \in locks
  /\ locks' = locks \ {k}
  /\ UNCHANGED <<storeVars, req, pc, resp, loaded>>

Step(r) ==
  \/ MissingKey(r) \/ Hit(r) \/ Miss(r)
  \/ AcquireLock(r) \/ Conflict(r)
  \/ PassValidation(r) \/ FailValidation(r)
  \/ \E w \in Wallets : LockRow(r, w)
  \/ Refuse(r) \/ Accept(r)
  \/ InsertHeader(r) \/ DuplicateHeader(r)
  \/ Post(r) \/ Overflow(r)
  \/ Release(r)

\* Every request is answered and no lock is left: nothing more happens.
Quiescent ==
  /\ \A r \in Requests : pc[r] = "done"
  /\ locks = {}
  /\ UNCHANGED vars

Next ==
  \/ \E r \in Requests : Step(r) \/ Fail(r)
  \/ \E k \in Keys : Expire(k)
  \/ Quiescent

Spec == Init /\ [][Next]_vars

\* Worker threads run and PostgreSQL grants a free row; Redis expires keys.
\* Nothing makes a worker crash or a statement fail.
Fairness ==
  /\ \A r \in Requests : WF_vars(Step(r))
  /\ \A k \in Keys : WF_vars(Expire(k))

FairSpec == Spec /\ Fairness

-----------------------------------------------------------------------------
(* What holds inside the transactions.                                     *)

InTxn == {"lock", "insert", "post"}

\* Rows are locked by open transactions only, all of them before the header
\* is inserted, and each by one session.
RowDiscipline ==
  /\ \A r \in Requests :
       /\ held[r] \subseteq Rows(req[r])
       /\ pc[r] \notin InTxn => held[r] = {}
       /\ pc[r] \in {"insert", "post"} => held[r] = Rows(req[r])
  /\ \A s, t \in Sessions : s # t => held[s] \cap held[t] = {}

\* A loaded balance is current as long as its row is locked.
Fresh == \A r \in Requests : \A w \in held[r] : loaded[r][w] = balance[w]

\* What validation has established of a request that got to its transaction.
WellFormed(p) ==
  /\ p.amount > 0
  /\ p.from \in Wallets /\ p.to \in Wallets
  /\ p.type = "TRANSFER" => /\ p.from # p.to
                            /\ Currency[p.from] = Currency[p.to]
  /\ p.type # "TRANSFER" => p.from = p.to

Validated ==
  \A r \in Requests :
    /\ pc[r] \notin {"lookup", "done"} => req[r].key \in Keys
    /\ pc[r] \in InTxn => WellFormed(req[r])

\* The funds check of the transaction still holds when it posts.
Funded ==
  \A r \in Requests :
    (pc[r] \in {"insert", "post"} /\ req[r].type # "DEPOSIT")
      => loaded[r][req[r].from] >= req[r].amount

\* A reference in flight belongs to one request that is about to post it, and
\* is not committed.
PendingDiscipline ==
  /\ \A r \in Requests :
       pending[r] = IF pc[r] = "post" THEN {req[r].key} ELSE {}
  /\ \A s, t \in Sessions : s # t => pending[s] \cap pending[t] = {}
  /\ \A s \in Sessions : \A k \in pending[s] : ~Committed(k)

\* What the locks protect, and why the funds check and the uniqueness of the
\* reference still hold when the posting is written: the core of the inductive
\* invariant of DjangoWalletApiProofs.
LockInv ==
  /\ RowDiscipline
  /\ Fresh
  /\ Validated
  /\ Funded
  /\ PendingDiscipline

-----------------------------------------------------------------------------
(* Properties.                                                             *)

HeaderOf(r) == [type |-> req[r].type, amount |-> req[r].amount]

\* Entries of a reference, as pairs of a wallet and an amount.
PostedBy(k) == {<<e[1], AmountOf(e)>> : e \in EntriesOf(k)}
LegsOf(r) == {<<w, Legs(req[r])[w]>> : w \in DOMAIN Legs(req[r])}

\* Idempotency as a client can rely on it: a 201 is the answer to the request
\* that posted, with its own payload, and no second request with the key gets
\* one; a HIT is only ever told of a committed reference; whatever is
\* committed was posted by a request that is told 201, or that cannot know:
\* a 500 (of the COMMIT or of finally) or no answer.  Nothing is committed for
\* a request that is told 400 or 409.
AnswersMatchStore ==
  /\ \A r \in Requests :
       /\ resp[r] = "created" => /\ txn[req[r].key] = HeaderOf(r)
                                 /\ PostedBy(req[r].key) = LegsOf(r)
       /\ resp[r] = "hit" => Committed(req[r].key)
  /\ \A r, s \in Requests :
       (resp[r] = "created" /\ resp[s] = "created" /\ r # s)
         => req[r].key # req[s].key
  /\ \A k \in Keys : Committed(k) =>
       \E r \in Requests : /\ req[r].key = k
                           /\ resp[r] \in {"created", "error", "lost"}
                           /\ txn[k] = HeaderOf(r)
                           /\ PostedBy(k) = LegsOf(r)

\* r's next statement waits for the transaction of s to end.
WaitsFor(r, s) ==
  /\ r # s
  /\ \/ /\ pc[r] = "lock"
        /\ \E w \in held[s] : NextRow(r, w)
     \/ /\ pc[r] = "insert"
        /\ req[r].key \in pending[s]

\* README line 7, "avoiding deadlocks": no requests wait for each other in a
\* circle, over row locks, over the unique index or over both.
NoWaitCycle ==
  \A S \in SUBSET Requests :
    S # {} => \E r \in S : \A s \in S : ~WaitsFor(r, s)

\* The atomic ledger is what the requests, their locks and their failures
\* implement.
Promise == INSTANCE Ledger
KeepsPromise == Promise!Spec

\* Every request is answered or lost: none waits for ever for a row, for a
\* reference in flight or for a Redis lock.
EveryRequestAnswered == \A r \in Requests : <>(pc[r] = "done")

\* A Redis lock whose request died without its finally clause does not block
\* the key for good.
LocksEndFree == <>[](locks = {})

=============================================================================
