-------------------------- MODULE TrafficSimulator --------------------------
(***************************************************************************)
(* simulate_traffic.py: the client that waits for the API, provisions users  *)
(* with a funded wallet each, sends transfers from a pool of threads, some   *)
(* of them twice, and adds up the balances at the end.  A call it gives up   *)
(* goes on at the server.  The server is the transfer endpoint of            *)
(* DjangoWalletApi reduced to the steps a client can tell apart; a           *)
(* transfer's key is its index.  run_benchmark.sh runs the script against    *)
(* the .NET API too, whose transfers may lose updates: what is said here of  *)
(* balances does not hold there (DotnetWalletApi).                           *)
(***************************************************************************)
EXTENDS Integers, FiniteSets

CONSTANTS
  Users,            \* the users to provision, with one wallet each
  NUM_THREADS,
  TOTAL_TRANSFERS,
  Funding,          \* the initial deposit
  Amounts           \* what a transfer may move

Transfers == 1 .. TOTAL_TRANSFERS
Attempts == {"primary", "duplicate"}
Answers == {"created", "hit", "rejected", "conflict", "error"}
Counters == {"success", "idempotent_hits", "insufficient_funds",
             "concurrency_conflicts", "errors"}

ASSUME SimulatorAssumption ==
  /\ IsFiniteSet(Users) /\ Cardinality(Users) >= 2
  /\ {NUM_THREADS, TOTAL_TRANSFERS, Funding} \subseteq Nat \ {0}
  /\ Amounts # {} /\ Amounts \subseteq Nat \ {0}

VARIABLES
  phase,    \* the part of the script that runs
  prov,     \* provisioning of each user
  step,     \* what the thread of each transfer waits for
  job,      \* sender, receiver and amount of each transfer
  stats,    \* the counters of answers
  requests, \* stats["total_requests"]
  fetched,  \* users whose final balance was asked for
  failures, \* those among them whose balance did not come
  total,    \* total_final_balance
  balance,  \* the wallets, at the server
  served,   \* each attempt of each transfer, at the server
  locks,    \* keys whose Redis lock exists
  posted    \* transfers committed

script == <<phase, prov, step, job, stats, requests, fetched, failures, total>>
server == <<balance, served, locks, posted>>
vars == <<script, server>>

NoJob == [amount |-> 0]
users == {u \in Users : prov[u] = "ready"}
Waiting == {i \in Transfers : step[i] \in Attempts}
Running == {i \in Transfers : step[i] \in Attempts \cup {"pause"}}

\* The pool never runs more transfers than it has threads, there are two users
\* to choose from (with one the choice of a receiver would never end), and a
\* key is locked for an attempt that was sent.
TypeOK ==
  /\ phase \in {"waiting", "provision", "transfer", "reconcile", "done", "exit"}
  /\ phase \notin {"waiting", "provision", "exit"} => Cardinality(users) >= 2
  /\ prov \in [Users -> {"new", "registered", "funded", "ready", "failed"}]
  /\ step \in [Transfers -> Attempts \cup {"queued", "pause", "over"}]
  /\ Cardinality(Running) <= NUM_THREADS
  /\ stats \in [Counters -> Nat] /\ requests \in Nat
  /\ failures \subseteq fetched /\ fetched \subseteq users
  /\ balance \in [Users -> Nat] /\ total \in Nat
  /\ served \in [Transfers -> [Attempts ->
                   Answers \cup {"none", "sent", "missed", "executing"}]]
  /\ \A i \in locks : \E a \in Attempts : served[i][a] # "none"
  /\ posted \subseteq {i \in Transfers : job[i] # NoJob}

Init ==
  /\ phase = "waiting"
  /\ prov = [u \in Users |-> "new"]
  /\ step = [i \in Transfers |-> "queued"]
  /\ job = [i \in Transfers |-> NoJob]
  /\ stats = [c \in Counters |-> 0] /\ requests = 0
  /\ fetched = {} /\ failures = {} /\ total = 0
  /\ balance = [u \in Users |-> 0]
  /\ served = [i \in Transfers |-> [a \in Attempts |-> "none"]]
  /\ locks = {} /\ posted = {}

\* The wait before step 1: a call every 2 s, without end, until one is answered
\* and not with 502.  A call that fails changes nothing.
Online ==
  /\ phase = "waiting"
  /\ phase' = "provision"
  /\ UNCHANGED <<prov, step, job, stats, requests, fetched, failures, total,
                 server>>

-----------------------------------------------------------------------------
(* Step 1: register_user, in a pool of its own.                             *)

Provision(u, next) ==
  /\ phase = "provision"
  /\ prov' = [prov EXCEPT ![u] = next]
  /\ UNCHANGED <<phase, step, job, stats, requests, fetched, failures, total,
                 served, locks, posted>>

\* The registration and the wallet are answered 201.
Register(u) ==
  /\ prov[u] = "new"
  /\ Provision(u, "registered")
  /\ UNCHANGED balance

Fund(u) ==
  /\ prov[u] = "registered"
  /\ balance' = [balance EXCEPT ![u] = Funding]
  /\ Provision(u, "funded")

Provisioned(u) ==
  /\ prov[u] = "funded"
  /\ Provision(u, "ready")
  /\ UNCHANGED balance

\* Another status, a timeout or an exception: the user is left out, and a
\* wallet that was funded is never used.
GiveUp(u) ==
  /\ prov[u] \in {"new", "registered", "funded"}
  /\ Provision(u, "failed")
  /\ UNCHANGED balance

Provisioning == {u \in Users : prov[u] \notin {"ready", "failed"}}

EndProvisioningUnchecked ==
  /\ phase = "provision"
  /\ Provisioning = {}
  /\ phase' = "transfer"
  /\ UNCHANGED <<prov, step, job, stats, requests, fetched, failures, total,
                 server>>
EndProvisioning ==
  /\ phase = "provision"
  /\ Provisioning = {}
  /\ phase' = IF Cardinality(users) < 2 THEN "exit" ELSE "transfer"
  /\ UNCHANGED <<prov, step, job, stats, requests, fetched, failures, total,
                 server>>

-----------------------------------------------------------------------------
(* Step 2: perform_random_transfer, one job of the thread pool each.        *)

Send(i, a) ==
  /\ step' = [step EXCEPT ![i] = a]
  /\ requests' = requests + 1
  /\ served' = [served EXCEPT ![i][a] = "sent"]
  /\ UNCHANGED <<phase, prov, stats, fetched, failures, total,
                 balance, locks, posted>>

\* A free thread takes the next transfer.
Begin(i, from, to, amount) ==
  /\ phase = "transfer"
  /\ step[i] = "queued"
  /\ \A j \in 1 .. i - 1 : step[j] # "queued"
  /\ Cardinality(Running) < NUM_THREADS
  /\ job' = [job EXCEPT ![i] = [from |-> from, to |-> to, amount |-> amount]]
  /\ Send(i, "primary")

\* The duplicate follows when the first call has returned: send_req blocks.
SendDuplicateAtOnce(i) ==
  /\ step[i] \in {"pause", "primary"}
  /\ Send(i, "duplicate")
  /\ UNCHANGED job
SendDuplicate(i) ==
  /\ step[i] = "pause"
  /\ Send(i, "duplicate")
  /\ UNCHANGED job

\* The counter of an answer: by status, and a 200 by its X-Cache-Lookup.
Counter(answer) ==
  CASE answer = "created"  -> "success"
    [] answer = "hit"      -> "idempotent_hits"
    [] answer = "rejected" -> "insufficient_funds"
    [] answer = "conflict" -> "concurrency_conflicts"
    [] answer = "error"    -> "errors"

\* After the first call the thread sends a duplicate or not, at random.
Return(i) ==
  /\ \/ step' = [step EXCEPT ![i] = "over"]
     \/ step[i] = "primary" /\ step' = [step EXCEPT ![i] = "pause"]
  /\ UNCHANGED <<phase, prov, job, requests, fetched, failures, total, server>>

Receive(i) ==
  /\ i \in Waiting
  /\ served[i][step[i]] \in Answers
  /\ stats' = [stats EXCEPT ![Counter(served[i][step[i]])] = @ + 1]
  /\ Return(i)

\* The 30 s are over or the connection breaks, whatever the server does.
FailAnsweredOnly(i) ==
  /\ i \in Waiting
  /\ served[i][step[i]] \in Answers
  /\ stats' = [stats EXCEPT !["errors"] = @ + 1]
  /\ Return(i)
Fail(i) ==
  /\ i \in Waiting
  /\ stats' = [stats EXCEPT !["errors"] = @ + 1]
  /\ Return(i)

-----------------------------------------------------------------------------
(* Step 4: the balances of the users provisioned, one call after another.   *)

\* The pool is left when its last job has returned.
StartReconcileAtOnce ==
  /\ phase = "transfer"
  /\ \A i \in Transfers : step[i] # "queued"
  /\ phase' = "reconcile"
  /\ UNCHANGED <<prov, step, job, stats, requests, fetched, failures, total,
                 server>>
StartReconcile ==
  /\ phase = "transfer"
  /\ \A i \in Transfers : step[i] = "over"
  /\ phase' = "reconcile"
  /\ UNCHANGED <<prov, step, job, stats, requests, fetched, failures, total,
                 server>>

Fetch(u) ==
  /\ phase = "reconcile"
  /\ u \in users \ fetched
  /\ fetched' = fetched \cup {u}
  /\ \/ total' = total + balance[u] /\ UNCHANGED failures
     \/ failures' = failures \cup {u} /\ UNCHANGED total
  /\ UNCHANGED <<phase, prov, step, job, stats, requests, server>>

Finish ==
  /\ phase = "reconcile"
  /\ fetched = users
  /\ phase' = "done"
  /\ UNCHANGED <<prov, step, job, stats, requests, fetched, failures, total,
                 server>>

expected_total == Cardinality(Users) * Funding
Matched == total = expected_total

-----------------------------------------------------------------------------
(* The server, also for attempts the script has given up.                   *)

Serve(i, a, next) ==
  /\ served' = [served EXCEPT ![i][a] = next]
  /\ UNCHANGED script

Lookup(i, a) ==
  /\ served[i][a] = "sent"
  /\ Serve(i, a, IF i \in posted THEN "hit" ELSE "missed")
  /\ UNCHANGED <<balance, locks, posted>>

Acquire(i, a) ==
  /\ served[i][a] = "missed"
  /\ Serve(i, a, IF i \in locks THEN "conflict" ELSE "executing")
  /\ locks' = locks \cup {i}
  /\ UNCHANGED <<balance, posted>>

\* The posting, refused for a duplicate reference or for want of funds, and
\* the release of the lock.  If the COMMIT loses its connection the client reads
\* an error of a posting that was made; so it does if the release raises, and
\* then the lock stays too.
Execute(i, a) ==
  LET j == job[i]
      accepted == i \notin posted /\ balance[j.from] >= j.amount IN
  /\ served[i][a] = "executing"
  /\ \/ /\ Serve(i, a, IF accepted THEN "created" ELSE "rejected")
        /\ locks' = locks \ {i}
     \/ /\ Serve(i, a, "error")
        /\ locks' \in {locks, locks \ {i}}
  /\ posted' = IF accepted THEN posted \cup {i} ELSE posted
  /\ balance' = IF accepted
                THEN [balance EXCEPT ![j.from] = @ - j.amount,
                                     ![j.to] = @ + j.amount]
                ELSE balance

\* The proxy or the worker fails; a lock it holds stays until it expires.
Break(i, a) ==
  /\ served[i][a] \in {"sent", "missed", "executing"}
  /\ Serve(i, a, "error")
  /\ UNCHANGED <<balance, locks, posted>>

Expire(i) ==
  /\ i \in locks
  /\ locks' = locks \ {i}
  /\ UNCHANGED <<script, balance, served, posted>>

-----------------------------------------------------------------------------
Script ==
  \/ \E u \in Users : \/ Register(u) \/ Fund(u) \/ Provisioned(u) \/ GiveUp(u)
                      \/ Fetch(u)
  \/ EndProvisioning \/ StartReconcile \/ Finish
  \/ \E i \in Transfers :
       \/ \E from, to \in users, amount \in Amounts :
            from # to /\ Begin(i, from, to, amount)
       \/ SendDuplicate(i) \/ Receive(i) \/ Fail(i)

\* Followed until the script ends: it sees nothing of what comes later.
Server ==
  /\ phase # "done"
  /\ \E i \in Transfers :
       \/ \E a \in Attempts :
            Lookup(i, a) \/ Acquire(i, a) \/ Execute(i, a) \/ Break(i, a)
       \/ Expire(i)

Ended == phase \in {"done", "exit"} /\ UNCHANGED vars

Next == Online \/ Script \/ Server \/ Ended

\* The script runs and its calls time out; the server owes it nothing, not even
\* the answer the script waits for at the start.
Spec == Init /\ [][Next]_vars /\ WF_vars(Script)

-----------------------------------------------------------------------------
(* Properties.                                                             *)

Counted == stats["success"] + stats["idempotent_hits"]
           + stats["insufficient_funds"] + stats["concurrency_conflicts"]
           + stats["errors"]

\* What the counters say of the calls and of the server: every call is counted
\* once, late, lost or answered; a transfer counted as a success was
\* committed, one that was committed is counted as a success or one of its
\* calls as an error, and a blocked duplicate belongs to a committed transfer.
\* Since a duplicate is sent after its primary has returned, a 409 can only
\* follow an error.
TalliesMatchPostings ==
  /\ requests = Counted + Cardinality(Waiting)
  /\ stats["success"] <= Cardinality(posted)
  /\ Cardinality(posted) <= stats["success"] + stats["errors"]
                            + Cardinality(Waiting)
  /\ stats["idempotent_hits"] <= Cardinality(posted)
  /\ stats["concurrency_conflicts"] <= stats["errors"]

\* The reconciliation succeeds if nothing failed: every user was provisioned,
\* no call ended in an error, and every balance came.  Otherwise "[FAILURE]
\* Balance mismatch found!" may be said of wallets that lack nothing: the sum
\* leaves out a user, or a transfer given up commits between two fetches.
VerdictExactWhenClean ==
  (phase = "done" /\ users = Users /\ stats["errors"] = 0 /\ failures = {})
    => Matched

\* Once the API has answered a first time the script comes to its end, also if
\* the server hangs from then on.  Until it has, the script waits for ever.
SimulationEnds == (phase # "waiting") ~> (phase \in {"done", "exit"})

=============================================================================
