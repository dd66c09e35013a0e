------------------------------ MODULE TwoStacks ------------------------------
(***************************************************************************)
(* Both APIs at once, as docker-compose deploys them: one PostgreSQL        *)
(* database behind both, and one Redis server - but the Django cache        *)
(* writes its lock as ":1:lock:idempotency:<key>" in database 1 and the     *)
(* .NET API "lock:idempotency:<key>" in database 0.  A key that is used on  *)
(* both stacks is locked twice, and only the tables bring its two requests   *)
(* together.  A user owns wallets on the stack that registered the user: a   *)
(* token of the .NET API is refused by Django, and a token of Django names no *)
(* user id the .NET API knows, so it owns nothing there.  But a transfer may  *)
(* go to a wallet of a user of the other stack.  All amounts are in half     *)
(* units, as in DotnetWalletApi.                                           *)
(***************************************************************************)
EXTENDS WalletStore

CONSTANTS
  WalletIds, Users, Owner, NoKey,
  DjangoRequests, DotnetRequests,
  DjangoPayloads, DotnetPayloads

VARIABLES
  djLocks, djReq, djPc, djResp, djLoaded,
  netLocks, netReq, netPc, netResp, netTracked

djVars  == <<djLocks, djReq, djPc, djResp, djLoaded>>
netVars == <<netLocks, netReq, netPc, netResp, netTracked>>
vars == <<balance, txn, ledger, held, pending, djVars, netVars>>

Django == INSTANCE DjangoWalletApi WITH
  Requests <- DjangoRequests, Payloads <- DjangoPayloads,
  locks <- djLocks, req <- djReq, pc <- djPc, resp <- djResp,
  loaded <- djLoaded

Dotnet == INSTANCE DotnetWalletApi WITH
  Requests <- DotnetRequests, Payloads <- DotnetPayloads,
  locks <- netLocks, req <- netReq, pc <- netPc, resp <- netResp,
  tracked <- netTracked

\* The payloads of both are those of their modules; a Django amount is a whole
\* number of units, its DecimalField refuses a fifth decimal.
ASSUME StacksAssumption ==
  /\ Sessions = DjangoRequests \cup DotnetRequests
  /\ DjangoRequests \cap DotnetRequests = {}
  /\ Wallets \subseteq WalletIds
  /\ NoKey \notin Keys
  /\ Owner \in [Wallets -> Users]
  /\ DjangoPayloads \subseteq Django!Payload
  /\ DotnetPayloads \subseteq Dotnet!Payload
  /\ {p.user : p \in DjangoPayloads} \cap {p.user : p \in DotnetPayloads} = {}
  /\ \A p \in DjangoPayloads \cup DotnetPayloads :
       p.type # "TRANSFER" => p.from = p.to
  /\ \A p \in DjangoPayloads : p.amount % 2 = 0
  /\ MaxBalance % 2 = 0
  /\ \A w \in Wallets : Opening[w] % 2 = 0

Init == Django!Init /\ Dotnet!Init

DjangoStep ==
  /\ \/ \E r \in DjangoRequests : Django!Step(r) \/ Django!Fail(r)
     \/ \E k \in Keys : Django!Expire(k)
  /\ UNCHANGED netVars

DotnetStep ==
  /\ \/ \E r \in DotnetRequests : Dotnet!Step(r) \/ Dotnet!Fail(r)
     \/ \E k \in Keys : Dotnet!Expire(k)
  /\ UNCHANGED djVars

Quiescent ==
  /\ \A r \in DjangoRequests : djPc[r] = "done"
  /\ \A r \in DotnetRequests : netPc[r] = "done"
  /\ UNCHANGED vars

Next == DjangoStep \/ DotnetStep \/ Quiescent

Spec == Init /\ [][Next]_vars

-----------------------------------------------------------------------------
(* Properties.                                                             *)

ReqOf(s)  == IF s \in DjangoRequests THEN djReq[s] ELSE netReq[s]
RespOf(s) == IF s \in DjangoRequests THEN djResp[s] ELSE netResp[s]

\* README line 101 across the stacks, where no Redis lock helps: a key is
\* answered 201 once, by whichever stack posted it; the other stack's request
\* is never told 201, and a HIT may tell it of the first one's posting.  The
\* header is the posting request's, its amount as the column holds it; that
\* request is told 201, or a 500 or nothing if something failed after the
\* COMMIT, but never 400 or 409.
OneStackPosts ==
  /\ \A s, t \in Sessions :
       (s # t /\ RespOf(s) = "created" /\ RespOf(t) = "created")
         => ReqOf(s).key # ReqOf(t).key
  /\ \A s \in Sessions : RespOf(s) \in {"created", "hit"} =>
       Committed(ReqOf(s).key)
  /\ \A k \in Keys : Committed(k) =>
       \E s \in Sessions : /\ ReqOf(s).key = k
                           /\ RespOf(s) \in {"created", "error", "lost"}
                           /\ txn[k].type = ReqOf(s).type
                           /\ txn[k].amount = Dotnet!RoundToColumn(ReqOf(s).amount)

WaitsFor(s, t) ==
  \/ /\ s \in DjangoRequests
     /\ \/ /\ djPc[s] = "lock"
           /\ \E w \in held[t] : Django!NextRow(s, w)
        \/ /\ djPc[s] = "insert"
           /\ djReq[s].key \in pending[t]
  \/ /\ s \in DotnetRequests
     /\ \/ /\ netPc[s] = "lock"
           /\ \E w \in held[t] : Dotnet!NextRow(s, w)
        \/ /\ netPc[s] = "insert"
           /\ netReq[s].key \in pending[t]

\* The two stacks lock rows in the same order, so requests of both never wait
\* for each other in a circle.
NoCrossStackCycle ==
  \A S \in SUBSET Sessions :
    S # {} => \E s \in S : \A t \in S \ {s} : ~WaitsFor(s, t)

\* As long as no client uses the .NET transfer or withdraws a fraction of a
\* unit there, the postings of one stack never build on a balance the other has
\* changed meanwhile.
ChainWithoutDotnetTransfers ==
  (\A r \in DotnetRequests :
     \/ netReq[r].type = "DEPOSIT"
     \/ netReq[r].type = "WITHDRAWAL" /\ netReq[r].amount % 2 = 0)
    => LedgerChains

=============================================================================
