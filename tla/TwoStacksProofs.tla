--------------------------- MODULE TwoStacksProofs ---------------------------
(***************************************************************************)
(* What requests of both stacks, in any number, keep together.  First, that *)
(* they never wait for each other in a circle: both lock rows in the order  *)
(* of their ids, and whoever another request waits for in the unique index  *)
(* waits for nothing.  Then one inductive invariant of the deployment,      *)
(* StacksInv, which says of every session, whichever stack serves it, what  *)
(* it holds, has read and may write; no overdraft, one posting of a key,    *)
(* double entry, the running balance and append-only history follow.        *)
(***************************************************************************)
EXTENDS TwoStacks, WalletStoreProofs

PcOf(s) == IF s \in DjangoRequests THEN djPc[s] ELSE netPc[s]
MissingOf(s) == ({ReqOf(s).from, ReqOf(s).to} \cap Wallets) \ held[s]

WaitInv ==
  /\ held \in [Sessions -> SUBSET Wallets]
  /\ DOMAIN pending = Sessions
  /\ DOMAIN djPc = DjangoRequests /\ DOMAIN netPc = DotnetRequests
  /\ \A s \in Sessions : PcOf(s) # "post" => pending[s] = {}
  /\ \A s \in Sessions : \A h \in held[s], m \in MissingOf(s) : h < m

LEMMA InitWait == Init => WaitInv
<1> SUFFICES ASSUME Init PROVE WaitInv
  OBVIOUS
<1>1. held = [s \in Sessions |-> {}] /\ pending = [s \in Sessions |-> {}]
  BY DEF Init, Django!Init, Django!StoreInit
<1>2. /\ djPc = [r \in DjangoRequests |-> "lookup"]
      /\ netPc = [r \in DotnetRequests |-> "lookup"]
  BY DEF Init, Django!Init, Dotnet!Init
<1>3. QED
  BY <1>1, <1>2 DEF WaitInv

\* What a step of session s does to its locks and references.
Moves(s) ==
  /\ held' \in [Sessions -> SUBSET Wallets]
  /\ DOMAIN pending' = Sessions
  /\ \A t \in Sessions : t # s => /\ PcOf(t)' = PcOf(t)
                                  /\ held'[t] = held[t]
                                  /\ pending'[t] = pending[t]
  /\ \/ held'[s] = held[s] /\ pending'[s] = pending[s] /\ PcOf(s) # "post"
     \/ held'[s] = {} /\ pending'[s] = {}
     \/ held'[s] = held[s] /\ PcOf(s)' = "post"
     \/ /\ pending'[s] = pending[s] /\ PcOf(s) # "post"
        /\ \E w \in MissingOf(s) : /\ \A v \in MissingOf(s) : w <= v
                                   /\ held'[s] = held[s] \cup {w}

LEMMA MovesKeepOrder ==
  ASSUME WaitInv, NEW s \in Sessions, Moves(s),
         \A t \in Sessions : ReqOf(t)' = ReqOf(t),
         DOMAIN djPc' = DjangoRequests, DOMAIN netPc' = DotnetRequests
  PROVE  WaitInv'
<1>1. ASSUME NEW t \in Sessions
      PROVE  PcOf(t)' # "post" => pending'[t] = {}
  BY DEF WaitInv, Moves
<1>2. ASSUME NEW t \in Sessions, NEW h \in held'[t], NEW m \in MissingOf(t)'
      PROVE  h < m
  <2>1. \A u \in Sessions :
          MissingOf(u)' = ({ReqOf(u).from, ReqOf(u).to} \cap Wallets) \ held'[u]
    BY DEF MissingOf
  <2>2. CASE held'[t] \subseteq held[t]
    <3>1. held'[t] = held[t] \/ held'[t] = {}
      BY <2>2 DEF Moves, MissingOf
    <3>2. QED
      BY <1>2, <2>1, <3>1 DEF WaitInv, MissingOf
  <2>3. CASE ~(held'[t] \subseteq held[t])
    <3>1. t = s
      BY <2>3 DEF Moves
    <3>2. PICK w \in MissingOf(s) : /\ \A v \in MissingOf(s) : w <= v
                                    /\ held'[s] = held[s] \cup {w}
      BY <2>3, <3>1 DEF Moves
    <3>3. m \in MissingOf(s) /\ m # w /\ m \in Nat /\ w \in Nat
      BY <1>2, <2>1, <3>1, <3>2, StoreAssumption DEF MissingOf
    <3>4. QED
      BY <1>2, <3>1, <3>2, <3>3 DEF WaitInv
  <2>4. QED
    BY <2>2, <2>3
<1>3. held' \in [Sessions -> SUBSET Wallets] /\ DOMAIN pending' = Sessions
  BY DEF Moves
<1>4. QED
  BY <1>1, <1>2, <1>3 DEF WaitInv

-----------------------------------------------------------------------------
(* The steps of the two stacks.                                             *)

LEMMA DjangoMoves ==
  ASSUME WaitInv, NEW r \in DjangoRequests, UNCHANGED netVars,
         Django!Step(r) \/ Django!Fail(r)
  PROVE  Moves(r) /\ djReq' = djReq /\ DOMAIN djPc' = DjangoRequests
<1> USE DEF Django!storeVars, Django!Goto, Django!Answer, Django!Rollback,
            Django!EndTransaction
<1>1. r \in Sessions /\ netPc' = netPc
  BY StacksAssumption DEF netVars
<1>2. \A step : djPc' = [djPc EXCEPT ![r] = step] =>
        /\ DOMAIN djPc' = DjangoRequests
        /\ PcOf(r)' = step
        /\ \A t \in Sessions : t # r => PcOf(t)' = PcOf(t)
  BY <1>1 DEF PcOf, WaitInv
<1>3. PcOf(r) = djPc[r]
  BY DEF PcOf
<1>4. CASE \/ Django!MissingKey(r) \/ Django!Hit(r) \/ Django!Miss(r)
           \/ Django!AcquireLock(r) \/ Django!Conflict(r)
           \/ Django!PassValidation(r) \/ Django!FailValidation(r)
           \/ Django!Accept(r) \/ Django!Release(r)
           \/ Django!FailBefore(r) \/ Django!FailRelease(r)
  BY <1>1, <1>2, <1>3, <1>4
     DEF Moves, WaitInv, Django!MissingKey, Django!Hit, Django!Miss,
         Django!AcquireLock, Django!Conflict, Django!PassValidation,
         Django!FailValidation, Django!Accept, Django!Release,
         Django!FailBefore, Django!FailRelease
<1>5. CASE \/ Django!Refuse(r) \/ Django!DuplicateHeader(r)
           \/ Django!Overflow(r) \/ Django!FailInside(r) \/ Django!Crash(r)
  BY <1>1, <1>2, <1>5
     DEF Moves, WaitInv, Django!Refuse, Django!DuplicateHeader,
         Django!Overflow, Django!FailInside, Django!Crash
<1>6. CASE Django!Post(r)
  BY <1>1, <1>2, <1>6 DEF Moves, WaitInv, Django!Post, Django!Commit
<1>7. CASE Django!InsertHeader(r)
  <2>1. /\ djPc' = [djPc EXCEPT ![r] = "post"]
        /\ pending' = [pending EXCEPT ![r] = @ \cup {djReq[r].key}]
        /\ held' = held /\ djReq' = djReq /\ Committed(djReq[r].key) = FALSE
    BY <1>7 DEF Django!InsertHeader, Django!InsertReference,
                Django!ReferenceFree, Django!Committed, Committed
  <2>2. QED
    BY <1>1, <1>2, <2>1 DEF Moves, WaitInv
<1>8. ASSUME NEW w \in Wallets, Django!LockRow(r, w)
      PROVE  Moves(r) /\ djReq' = djReq /\ DOMAIN djPc' = DjangoRequests
  <2>1. /\ w \in MissingOf(r) /\ \A v \in MissingOf(r) : w <= v
        /\ held' = [held EXCEPT ![r] = @ \cup {w}]
        /\ djPc[r] = "lock" /\ djPc' = djPc
        /\ pending' = pending /\ djReq' = djReq
    BY <1>8 DEF Django!LockRow, Django!NextRow, Django!Missing, Django!Rows,
                Django!TakeRow, MissingOf, ReqOf
  <2>2. QED
    BY <1>1, <1>3, <2>1 DEF Moves, WaitInv, PcOf
<1>9. QED
  BY <1>4, <1>5, <1>6, <1>7, <1>8 DEF Django!Step, Django!Fail

LEMMA DotnetMoves ==
  ASSUME WaitInv, NEW r \in DotnetRequests, UNCHANGED djVars,
         Dotnet!Step(r) \/ Dotnet!Fail(r)
  PROVE  Moves(r) /\ netReq' = netReq /\ DOMAIN netPc' = DotnetRequests
<1> USE DEF Dotnet!storeVars, Dotnet!Goto, Dotnet!Answer, Dotnet!Rollback,
            Dotnet!EndTransaction
<1>1. r \in Sessions /\ r \notin DjangoRequests /\ djPc' = djPc
  BY StacksAssumption DEF djVars
<1>2. \A step : netPc' = [netPc EXCEPT ![r] = step] =>
        /\ DOMAIN netPc' = DotnetRequests
        /\ PcOf(r)' = step
        /\ \A t \in Sessions : t # r => PcOf(t)' = PcOf(t)
  BY <1>1 DEF PcOf, WaitInv
<1>3. PcOf(r) = netPc[r]
  BY <1>1 DEF PcOf
<1>4. CASE \/ Dotnet!MissingKey(r) \/ Dotnet!Hit(r) \/ Dotnet!Miss(r)
           \/ Dotnet!AcquireLock(r) \/ Dotnet!Conflict(r)
           \/ Dotnet!PassValidation(r) \/ Dotnet!FailValidation(r)
           \/ Dotnet!TrackSource(r) \/ Dotnet!TrackDestination(r)
           \/ Dotnet!FailTransfer(r) \/ Dotnet!Accept(r) \/ Dotnet!Release(r)
           \/ Dotnet!FailBefore(r) \/ Dotnet!FailRelease(r)
  BY <1>1, <1>2, <1>3, <1>4
     DEF Moves, WaitInv, Dotnet!MissingKey, Dotnet!Hit, Dotnet!Miss,
         Dotnet!AcquireLock, Dotnet!Conflict, Dotnet!PassValidation,
         Dotnet!FailValidation, Dotnet!TrackSource, Dotnet!TrackDestination,
         Dotnet!FailTransfer, Dotnet!Accept, Dotnet!Release,
         Dotnet!FailBefore, Dotnet!FailRelease
<1>5. CASE \/ Dotnet!Refuse(r) \/ Dotnet!DuplicateHeader(r)
           \/ Dotnet!Overflow(r) \/ Dotnet!FailInside(r) \/ Dotnet!Crash(r)
  BY <1>1, <1>2, <1>5
     DEF Moves, WaitInv, Dotnet!Refuse, Dotnet!DuplicateHeader,
         Dotnet!Overflow, Dotnet!FailInside, Dotnet!Crash
<1>6. CASE Dotnet!Post(r)
  BY <1>1, <1>2, <1>6 DEF Moves, WaitInv, Dotnet!Post, Dotnet!Commit
<1>7. CASE Dotnet!InsertHeader(r)
  <2>1. /\ netPc' = [netPc EXCEPT ![r] = "post"]
        /\ pending' = [pending EXCEPT ![r] = @ \cup {netReq[r].key}]
        /\ held' = held /\ netReq' = netReq
    BY <1>7 DEF Dotnet!InsertHeader, Dotnet!InsertReference
  <2>2. QED
    BY <1>1, <1>2, <2>1 DEF Moves, WaitInv
<1>8. ASSUME NEW w \in Wallets, Dotnet!LockRow(r, w)
      PROVE  Moves(r) /\ netReq' = netReq /\ DOMAIN netPc' = DotnetRequests
  <2>1. /\ w \in MissingOf(r) /\ \A v \in MissingOf(r) : w <= v
        /\ held' = [held EXCEPT ![r] = @ \cup {w}]
        /\ netPc[r] = "lock" /\ netPc' = netPc
        /\ pending' = pending /\ netReq' = netReq
    BY <1>1, <1>8 DEF Dotnet!LockRow, Dotnet!NextRow, Dotnet!Missing,
                      Dotnet!Rows, Dotnet!TakeRow, MissingOf, ReqOf
  <2>2. QED
    BY <1>1, <1>3, <2>1 DEF Moves, WaitInv, PcOf
<1>9. QED
  BY <1>4, <1>5, <1>6, <1>7, <1>8 DEF Dotnet!Step, Dotnet!Fail

LEMMA WaitStep == WaitInv /\ [Next]_vars => WaitInv'
<1> SUFFICES ASSUME WaitInv, [Next]_vars PROVE WaitInv'
  OBVIOUS
<1>1. ASSUME NEW r \in DjangoRequests, UNCHANGED netVars,
             Django!Step(r) \/ Django!Fail(r)
      PROVE  WaitInv'
  <2>1. Moves(r) /\ djReq' = djReq /\ DOMAIN djPc' = DjangoRequests
    BY <1>1, DjangoMoves
  <2>2. r \in Sessions /\ netReq' = netReq /\ netPc' = netPc
    BY <1>1, StacksAssumption DEF netVars
  <2>3. /\ \A t \in Sessions : ReqOf(t)' = ReqOf(t)
        /\ DOMAIN netPc' = DotnetRequests
    BY <2>1, <2>2 DEF ReqOf, WaitInv
  <2>4. QED
    BY <2>1, <2>2, <2>3, MovesKeepOrder
<1>2. ASSUME NEW r \in DotnetRequests, UNCHANGED djVars,
             Dotnet!Step(r) \/ Dotnet!Fail(r)
      PROVE  WaitInv'
  <2>1. Moves(r) /\ netReq' = netReq /\ DOMAIN netPc' = DotnetRequests
    BY <1>2, DotnetMoves
  <2>2. r \in Sessions /\ djReq' = djReq /\ djPc' = djPc
    BY <1>2, StacksAssumption DEF djVars
  <2>3. /\ \A t \in Sessions : ReqOf(t)' = ReqOf(t)
        /\ DOMAIN djPc' = DjangoRequests
    BY <2>1, <2>2 DEF ReqOf, WaitInv
  <2>4. QED
    BY <2>1, <2>2, <2>3, MovesKeepOrder
<1>3. ASSUME UNCHANGED <<held, pending, djReq, djPc, netReq, netPc>>
      PROVE  WaitInv'
  BY <1>3 DEF WaitInv, PcOf, MissingOf, ReqOf
<1>4. CASE UNCHANGED vars \/ Quiescent
  BY <1>3, <1>4 DEF vars, djVars, netVars, Quiescent
<1>5. CASE DjangoStep
  BY <1>1, <1>3, <1>5 DEF DjangoStep, Django!Expire, Django!storeVars, netVars
<1>6. CASE DotnetStep
  BY <1>2, <1>3, <1>6 DEF DotnetStep, Dotnet!Expire, Dotnet!storeVars, djVars
<1>7. QED
  BY <1>4, <1>5, <1>6 DEF Next

-----------------------------------------------------------------------------
(* No circle.                                                              *)

Blocks(s, t) == \E w \in held[t] : /\ w \in MissingOf(s)
                                   /\ \A v \in MissingOf(s) : w <= v

LEMMA WhoWaits ==
  ASSUME WaitInv, NEW s \in Sessions, NEW t \in Sessions, WaitsFor(s, t)
  PROVE  /\ PcOf(s) # "post"
         /\ Blocks(s, t) \/ PcOf(t) = "post"
<1>1. s \in DjangoRequests => s \notin DotnetRequests
  BY StacksAssumption
<1>2. CASE s \in DjangoRequests /\ djPc[s] = "lock"
  <2>1. PICK w \in held[t] : Django!NextRow(s, w)
    BY <1>1, <1>2 DEF WaitsFor
  <2>2. MissingOf(s) = Django!Missing(s) /\ PcOf(s) = "lock"
    BY <1>2 DEF MissingOf, ReqOf, PcOf, Django!Missing, Django!Rows
  <2>3. QED
    BY <2>1, <2>2 DEF Blocks, Django!NextRow
<1>3. CASE s \in DotnetRequests /\ netPc[s] = "lock"
  <2>1. PICK w \in held[t] : Dotnet!NextRow(s, w)
    BY <1>1, <1>3 DEF WaitsFor
  <2>2. MissingOf(s) = Dotnet!Missing(s) /\ PcOf(s) = "lock"
    BY <1>1, <1>3 DEF MissingOf, ReqOf, PcOf, Dotnet!Missing, Dotnet!Rows
  <2>3. QED
    BY <2>1, <2>2 DEF Blocks, Dotnet!NextRow
<1>4. CASE s \in DjangoRequests /\ djPc[s] = "insert" /\ pending[t] # {}
  BY <1>4 DEF WaitInv, PcOf
<1>5. CASE s \in DotnetRequests /\ netPc[s] = "insert" /\ pending[t] # {}
  BY <1>1, <1>5 DEF WaitInv, PcOf
<1>6. QED
  BY <1>2, <1>3, <1>4, <1>5 DEF WaitsFor

LEMMA NoCircle == WaitInv => NoCrossStackCycle
<1> SUFFICES ASSUME WaitInv, NEW S \in SUBSET Sessions, S # {},
                    \A s \in S : \E t \in S \ {s} : WaitsFor(s, t)
             PROVE  FALSE
  BY DEF NoCrossStackCycle
<1>1. ASSUME NEW s \in S
      PROVE  \E t \in S : Blocks(s, t)
  <2>1. PICK t \in S : WaitsFor(s, t)
    OBVIOUS
  <2>2. PICK u \in S : WaitsFor(t, u)
    OBVIOUS
  <2>3. PcOf(t) # "post"
    BY <2>2, WhoWaits
  <2>4. QED
    BY <2>1, <2>3, WhoWaits
<1> DEFINE W == {w \in Wallets : \E s, t \in S :
                   /\ w \in held[t] /\ w \in MissingOf(s)
                   /\ \A v \in MissingOf(s) : w <= v}
<1>2. W # {} /\ W \subseteq Nat /\ IsFiniteSet(W)
  <2>1. W # {}
    BY <1>1 DEF Blocks, MissingOf
  <2>2. W \subseteq Wallets
    OBVIOUS
  <2> HIDE DEF W
  <2>3. QED
    BY <2>1, <2>2, StoreAssumption, FS_Subset
<1>3. PICK m \in W : \A x \in W : x <= m
  <2> HIDE DEF W
  <2>1. QED
    BY <1>2, GreatestElement
<1>4. PICK s \in S : m \in held[s]
  BY <1>3
<1>5. PICK t \in S : Blocks(s, t)
  BY <1>1
<1>6. PICK w \in held[t] : w \in MissingOf(s) /\ \A v \in MissingOf(s) : w <= v
  BY <1>5 DEF Blocks
<1>7. w \in W /\ m < w
  BY <1>4, <1>6 DEF MissingOf, WaitInv
<1>8. QED
  BY <1>2, <1>3, <1>7

\* Any number of requests of both stacks, for any wallets and keys: no set of
\* them waits in a circle, over row locks, over the unique index or over both.
THEOREM NoCrossStackDeadlock == Spec => []NoCrossStackCycle
<1>1. QED
  BY InitWait, WaitStep, NoCircle, PTL DEF Spec

-----------------------------------------------------------------------------
(* What is safe across the stacks.  A session is a request of one stack or   *)
(* the other; what follows says of all of them together what the invariants  *)
(* of the two APIs say of the requests of one.                             *)

SeenOf(s) == IF s \in DjangoRequests THEN djLoaded[s] ELSE netTracked[s]
Rows(p) == {p.from, p.to}
InTxn == {"lock", "insert", "post"}

\* A .NET transfer works on balances it read before it locked their rows.
Stale(s) == s \in DotnetRequests /\ ReqOf(s).type = "TRANSFER"

WellFormed(p) ==
  /\ p.amount > 0
  /\ p.from \in Wallets /\ p.to \in Wallets
  /\ p.type = "TRANSFER" => /\ p.from # p.to
                            /\ Currency[p.from] = Currency[p.to]
  /\ p.type # "TRANSFER" => p.from = p.to

Shape ==
  /\ StoreTypeOK
  /\ djReq \in [DjangoRequests -> DjangoPayloads]
  /\ netReq \in [DotnetRequests -> DotnetPayloads]
  /\ DOMAIN djPc = DjangoRequests /\ DOMAIN netPc = DotnetRequests
  /\ DOMAIN djResp = DjangoRequests /\ DOMAIN netResp = DotnetRequests
  /\ DOMAIN djLoaded = DjangoRequests /\ DOMAIN netTracked = DotnetRequests

\* Its rows are locked by a session in its transaction only, all of them when
\* it inserts its header.
Locking(s) ==
  /\ held[s] \subseteq Rows(ReqOf(s))
  /\ PcOf(s) \notin InTxn => held[s] = {}
  /\ PcOf(s) \in {"insert", "post"} => held[s] = Rows(ReqOf(s))

\* What its checks before the transaction have established.
Checked(s) ==
  /\ PcOf(s) \notin {"lookup", "done"} => ReqOf(s).key \in Keys
  /\ PcOf(s) = "destination" => /\ ReqOf(s).type = "TRANSFER"
                                /\ ReqOf(s).from \in Wallets
                                /\ ReqOf(s).from # ReqOf(s).to
  /\ PcOf(s) \in InTxn => WellFormed(ReqOf(s))

\* The balances it has read are some the tables once held; those of the rows it
\* holds are current, whichever stack wrote last, unless it is a .NET transfer.
Reading(s) ==
  /\ DOMAIN SeenOf(s) \subseteq Wallets
  /\ s \in DjangoRequests => DOMAIN SeenOf(s) = Wallets
  /\ held[s] \subseteq DOMAIN SeenOf(s)
  /\ \A w \in DOMAIN SeenOf(s) : /\ SeenOf(s)[w] \in 0 .. MaxBalance
                                 /\ SeenOf(s)[w] % 2 = 0
  /\ ~Stale(s) => \A w \in held[s] : SeenOf(s)[w] = balance[w]
  /\ (s \in DotnetRequests /\ ~Stale(s)) => DOMAIN SeenOf(s) \subseteq held[s]

\* Its funds check still holds of the numbers it will write.
Funded(s) ==
  (PcOf(s) \in {"insert", "post"} /\ ReqOf(s).type # "DEPOSIT")
    => SeenOf(s)[ReqOf(s).from] >= ReqOf(s).amount

\* It is answered once, at the end; 201 and HIT name a committed reference.
Answered(s) ==
  /\ PcOf(s) \notin {"release", "done"} => RespOf(s) = "none"
  /\ RespOf(s) \in {"created", "hit"} =>
       ReqOf(s).key \in Keys /\ Committed(ReqOf(s).key)

Good(s) ==
  /\ Locking(s)
  /\ Checked(s)
  /\ Reading(s)
  /\ Funded(s)
  /\ Answered(s)
  /\ pending[s] = IF PcOf(s) = "post" THEN {ReqOf(s).key} ELSE {}

\* No two sessions hold a row, or a reference in flight, together, and what is
\* in flight is not committed.
Exclusive ==
  /\ \A s, t \in Sessions : s # t => /\ held[s] \cap held[t] = {}
                                     /\ pending[s] \cap pending[t] = {}
  /\ \A s \in Sessions : \A k \in pending[s] : ~Committed(k)

StacksInv ==
  /\ Shape
  /\ \A w \in Wallets : balance[w] >= 0 /\ balance[w] % 2 = 0
  /\ Exclusive
  /\ \A s \in Sessions : Good(s)

LEMMA InitStacks == Init => StacksInv
<1> SUFFICES ASSUME Init PROVE StacksInv
  OBVIOUS
<1> USE StoreAssumption, StacksAssumption
<1>1. /\ balance = Opening
      /\ txn = [k \in Keys |-> NoTxn]
      /\ ledger = [w \in Wallets |-> <<>>]
      /\ held = [s \in Sessions |-> {}]
      /\ pending = [s \in Sessions |-> {}]
  BY DEF Init, Django!Init, Django!StoreInit
<1>2. /\ djReq \in [DjangoRequests -> DjangoPayloads]
      /\ djPc = [r \in DjangoRequests |-> "lookup"]
      /\ djResp = [r \in DjangoRequests |-> "none"]
      /\ djLoaded = [r \in DjangoRequests |-> [w \in Wallets |-> 0]]
  BY DEF Init, Django!Init, Django!Unread
<1>3. /\ netReq \in [DotnetRequests -> DotnetPayloads]
      /\ netPc = [r \in DotnetRequests |-> "lookup"]
      /\ netResp = [r \in DotnetRequests |-> "none"]
      /\ netTracked = [r \in DotnetRequests |-> [w \in {} |-> 0]]
  BY DEF Init, Dotnet!Init, Dotnet!NothingTracked
<1>4. Shape
  <2>1. balance \in [Wallets -> Column]
    BY <1>1 DEF Column
  <2>2. ledger \in [Wallets -> Seq(Entry)]
    BY <1>1
  <2>3. QED
    BY <1>1, <1>2, <1>3, <2>1, <2>2 DEF Shape, StoreTypeOK
<1>5. \A w \in Wallets : balance[w] >= 0 /\ balance[w] % 2 = 0
  BY <1>1
<1>6. Exclusive
  BY <1>1 DEF Exclusive
<1>7. ASSUME NEW s \in Sessions
      PROVE  Good(s)
  <2>1. PcOf(s) = "lookup" /\ RespOf(s) = "none" /\ held[s] = {} /\ pending[s] = {}
    BY <1>1, <1>2, <1>3 DEF PcOf, RespOf
  <2>2. Reading(s)
    BY <1>2, <1>3, <2>1 DEF Reading, SeenOf
  <2>3. QED
    BY <2>1, <2>2 DEF Good, Locking, Checked, Funded, Answered, InTxn
<1>8. QED
  BY <1>4, <1>5, <1>6, <1>7 DEF StacksInv

-----------------------------------------------------------------------------
(* Steps of a session, told by what they do to the tables and to itself.    *)

\* Only s moves.
Frame(s) ==
  /\ \A t \in Sessions : ReqOf(t)' = ReqOf(t)
  /\ \A t \in Sessions \ {s} : /\ PcOf(t)' = PcOf(t)
                                /\ RespOf(t)' = RespOf(t)
                                /\ SeenOf(t)' = SeenOf(t)
                                /\ held'[t] = held[t]
                                /\ pending'[t] = pending[t]

\* It posts nothing; what it takes was free, and no answer comes out of nothing.
Quiet(s) ==
  /\ UNCHANGED <<balance, txn, ledger>>
  /\ \A w \in held'[s] \ held[s] : RowFree(w)
  /\ \A k \in pending'[s] \ pending[s] : ReferenceFree(k)
  /\ \/ RespOf(s)' \in {RespOf(s), "error", "lost"}
     \/ RespOf(s) = "none" /\ RespOf(s)' # "created"

\* What a posting of p on the balances "seen" writes.  In whole units the
\* Django API's is the same.
Written(s, header, amounts, after) ==
  LET p == ReqOf(s)
  IN  /\ header = Dotnet!HeaderOf(p)
      /\ amounts = Dotnet!Amounts(p)
      /\ after = Dotnet!Result(p, SeenOf(s))
      /\ ~Dotnet!Overflows(p, SeenOf(s))
      /\ Commit(s, p.key, header, amounts, after)

Posts(s) ==
  /\ \E header, amounts, after : Written(s, header, amounts, after)
  /\ PcOf(s) = "post" /\ PcOf(s)' = "release"
  /\ RespOf(s)' \in {"created", "error"}

\* What is good of a session stays good while others move, unless they change a
\* row it holds.
LEMMA OthersStayGood ==
  ASSUME NEW s \in Sessions, NEW t \in Sessions, t # s, Frame(s), Good(t),
         \A w \in held[t] : balance'[w] = balance[w],
         \A k \in Keys : Committed(k) => Committed(k)'
  PROVE  Good(t)'
<1>1. /\ ReqOf(t)' = ReqOf(t) /\ PcOf(t)' = PcOf(t) /\ RespOf(t)' = RespOf(t)
      /\ SeenOf(t)' = SeenOf(t) /\ held'[t] = held[t] /\ pending'[t] = pending[t]
  BY DEF Frame
<1>2. Locking(t)' /\ Checked(t)' /\ Funded(t)'
  BY <1>1 DEF Good, Locking, Checked, Funded, WellFormed
<1>3. Reading(t)'
  BY <1>1 DEF Good, Reading, Stale
<1>4. Answered(t)'
  BY <1>1 DEF Good, Answered
<1>5. QED
  BY <1>1, <1>2, <1>3, <1>4 DEF Good

LEMMA QuietKeeps ==
  ASSUME StacksInv, NEW s \in Sessions, Frame(s), Quiet(s), Shape', Good(s)'
  PROVE  StacksInv'
<1>1. \A k : Committed(k)' <=> Committed(k)
  BY DEF Quiet, Committed
<1>2. ASSUME NEW t \in Sessions
      PROVE  Good(t)'
  <2>1. CASE t # s
    BY <1>1, <2>1, OthersStayGood DEF StacksInv, Quiet
  <2>2. QED
    BY <2>1
<1>3. Exclusive'
  <2>1. \A t \in Sessions : t # s => held'[t] = held[t] /\ pending'[t] = pending[t]
    BY DEF Frame
  <2>2. ASSUME NEW t \in Sessions, t # s
        PROVE  held'[s] \cap held'[t] = {} /\ pending'[s] \cap pending'[t] = {}
    <3>1. held[s] \cap held[t] = {} /\ pending[s] \cap pending[t] = {}
      BY <2>2 DEF StacksInv, Exclusive
    <3>2. /\ \A w \in held'[s] \ held[s] : w \notin held[t]
          /\ \A k \in pending'[s] \ pending[s] : k \notin pending[t]
      BY DEF Quiet, RowFree, ReferenceFree
    <3>3. QED
      BY <2>1, <2>2, <3>1, <3>2
  <2>3. ASSUME NEW t \in Sessions, NEW k \in pending'[t]
        PROVE  ~Committed(k)'
    <3>1. CASE k \in pending[t]
      BY <1>1, <3>1 DEF StacksInv, Exclusive
    <3>2. CASE k \notin pending[t]
      BY <1>1, <2>1, <2>3, <3>2 DEF Quiet, ReferenceFree
    <3>3. QED
      BY <3>1, <3>2
  <2>4. QED
    BY <2>1, <2>2, <2>3 DEF StacksInv, Exclusive
<1>4. \A w \in Wallets : balance'[w] >= 0 /\ balance'[w] % 2 = 0
  BY DEF StacksInv, Quiet
<1>5. QED
  BY <1>2, <1>3, <1>4 DEF StacksInv

-----------------------------------------------------------------------------
(* Postings.                                                               *)

\* The column's rounding is odd-symmetric, gives whole units, keeps whole units
\* and stays within a column whose bound is whole.
LEMMA Rounding ==
  ASSUME NEW x \in Nat
  PROVE  /\ Dotnet!RoundToColumn(x) \in Nat
         /\ Dotnet!RoundToColumn(x) % 2 = 0
         /\ x > 0 => Dotnet!RoundToColumn(x) > 0
         /\ x <= MaxBalance => Dotnet!RoundToColumn(x) <= MaxBalance
         /\ Dotnet!RoundToColumn(-x) = -Dotnet!RoundToColumn(x)
         /\ x % 2 = 0 => Dotnet!RoundToColumn(x) = x
<1>1. MaxBalance \in Nat /\ MaxBalance % 2 = 0
  BY StoreAssumption, StacksAssumption
<1>2. x % 2 \in {0, 1} /\ (-x) % 2 = x % 2
  OBVIOUS
<1>3. Dotnet!RoundToColumn(x) = x + (x % 2)
  BY DEF Dotnet!RoundToColumn
<1>4. Dotnet!RoundToColumn(-x) = -x - (x % 2)
  BY <1>2 DEF Dotnet!RoundToColumn
<1>5. (x + (x % 2)) % 2 = 0
  BY <1>2
<1>6. x <= MaxBalance => x + (x % 2) <= MaxBalance
  BY <1>1, <1>2
<1>7. QED
  BY <1>2, <1>3, <1>4, <1>5, <1>6

\* A whole balance can be added before or after rounding, and a whole amount
\* taken away.
LEMMA RoundingAdds ==
  ASSUME NEW b \in Nat, NEW x \in Nat, b % 2 = 0
  PROVE  /\ Dotnet!RoundToColumn(b + x) = b + Dotnet!RoundToColumn(x)
         /\ (x % 2 = 0 /\ x <= b) =>
              Dotnet!RoundToColumn(b - x) = b + Dotnet!RoundToColumn(-x)
<1>1. (b + x) % 2 = x % 2
  OBVIOUS
<1>2. (x % 2 = 0 /\ x <= b) => (b - x) % 2 = 0 /\ (-x) % 2 = 0
  OBVIOUS
<1>3. QED
  BY <1>1, <1>2 DEF Dotnet!RoundToColumn

LEMMA Asked ==
  ASSUME Shape, NEW s \in Sessions
  PROVE  /\ ReqOf(s).key \in Keys \cup {NoKey}
         /\ ReqOf(s).type \in Types
         /\ ReqOf(s).amount \in 0 .. MaxBalance
         /\ ReqOf(s).type # "TRANSFER" => ReqOf(s).from = ReqOf(s).to
         /\ s \in DjangoRequests => ReqOf(s).amount % 2 = 0
<1>1. CASE s \in DjangoRequests
  <2>1. ReqOf(s) \in DjangoPayloads
    BY <1>1 DEF Shape, ReqOf
  <2>2. QED
    BY <2>1, StacksAssumption DEF Django!Payload, Django!Types, Types
<1>2. CASE s \in DotnetRequests /\ s \notin DjangoRequests
  <2>1. ReqOf(s) \in DotnetPayloads
    BY <1>2 DEF Shape, ReqOf
  <2>2. QED
    BY <1>2, <2>1, StacksAssumption DEF Dotnet!Payload, Dotnet!Types, Types
<1>3. QED
  BY <1>1, <1>2, StacksAssumption

\* The leg of a row is a credit of the amount, or the debit of the source by a
\* request that had to have the funds.
LEMMA LegsOfPayload ==
  ASSUME NEW p, WellFormed(p), p.type \in Types, NEW w \in Rows(p)
  PROVE  \/ Dotnet!Legs(p)[w] = p.amount
         \/ /\ Dotnet!Legs(p)[w] = -p.amount
            /\ p.type # "DEPOSIT" /\ w = p.from
<1> USE DEF WellFormed, Rows, Dotnet!Legs
<1>1. CASE p.type = "DEPOSIT"
  BY <1>1 DEF Dotnet!DepositLegs
<1>2. CASE p.type = "WITHDRAWAL"
  BY <1>2 DEF Dotnet!WithdrawLegs
<1>3. CASE p.type = "TRANSFER"
  BY <1>3 DEF Dotnet!TransferLegs
<1>4. QED
  BY <1>1, <1>2, <1>3 DEF Types

\* What a session about to post writes to a row: whole units within the column,
\* and no negative balance; and if it has read the current balance and takes
\* away whole units only, the balance plus the amount.
LEMMA PostedNumbers ==
  ASSUME StacksInv, NEW s \in Sessions, PcOf(s) = "post",
         ~Dotnet!Overflows(ReqOf(s), SeenOf(s)), NEW w \in Rows(ReqOf(s))
  PROVE  LET p == ReqOf(s)
             amount == Dotnet!Amounts(p)[w]
             after == Dotnet!Result(p, SeenOf(s))[w]
         IN  /\ amount \in Column
             /\ after \in 0 .. MaxBalance
             /\ after % 2 = 0
             /\ (/\ ~Stale(s)
                 /\ p.type = "DEPOSIT" \/ p.amount % 2 = 0)
                  => after = balance[w] + amount
<1> DEFINE p == ReqOf(s)
           leg == Dotnet!Legs(p)[w]
           b == SeenOf(s)[w]
           amount == Dotnet!Amounts(p)[w]
           after == Dotnet!Result(p, SeenOf(s))[w]
           round(x) == Dotnet!RoundToColumn(x)
<1>1. Good(s) /\ WellFormed(p) /\ held[s] = Rows(p)
  BY DEF StacksInv, Good, Checked, Locking, InTxn
<1>2. p.type \in Types /\ p.amount \in 1 .. MaxBalance /\ MaxBalance \in Nat
  BY <1>1, Asked, StoreAssumption DEF StacksInv, WellFormed
<1>3. b \in 0 .. MaxBalance /\ b % 2 = 0 /\ (~Stale(s) => b = balance[w])
  BY <1>1 DEF Good, Reading
<1>4. \/ leg = p.amount
      \/ leg = -p.amount /\ p.type # "DEPOSIT" /\ w = p.from
  BY <1>1, <1>2, LegsOfPayload
<1>5. amount = round(leg) /\ after = round(b + leg) /\ ~(after > MaxBalance)
  BY DEF Dotnet!Amounts, Dotnet!Result, Dotnet!Overflows, Dotnet!Rows, Rows
<1>6. p.type # "DEPOSIT" /\ w = p.from => b >= p.amount
  BY <1>1 DEF Good, Funded
<1> HIDE DEF p, leg, b, amount, after, round
<1>7. CASE leg = p.amount
  <2>1. p.amount \in Nat /\ b \in Nat /\ b + p.amount \in Nat
    BY <1>2, <1>3
  <2>2. amount = round(p.amount) /\ amount \in 0 .. MaxBalance
    BY <1>2, <1>5, <1>7, <2>1, Rounding DEF round
  <2>3. after = round(b + p.amount)
    BY <1>5, <1>7
  <2>4. after \in Nat /\ after % 2 = 0
    BY <2>1, <2>3, Rounding DEF round
  <2>5. after = b + amount
    BY <1>3, <2>1, <2>2, <2>3, RoundingAdds DEF round
  <2>6. QED
    BY <1>2, <1>3, <1>5, <2>2, <2>4, <2>5 DEF Column, p, amount, after
<1>8. CASE leg = -p.amount /\ p.type # "DEPOSIT" /\ w = p.from
  <2>1. b - p.amount \in Nat /\ p.amount <= b /\ p.amount \in Nat /\ b \in Nat
    BY <1>2, <1>3, <1>6, <1>8
  <2>2. amount = -round(p.amount) /\ round(p.amount) \in 0 .. MaxBalance
    BY <1>2, <1>5, <1>8, Rounding DEF round
  <2>3. after = round(b - p.amount)
    BY <1>2, <1>3, <1>5, <1>8
  <2>4. after \in Nat /\ after % 2 = 0
    BY <2>1, <2>3, Rounding DEF round
  <2>5. p.amount % 2 = 0 => after = b + amount
    BY <1>3, <1>5, <1>8, <2>1, <2>3, RoundingAdds DEF round
  <2>6. QED
    BY <1>2, <1>3, <1>5, <1>8, <2>2, <2>4, <2>5 DEF Column, p, amount, after
<1>9. QED
  BY <1>4, <1>7, <1>8

\* What a posting commits, and that it fits its header.
LEMMA PostFits ==
  ASSUME StacksInv, NEW s \in Sessions, PcOf(s) = "post",
         NEW header, NEW amounts, NEW after, Written(s, header, amounts, after)
  PROVE  LET p == ReqOf(s)
         IN  /\ p.key \in Keys /\ ~Committed(p.key)
             /\ p.type \in Types /\ p.amount \in 1 .. MaxBalance
             /\ held[s] = Rows(p) /\ pending[s] = {p.key}
             /\ header \in Header
             /\ DOMAIN amounts = Rows(p) /\ Rows(p) \subseteq Wallets
             /\ LegsFit(header, amounts)
             /\ Commit(s, p.key, header, amounts, after)
             /\ StoreTypeOK /\ StoreTypeOK'
<1> DEFINE p == ReqOf(s)
<1>1. /\ WellFormed(p) /\ held[s] = Rows(p) /\ p.key \in Keys
      /\ pending[s] = {p.key} /\ ~Committed(p.key) /\ StoreTypeOK
  BY DEF StacksInv, Shape, Exclusive, Good, Checked, Locking, InTxn
<1>2. p.type \in Types /\ p.amount \in 1 .. MaxBalance /\ MaxBalance \in Nat
  BY <1>1, Asked, StoreAssumption DEF StacksInv, WellFormed
<1>3. /\ Dotnet!RoundToColumn(p.amount) \in Nat \ {0}
      /\ Dotnet!RoundToColumn(-p.amount) = -Dotnet!RoundToColumn(p.amount)
  BY <1>2, Rounding
<1>4. header = [type |-> p.type, amount |-> Dotnet!RoundToColumn(p.amount)]
  BY DEF Written, Dotnet!HeaderOf
<1>5. header \in Header
  BY <1>2, <1>3, <1>4 DEF Header
<1>6. /\ DOMAIN amounts = Rows(p) /\ Rows(p) \subseteq Wallets
      /\ Commit(s, p.key, header, amounts, after)
  BY <1>1 DEF Written, Dotnet!Amounts, Dotnet!Rows, Rows, WellFormed
<1>7. LegsFit(header, amounts)
  <2>1. amounts = [w \in {p.from, p.to} |->
                     Dotnet!RoundToColumn(Dotnet!Legs(p)[w])]
    BY DEF Written, Dotnet!Amounts, Dotnet!Rows
  <2> USE DEF LegsFit, Dotnet!Legs, WellFormed
  <2>2. CASE p.type = "DEPOSIT"
    BY <1>1, <1>4, <2>1, <2>2 DEF Dotnet!DepositLegs
  <2>3. CASE p.type = "WITHDRAWAL"
    BY <1>1, <1>3, <1>4, <2>1, <2>3 DEF Dotnet!WithdrawLegs
  <2>4. CASE p.type = "TRANSFER"
    BY <1>1, <1>3, <1>4, <2>1, <2>4 DEF Dotnet!TransferLegs
  <2>5. QED
    BY <1>2, <2>2, <2>3, <2>4 DEF Types
<1>8. \A w \in DOMAIN amounts : amounts[w] \in Column /\ after[w] \in Column
  BY <1>2, <1>6, PostedNumbers DEF Written, Column
<1>9. StoreTypeOK'
  <2> HIDE DEF p
  <2>1. QED
    BY <1>1, <1>5, <1>6, <1>8, CommitTypes
<1>10. QED
  BY <1>1, <1>2, <1>5, <1>6, <1>7, <1>9

LEMMA PostsKeeps ==
  ASSUME StacksInv, NEW s \in Sessions, Frame(s), Posts(s), Shape', Good(s)'
  PROVE  StacksInv'
<1> DEFINE p == ReqOf(s)
<1>1. PICK header, amounts, after : Written(s, header, amounts, after)
  BY DEF Posts
<1>2. /\ p.key \in Keys /\ ~Committed(p.key)
      /\ held[s] = Rows(p) /\ pending[s] = {p.key}
      /\ DOMAIN amounts = Rows(p) /\ header \in Header
      /\ Commit(s, p.key, header, amounts, after)
      /\ txn \in [Keys -> Header \cup {NoTxn}]
      /\ held \in [Sessions -> SUBSET Wallets]
      /\ pending \in [Sessions -> SUBSET Keys]
  BY <1>1, PostFits DEF Posts, StoreTypeOK
<1>3. /\ \A w \in Wallets : w \notin Rows(p) => balance'[w] = balance[w]
      /\ \A w \in Wallets : w \in Rows(p) => balance'[w] = after[w]
      /\ \A k \in Keys : txn'[k] = IF k = p.key THEN header ELSE txn[k]
      /\ held' = [held EXCEPT ![s] = {}] /\ pending' = [pending EXCEPT ![s] = {}]
  BY <1>2 DEF Commit, EndTransaction
<1>4. \A k \in Keys : Committed(k) => Committed(k)'
  BY <1>2, <1>3 DEF Committed
<1>5. ASSUME NEW t \in Sessions
      PROVE  Good(t)'
  <2>1. CASE t # s
    <3>1. held[t] \subseteq Wallets /\ held[t] \cap Rows(p) = {}
      BY <1>2, <2>1 DEF StacksInv, Exclusive
    <3>2. \A w \in held[t] : balance'[w] = balance[w]
      BY <1>3, <3>1
    <3>3. QED
      BY <1>4, <2>1, <3>2, OthersStayGood DEF StacksInv
  <2>2. QED
    BY <2>1
<1>6. Exclusive'
  <2>1. ASSUME NEW t \in Sessions, NEW k \in pending'[t]
        PROVE  ~Committed(k)'
    <3>1. t # s /\ k \in pending[t] /\ k \in Keys
      BY <1>2, <1>3, <2>1
    <3>2. k # p.key /\ ~Committed(k)
      BY <1>2, <3>1 DEF StacksInv, Exclusive
    <3>3. QED
      BY <1>3, <3>1, <3>2 DEF Committed
  <2>2. QED
    BY <1>2, <1>3, <2>1 DEF StacksInv, Exclusive
<1>7. ASSUME NEW w \in Wallets
      PROVE  balance'[w] >= 0 /\ balance'[w] % 2 = 0
  <2>1. CASE w \in Rows(p)
    <3>1. after[w] \in 0 .. MaxBalance /\ after[w] % 2 = 0
      BY <1>1, <2>1, PostedNumbers DEF Written, Posts
    <3>2. QED
      BY <1>3, <2>1, <3>1, StoreAssumption
  <2>2. CASE w \notin Rows(p)
    BY <1>3, <2>2 DEF StacksInv
  <2>3. QED
    BY <2>1, <2>2
<1>8. QED
  BY <1>5, <1>6, <1>7 DEF StacksInv

-----------------------------------------------------------------------------
(* The kinds of steps, for a session of either stack.                       *)

\* What a session holds of balances it has let go, or not yet read.
LEMMA NothingRead ==
  ASSUME NEW s \in Sessions, held'[s] = {},
         \/ s \in DotnetRequests /\ SeenOf(s)' = [w \in {} |-> 0]
         \/ s \in DjangoRequests /\ SeenOf(s)' = [w \in Wallets |-> 0]
  PROVE  Reading(s)'
<1>1. /\ DOMAIN SeenOf(s)' \subseteq Wallets
      /\ \A w \in DOMAIN SeenOf(s)' : SeenOf(s)'[w] = 0
      /\ s \in DotnetRequests => DOMAIN SeenOf(s)' = {}
      /\ s \in DjangoRequests => DOMAIN SeenOf(s)' = Wallets
  BY StacksAssumption
<1>2. QED
  BY <1>1, StoreAssumption DEF Reading

LEMMA SameRead ==
  ASSUME NEW s \in Sessions, Good(s), held'[s] = held[s], balance' = balance,
         SeenOf(s)' = SeenOf(s), ReqOf(s)' = ReqOf(s)
  PROVE  Reading(s)'
BY DEF Good, Reading, Stale

\* A step that leaves the tables, the locks and the references alone.
LEMMA LocalGood ==
  ASSUME NEW s \in Sessions, Good(s), Frame(s), Reading(s)',
         UNCHANGED <<balance, txn, ledger>>,
         held'[s] = held[s], pending'[s] = pending[s],
         PcOf(s) # "post",
         PcOf(s) \notin InTxn => PcOf(s)' \notin {"insert", "post"},
         PcOf(s) \in InTxn => PcOf(s)' = "insert" /\ held[s] = Rows(ReqOf(s)),
         PcOf(s)' \notin {"lookup", "done"} => ReqOf(s).key \in Keys,
         PcOf(s)' = "destination" => /\ ReqOf(s).type = "TRANSFER"
                                     /\ ReqOf(s).from \in Wallets
                                     /\ ReqOf(s).from # ReqOf(s).to,
         PcOf(s)' \in InTxn => WellFormed(ReqOf(s)),
         (PcOf(s)' = "insert" /\ ReqOf(s).type # "DEPOSIT")
           => SeenOf(s)'[ReqOf(s).from] >= ReqOf(s).amount,
         \/ /\ RespOf(s)' = RespOf(s)
            /\ PcOf(s) \in {"release", "done"} => PcOf(s)' \in {"release", "done"}
         \/ /\ RespOf(s) = "none" /\ PcOf(s)' \in {"release", "done"}
            /\ \/ RespOf(s)' \in {"rejected", "conflict"}
               \/ /\ RespOf(s)' = "hit"
                  /\ ReqOf(s).key \in Keys /\ Committed(ReqOf(s).key)
         \/ PcOf(s)' = "done" /\ RespOf(s)' = "error"
  PROVE  Good(s)' /\ Quiet(s)
<1>1. ReqOf(s)' = ReqOf(s) /\ (Committed(ReqOf(s).key)' <=> Committed(ReqOf(s).key))
  BY DEF Frame, Committed
<1>2. Locking(s)' /\ Checked(s)' /\ Funded(s)'
  BY <1>1 DEF Good, Locking, Checked, Funded, WellFormed, InTxn
<1>3. Answered(s)'
  BY <1>1 DEF Good, Answered
<1>4. pending'[s] = IF PcOf(s)' = "post" THEN {ReqOf(s)'.key} ELSE {}
  BY <1>1 DEF Good, InTxn
<1>5. QED
  BY <1>2, <1>3, <1>4 DEF Good, Quiet

\* The end of a transaction without a COMMIT.
LEMMA EndGood ==
  ASSUME NEW s \in Sessions, Good(s), Frame(s), Reading(s)',
         UNCHANGED <<balance, txn, ledger>>,
         held'[s] = {}, pending'[s] = {},
         PcOf(s)' \in {"release", "done"},
         PcOf(s)' = "release" => ReqOf(s).key \in Keys,
         \/ RespOf(s)' = "lost"
         \/ RespOf(s) = "none" /\ RespOf(s)' \in {"rejected", "error"}
  PROVE  Good(s)' /\ Quiet(s)
<1>1. ReqOf(s)' = ReqOf(s)
  BY DEF Frame
<1>2. Locking(s)' /\ Checked(s)' /\ Funded(s)' /\ Answered(s)'
  BY <1>1 DEF Good, Locking, Checked, Funded, Answered, InTxn
<1>3. QED
  BY <1>2 DEF Good, Quiet

\* SELECT ... FOR UPDATE gets a row.
LEMMA LockGood ==
  ASSUME NEW s \in Sessions, Good(s), Frame(s), Reading(s)',
         UNCHANGED <<balance, txn, ledger>>, pending'[s] = pending[s],
         PcOf(s) = "lock", PcOf(s)' = "lock", RespOf(s)' = RespOf(s),
         NEW w, RowFree(w), w \in Rows(ReqOf(s)), held'[s] = held[s] \cup {w}
  PROVE  Good(s)' /\ Quiet(s)
<1>1. ReqOf(s)' = ReqOf(s)
  BY DEF Frame
<1>2. Locking(s)' /\ Checked(s)' /\ Funded(s)' /\ Answered(s)'
  BY <1>1 DEF Good, Locking, Checked, Funded, Answered, WellFormed, InTxn
<1>3. QED
  BY <1>1, <1>2 DEF Good, Quiet

\* INSERT of the header.
LEMMA InsertGood ==
  ASSUME NEW s \in Sessions, Good(s), Frame(s), Reading(s)',
         UNCHANGED <<balance, txn, ledger>>, held'[s] = held[s],
         PcOf(s) = "insert", PcOf(s)' = "post", RespOf(s)' = RespOf(s),
         SeenOf(s)' = SeenOf(s), ReferenceFree(ReqOf(s).key),
         pending'[s] = pending[s] \cup {ReqOf(s).key}
  PROVE  Good(s)' /\ Quiet(s)
<1>1. ReqOf(s)' = ReqOf(s)
  BY DEF Frame
<1>2. Locking(s)' /\ Checked(s)' /\ Funded(s)' /\ Answered(s)'
  BY <1>1 DEF Good, Locking, Checked, Funded, Answered, WellFormed, InTxn
<1>3. QED
  BY <1>1, <1>2 DEF Good, Quiet

\* The COMMIT.
LEMMA PostGood ==
  ASSUME StacksInv, NEW s \in Sessions, Frame(s), Posts(s), Reading(s)',
         held'[s] = {}, pending'[s] = {}
  PROVE  Good(s)'
<1>1. ReqOf(s)' = ReqOf(s) /\ PcOf(s)' = "release" /\ PcOf(s) = "post"
  BY DEF Frame, Posts
<1>2. PICK header, amounts, after : Written(s, header, amounts, after)
  BY DEF Posts
<1>3. /\ ReqOf(s).key \in Keys /\ header \in Header
      /\ txn \in [Keys -> Header \cup {NoTxn}]
      /\ Commit(s, ReqOf(s).key, header, amounts, after)
  BY <1>1, <1>2, PostFits DEF StoreTypeOK
<1>4. Committed(ReqOf(s).key)'
  BY <1>1, <1>3, StoreAssumption DEF Commit, Committed
<1>5. Locking(s)' /\ Checked(s)' /\ Funded(s)' /\ Answered(s)'
  BY <1>1, <1>3, <1>4 DEF Locking, Checked, Funded, Answered, InTxn
<1>6. QED
  BY <1>1, <1>5 DEF Good

-----------------------------------------------------------------------------
(* The steps of a Django request.                                           *)

LEMMA DjangoFrame ==
  ASSUME Shape, NEW r \in DjangoRequests, UNCHANGED netVars,
         djReq' = djReq,
         DOMAIN held' = DOMAIN held, DOMAIN pending' = DOMAIN pending,
         DOMAIN djPc' = DOMAIN djPc, DOMAIN djResp' = DOMAIN djResp,
         DOMAIN djLoaded' = DOMAIN djLoaded,
         \A t \in Sessions \ {r} : held'[t] = held[t] /\ pending'[t] = pending[t],
         \A q \in DjangoRequests \ {r} : /\ djPc'[q] = djPc[q]
                                         /\ djResp'[q] = djResp[q]
                                         /\ djLoaded'[q] = djLoaded[q]
  PROVE  /\ Frame(r)
         /\ StoreTypeOK' => Shape'
         /\ PcOf(r) = djPc[r] /\ PcOf(r)' = djPc'[r]
         /\ RespOf(r) = djResp[r] /\ RespOf(r)' = djResp'[r]
         /\ SeenOf(r) = djLoaded[r] /\ SeenOf(r)' = djLoaded'[r]
         /\ ReqOf(r) = djReq[r] /\ r \in Sessions
BY StacksAssumption DEF Frame, Shape, PcOf, RespOf, SeenOf, ReqOf, netVars

\* What a step of r keeps of the invariant before anything is said of others.
Sound(r) == Frame(r) /\ Shape' /\ Good(r)' /\ (Quiet(r) \/ Posts(r))

LEMMA DjangoLocal ==
  ASSUME StacksInv, NEW r \in DjangoRequests, UNCHANGED netVars,
         UNCHANGED <<balance, txn, ledger, held, pending, djReq, djLoaded>>,
         NEW step, djPc' = [djPc EXCEPT ![r] = step],
         djPc[r] # "post", step # "destination",
         djPc[r] \notin InTxn => step \notin {"insert", "post"},
         djPc[r] \in InTxn => step = "insert" /\ held[r] = Rows(djReq[r]),
         step \notin {"lookup", "done"} => djReq[r].key \in Keys,
         step \in InTxn => WellFormed(djReq[r]),
         (step = "insert" /\ djReq[r].type # "DEPOSIT")
           => djLoaded[r][djReq[r].from] >= djReq[r].amount,
         \/ /\ djResp' = djResp
            /\ djPc[r] \in {"release", "done"} => step \in {"release", "done"}
         \/ /\ step \in {"release", "done"} /\ djPc[r] \notin {"release", "done"}
            /\ \/ djResp' = [djResp EXCEPT ![r] = "rejected"]
               \/ djResp' = [djResp EXCEPT ![r] = "conflict"]
               \/ /\ djResp' = [djResp EXCEPT ![r] = "hit"]
                  /\ djReq[r].key \in Keys /\ Committed(djReq[r].key)
         \/ step = "done" /\ djResp' = [djResp EXCEPT ![r] = "error"]
  PROVE  Sound(r)
<1>1. StoreTypeOK'
  BY DEF StacksInv, Shape, StoreTypeOK
<1>2. /\ djPc'[r] = step
      /\ DOMAIN djPc' = DOMAIN djPc /\ DOMAIN djResp' = DOMAIN djResp
      /\ \A q \in DjangoRequests \ {r} : /\ djPc'[q] = djPc[q]
                                         /\ djResp'[q] = djResp[q]
  BY DEF StacksInv, Shape
<1> DEFINE answer == djResp'[r]
<1>7. \/ /\ answer = djResp[r]
         /\ djPc[r] \in {"release", "done"} => step \in {"release", "done"}
      \/ /\ step \in {"release", "done"} /\ djPc[r] \notin {"release", "done"}
         /\ \/ answer \in {"rejected", "conflict"}
            \/ /\ answer = "hit"
               /\ djReq[r].key \in Keys /\ Committed(djReq[r].key)
      \/ step = "done" /\ answer = "error"
  BY DEF StacksInv, Shape
<1> HIDE DEF answer
<1>3. /\ Frame(r) /\ Shape'
      /\ PcOf(r) = djPc[r] /\ PcOf(r)' = step
      /\ RespOf(r) = djResp[r] /\ RespOf(r)' = answer
      /\ SeenOf(r) = djLoaded[r] /\ SeenOf(r)' = djLoaded[r]
      /\ ReqOf(r) = djReq[r] /\ r \in Sessions
  BY <1>1, <1>2, DjangoFrame DEF StacksInv, answer
<1>4. Good(r) /\ Reading(r)'
  BY <1>3, SameRead DEF StacksInv, Frame
<1>5. RespOf(r) = "none" \/ djPc[r] \in {"release", "done"}
  BY <1>3, <1>4 DEF Good, Answered
<1>6. Good(r)' /\ Quiet(r)
  BY <1>3, <1>4, <1>5, <1>7, LocalGood
<1>8. QED
  BY <1>3, <1>6 DEF Sound

LEMMA DjangoEnd ==
  ASSUME StacksInv, NEW r \in DjangoRequests, UNCHANGED netVars,
         UNCHANGED <<balance, txn, ledger, djReq>>,
         held' = [held EXCEPT ![r] = {}], pending' = [pending EXCEPT ![r] = {}],
         djLoaded' = [djLoaded EXCEPT ![r] = [w \in Wallets |-> 0]],
         NEW step \in {"release", "done"}, djPc' = [djPc EXCEPT ![r] = step],
         NEW answer, djResp' = [djResp EXCEPT ![r] = answer],
         step = "release" => djReq[r].key \in Keys,
         \/ answer = "lost"
         \/ djPc[r] \notin {"release", "done"} /\ answer \in {"rejected", "error"}
  PROVE  Sound(r)
<1>1. StoreTypeOK' /\ held'[r] = {} /\ pending'[r] = {} /\ r \in Sessions
  BY StacksAssumption DEF StacksInv, Shape, StoreTypeOK
<1>2. /\ djPc'[r] = step /\ djResp'[r] = answer
      /\ djLoaded'[r] = [w \in Wallets |-> 0]
      /\ DOMAIN djPc' = DOMAIN djPc /\ DOMAIN djResp' = DOMAIN djResp
      /\ DOMAIN djLoaded' = DOMAIN djLoaded
      /\ DOMAIN held' = DOMAIN held /\ DOMAIN pending' = DOMAIN pending
      /\ \A q \in DjangoRequests \ {r} : /\ djPc'[q] = djPc[q]
                                         /\ djResp'[q] = djResp[q]
                                         /\ djLoaded'[q] = djLoaded[q]
      /\ \A t \in Sessions \ {r} : held'[t] = held[t] /\ pending'[t] = pending[t]
  BY DEF StacksInv, Shape, StoreTypeOK
<1>3. /\ Frame(r) /\ Shape'
      /\ PcOf(r) = djPc[r] /\ PcOf(r)' = step
      /\ RespOf(r) = djResp[r] /\ RespOf(r)' = answer
      /\ SeenOf(r)' = [w \in Wallets |-> 0]
      /\ ReqOf(r) = djReq[r]
  BY <1>1, <1>2, DjangoFrame DEF StacksInv
<1>4. Good(r) /\ Reading(r)'
  BY <1>1, <1>3, NothingRead DEF StacksInv
<1>5. RespOf(r) = "none" \/ djPc[r] \in {"release", "done"}
  BY <1>3, <1>4 DEF Good, Answered
<1>6. Good(r)' /\ Quiet(r)
  BY <1>1, <1>3, <1>4, <1>5, EndGood
<1>7. QED
  BY <1>3, <1>6 DEF Sound

LEMMA DjangoStatements ==
  ASSUME StacksInv, NEW r \in DjangoRequests, UNCHANGED netVars,
         \/ \E w \in Wallets : Django!LockRow(r, w)
         \/ Django!InsertHeader(r)
  PROVE  Sound(r)
<1>1. /\ r \in Sessions /\ Good(r) /\ Shape /\ StoreTypeOK
      /\ PcOf(r) = djPc[r] /\ SeenOf(r) = djLoaded[r] /\ ReqOf(r) = djReq[r]
  BY StacksAssumption DEF StacksInv, Shape, PcOf, SeenOf, ReqOf
<1>2. ASSUME NEW w \in Wallets, Django!LockRow(r, w)
      PROVE  Sound(r)
  <2>1. /\ w \in Rows(djReq[r]) /\ RowFree(w) /\ djPc[r] = "lock"
        /\ held' = [held EXCEPT ![r] = @ \cup {w}]
        /\ djLoaded' = [djLoaded EXCEPT ![r][w] = balance[w]]
        /\ UNCHANGED <<balance, txn, ledger, pending, djReq, djPc, djResp>>
    BY <1>2 DEF Django!LockRow, Django!NextRow, Django!Missing, Django!Rows, Rows,
                Django!TakeRow, Django!RowFree, RowFree
  <2>2. /\ held'[r] = held[r] \cup {w} /\ StoreTypeOK'
        /\ DOMAIN held' = DOMAIN held /\ DOMAIN djLoaded' = DOMAIN djLoaded
        /\ \A t \in Sessions \ {r} : held'[t] = held[t]
        /\ \A q \in DjangoRequests \ {r} : djLoaded'[q] = djLoaded[q]
    BY <1>1, <2>1 DEF StoreTypeOK, Shape
  <2>3. /\ Frame(r) /\ Shape'
        /\ PcOf(r)' = djPc[r] /\ RespOf(r)' = RespOf(r)
        /\ SeenOf(r)' = djLoaded'[r]
    BY <1>1, <2>1, <2>2, DjangoFrame
  <2>4. /\ DOMAIN SeenOf(r)' = DOMAIN SeenOf(r)
        /\ \A v \in DOMAIN SeenOf(r) :
             SeenOf(r)'[v] = IF v = w THEN balance[w] ELSE SeenOf(r)[v]
    BY <1>1, <2>1, <2>3 DEF Shape
  <2>5. Reading(r)'
    <3>1. balance[w] \in 0 .. MaxBalance /\ balance[w] % 2 = 0
      BY <1>1, StoreAssumption DEF StacksInv, StoreTypeOK, Column
    <3>2. r \notin DotnetRequests
      BY StacksAssumption
    <3>3. w \in DOMAIN SeenOf(r)
      BY <1>1 DEF Good, Reading
    <3>4. QED
      BY <1>1, <2>1, <2>2, <2>4, <3>1, <3>2, <3>3 DEF Good, Reading, Stale
  <2>6. Good(r)' /\ Quiet(r)
    BY <1>1, <2>1, <2>2, <2>3, <2>5, LockGood
  <2>7. QED
    BY <2>3, <2>6 DEF Sound
<1>3. CASE Django!InsertHeader(r)
  <2>1. /\ djPc[r] = "insert" /\ ReferenceFree(djReq[r].key)
        /\ djPc' = [djPc EXCEPT ![r] = "post"]
        /\ pending' = [pending EXCEPT ![r] = @ \cup {djReq[r].key}]
        /\ UNCHANGED <<balance, txn, ledger, held, djReq, djResp, djLoaded>>
    BY <1>3 DEF Django!InsertHeader, Django!InsertReference, Django!Goto,
                Django!ReferenceFree, ReferenceFree, Django!Committed, Committed
  <2>2. djReq[r].key \in Keys
    BY <1>1, <2>1 DEF Good, Checked
  <2>3. /\ pending'[r] = pending[r] \cup {djReq[r].key} /\ StoreTypeOK'
        /\ djPc'[r] = "post"
        /\ DOMAIN pending' = DOMAIN pending /\ DOMAIN djPc' = DOMAIN djPc
        /\ \A t \in Sessions \ {r} : pending'[t] = pending[t]
        /\ \A q \in DjangoRequests \ {r} : djPc'[q] = djPc[q]
    BY <1>1, <2>1, <2>2 DEF StoreTypeOK, Shape
  <2>4. /\ Frame(r) /\ Shape'
        /\ PcOf(r)' = "post" /\ RespOf(r)' = RespOf(r) /\ SeenOf(r)' = SeenOf(r)
    BY <1>1, <2>1, <2>3, DjangoFrame
  <2>5. Reading(r)'
    BY <1>1, <2>1, <2>4, SameRead DEF Frame
  <2>6. Good(r)' /\ Quiet(r)
    BY <1>1, <2>1, <2>3, <2>4, <2>5, InsertGood
  <2>7. QED
    BY <2>4, <2>6 DEF Sound
<1>4. QED
  BY <1>2, <1>3

LEMMA WholeStays ==
  ASSUME NEW x \in Int, x % 2 = 0
  PROVE  Dotnet!RoundToColumn(x) = x
BY DEF Dotnet!RoundToColumn

\* In whole units the two APIs post the same.
LEMMA SamePosting ==
  ASSUME NEW p, WellFormed(p), p.type \in Types,
         p.amount \in Int, p.amount % 2 = 0,
         NEW seen, \A w \in Rows(p) : seen[w] \in Int /\ seen[w] % 2 = 0
  PROVE  /\ Dotnet!HeaderOf(p) = [type |-> p.type, amount |-> p.amount]
         /\ Dotnet!Amounts(p) = Django!Legs(p)
         /\ Dotnet!Result(p, seen) = Django!Result(Django!Legs(p), seen)
         /\ DOMAIN Django!Legs(p) = Rows(p)
<1> DEFINE legs == Django!Legs(p)
<1>1. legs = [w \in Rows(p) |-> Dotnet!Legs(p)[w]]
  <2> USE DEF WellFormed, Rows, Dotnet!Legs, Django!Legs
  <2>1. CASE p.type = "DEPOSIT"
    BY <2>1 DEF Dotnet!DepositLegs, Django!DepositLegs
  <2>2. CASE p.type = "WITHDRAWAL"
    BY <2>2 DEF Dotnet!WithdrawLegs, Django!WithdrawLegs
  <2>3. CASE p.type = "TRANSFER"
    BY <2>3 DEF Dotnet!TransferLegs, Django!TransferLegs
  <2>4. QED
    BY <2>1, <2>2, <2>3 DEF Types
<1>2. ASSUME NEW w \in Rows(p)
      PROVE  /\ legs[w] = Dotnet!Legs(p)[w]
             /\ Dotnet!RoundToColumn(legs[w]) = legs[w]
             /\ Dotnet!RoundToColumn(seen[w] + legs[w]) = seen[w] + legs[w]
  <2>1. legs[w] = Dotnet!Legs(p)[w]
    BY <1>1
  <2>2. legs[w] = p.amount \/ legs[w] = -p.amount
    BY <2>1, LegsOfPayload
  <2> HIDE DEF legs
  <2>3. /\ legs[w] \in Int /\ legs[w] % 2 = 0
        /\ seen[w] + legs[w] \in Int /\ (seen[w] + legs[w]) % 2 = 0
    BY <2>2
  <2>4. QED
    BY <2>1, <2>3, WholeStays
<1>3. DOMAIN legs = Rows(p)
  BY <1>1
<1>4. Dotnet!Amounts(p) = [w \in Rows(p) |-> legs[w]]
  BY <1>2 DEF Dotnet!Amounts, Dotnet!Rows, Rows
<1>5. Dotnet!Result(p, seen) = [w \in Rows(p) |-> seen[w] + legs[w]]
  BY <1>2 DEF Dotnet!Result, Dotnet!Rows, Rows
<1>6. Django!Result(legs, seen) = [w \in Rows(p) |-> seen[w] + legs[w]]
  BY <1>3 DEF Django!Result
<1>7. Dotnet!Amounts(p) = legs
  BY <1>1, <1>4
<1>8. Dotnet!HeaderOf(p) = [type |-> p.type, amount |-> p.amount]
  BY WholeStays DEF Dotnet!HeaderOf
<1>9. QED
  BY <1>3, <1>5, <1>6, <1>7, <1>8

LEMMA DjangoPost ==
  ASSUME StacksInv, NEW r \in DjangoRequests, UNCHANGED netVars, Django!Post(r)
  PROVE  Sound(r)
<1> PICK answer \in {"created", "error"} : Django!Answer(r, "release", answer)
  BY DEF Django!Post
<1> DEFINE p == djReq[r]
           legs == Django!Legs(p)
           after == Django!Result(legs, djLoaded[r])
           header == [type |-> p.type, amount |-> p.amount]
<1>1. /\ r \in Sessions /\ Good(r) /\ Shape /\ StoreTypeOK
      /\ PcOf(r) = djPc[r] /\ SeenOf(r) = djLoaded[r] /\ ReqOf(r) = p
  BY StacksAssumption DEF StacksInv, Shape, PcOf, SeenOf, ReqOf
<1>2. /\ djPc[r] = "post"
      /\ Commit(r, p.key, header, legs, after)
      /\ djPc' = [djPc EXCEPT ![r] = "release"]
      /\ djResp' = [djResp EXCEPT ![r] = answer]
      /\ djLoaded' = [djLoaded EXCEPT ![r] = [w \in Wallets |-> 0]]
      /\ djReq' = djReq
  BY DEF Django!Post, Django!Commit, Commit, Django!EndTransaction,
         EndTransaction, Django!Answer, Django!Goto, Django!Forget, Django!Unread
<1>3. ~Django!Overflows(legs, djLoaded[r])
  BY DEF Django!Post
<1>4. /\ WellFormed(p) /\ p.type \in Types /\ p.amount \in Int /\ p.amount % 2 = 0
      /\ held[r] = Rows(p)
      /\ \A w \in Rows(p) : /\ djLoaded[r][w] \in Int
                            /\ djLoaded[r][w] % 2 = 0
  <2>1. WellFormed(p) /\ held[r] = Rows(p) /\ Rows(p) \subseteq DOMAIN djLoaded[r]
    BY <1>1, <1>2 DEF Good, Checked, Locking, Reading, InTxn
  <2>2. p.type \in Types /\ p.amount \in Int /\ p.amount % 2 = 0
    BY <1>1, Asked, StoreAssumption
  <2>3. QED
    BY <1>1, <2>1, <2>2, StoreAssumption DEF Good, Reading
<1>5. /\ header = Dotnet!HeaderOf(p) /\ legs = Dotnet!Amounts(p)
      /\ after = Dotnet!Result(p, djLoaded[r]) /\ DOMAIN legs = Rows(p)
  BY <1>4, SamePosting
<1>6. ~Dotnet!Overflows(p, djLoaded[r])
  BY <1>3, <1>5 DEF Django!Overflows, Dotnet!Overflows, Dotnet!Rows, Rows
<1> HIDE DEF p, legs, after, header
<1>7. Written(r, header, legs, after)
  BY <1>1, <1>2, <1>5, <1>6 DEF Written
<1>8. StoreTypeOK'
  BY <1>1, <1>2, <1>7, PostFits
<1>9. held' = [held EXCEPT ![r] = {}] /\ pending' = [pending EXCEPT ![r] = {}]
  BY <1>2 DEF Commit, EndTransaction
<1>10. /\ held'[r] = {} /\ pending'[r] = {}
       /\ djPc'[r] = "release" /\ djResp'[r] = answer
       /\ djLoaded'[r] = [w \in Wallets |-> 0]
       /\ DOMAIN djPc' = DOMAIN djPc /\ DOMAIN djResp' = DOMAIN djResp
       /\ DOMAIN djLoaded' = DOMAIN djLoaded
       /\ DOMAIN held' = DOMAIN held /\ DOMAIN pending' = DOMAIN pending
       /\ \A q \in DjangoRequests \ {r} : /\ djPc'[q] = djPc[q]
                                          /\ djResp'[q] = djResp[q]
                                          /\ djLoaded'[q] = djLoaded[q]
       /\ \A t \in Sessions \ {r} : held'[t] = held[t] /\ pending'[t] = pending[t]
  BY <1>1, <1>2, <1>9 DEF Shape, StoreTypeOK
<1>11. /\ Frame(r) /\ Shape'
       /\ PcOf(r)' = "release" /\ RespOf(r)' = answer
       /\ SeenOf(r)' = [w \in Wallets |-> 0]
  BY <1>1, <1>2, <1>8, <1>10, DjangoFrame
<1>12. Posts(r) /\ Reading(r)'
  BY <1>1, <1>2, <1>7, <1>10, <1>11, NothingRead DEF Posts
<1>13. Good(r)'
  BY <1>1, <1>10, <1>11, <1>12, PostGood
<1>14. QED
  BY <1>11, <1>12, <1>13 DEF Sound

LEMMA DjangoSound ==
  ASSUME StacksInv, NEW r \in DjangoRequests, UNCHANGED netVars,
         Django!Step(r) \/ Django!Fail(r)
  PROVE  Sound(r)
<1> USE DEF Django!storeVars, Django!Goto, Django!Answer, Django!Rollback,
            Django!EndTransaction, Django!Forget, Django!Unread
<1>1. /\ r \in Sessions /\ Good(r) /\ Shape
      /\ PcOf(r) = djPc[r] /\ SeenOf(r) = djLoaded[r] /\ ReqOf(r) = djReq[r]
  BY StacksAssumption DEF StacksInv, PcOf, SeenOf, ReqOf
<1>2. /\ djPc[r] \notin {"lookup", "done"} => djReq[r].key \in Keys
      /\ djPc[r] \in InTxn => WellFormed(djReq[r])
  BY <1>1 DEF Good, Checked
<1>3. CASE \/ Django!MissingKey(r) \/ Django!Hit(r) \/ Django!Conflict(r)
           \/ Django!FailValidation(r)
  BY <1>2, <1>3, DjangoLocal
     DEF InTxn, Django!MissingKey, Django!Hit, Django!Conflict,
         Django!FailValidation, Django!Committed, Committed
<1>4. CASE \/ Django!Miss(r) \/ Django!AcquireLock(r) \/ Django!Release(r)
           \/ Django!FailBefore(r) \/ Django!FailRelease(r)
  BY <1>2, <1>4, DjangoLocal
     DEF InTxn, Django!Miss, Django!AcquireLock, Django!Release,
         Django!FailBefore, Django!FailRelease
<1>5. CASE Django!PassValidation(r)
  <2>1. djReq[r].amount > 0 /\ djReq[r].from \in Wallets
    BY <1>5 DEF Django!PassValidation, Django!Valid, Django!ValidTransfer,
                Django!OwnWallet
  <2>2. djReq[r].type # "TRANSFER" => djReq[r].from = djReq[r].to
    BY <1>1, Asked
  <2>3. WellFormed(djReq[r])
    BY <1>5, <2>1, <2>2
       DEF Django!PassValidation, Django!Valid, Django!ValidTransfer, WellFormed
  <2>4. /\ djPc[r] = "validate" /\ djReq[r].key \in Keys
        /\ djPc' = [djPc EXCEPT ![r] = "lock"] /\ djResp' = djResp
        /\ UNCHANGED <<balance, txn, ledger, held, pending, djReq, djLoaded>>
    BY <1>2, <1>5 DEF Django!PassValidation
  <2>5. QED
    BY <2>3, <2>4, DjangoLocal DEF InTxn
<1>6. CASE Django!Accept(r)
  <2>1. /\ djPc[r] = "lock" /\ held[r] = Rows(djReq[r])
        /\ djReq[r].type # "DEPOSIT" =>
             ~(djLoaded[r][djReq[r].from] < djReq[r].amount)
    BY <1>6 DEF Django!Accept, Django!Refused, Django!Rows, Rows
  <2>2. djLoaded[r][djReq[r].from] \in Int /\ djReq[r].amount \in Int
    <3>1. djReq[r].from \in DOMAIN djLoaded[r]
      BY <1>1, <2>1 DEF Good, Reading, Rows
    <3>2. QED
      BY <1>1, <3>1, Asked, StoreAssumption DEF Good, Reading
  <2>3. djReq[r].type # "DEPOSIT" =>
          djLoaded[r][djReq[r].from] >= djReq[r].amount
    BY <2>1, <2>2
  <2>4. /\ WellFormed(djReq[r]) /\ djReq[r].key \in Keys
        /\ djPc' = [djPc EXCEPT ![r] = "insert"] /\ djResp' = djResp
        /\ UNCHANGED <<balance, txn, ledger, held, pending, djReq, djLoaded>>
    BY <1>2, <1>6, <2>1 DEF InTxn, Django!Accept
  <2>5. QED
    BY <2>1, <2>3, <2>4, DjangoLocal DEF InTxn
<1>7. CASE \/ Django!Refuse(r) \/ Django!DuplicateHeader(r)
           \/ Django!Overflow(r) \/ Django!FailInside(r) \/ Django!Crash(r)
  BY <1>2, <1>7, DjangoEnd
     DEF Django!Refuse, Django!DuplicateHeader, Django!Overflow,
         Django!FailInside, Django!Crash
<1>8. QED
  BY <1>3, <1>4, <1>5, <1>6, <1>7, DjangoStatements, DjangoPost
     DEF Django!Step, Django!Fail

-----------------------------------------------------------------------------
(* The steps of a .NET request.                                             *)

LEMMA DotnetFrame ==
  ASSUME Shape, NEW r \in DotnetRequests, UNCHANGED djVars,
         netReq' = netReq,
         DOMAIN held' = DOMAIN held, DOMAIN pending' = DOMAIN pending,
         DOMAIN netPc' = DOMAIN netPc, DOMAIN netResp' = DOMAIN netResp,
         DOMAIN netTracked' = DOMAIN netTracked,
         \A t \in Sessions \ {r} : held'[t] = held[t] /\ pending'[t] = pending[t],
         \A q \in DotnetRequests \ {r} : /\ netPc'[q] = netPc[q]
                                         /\ netResp'[q] = netResp[q]
                                         /\ netTracked'[q] = netTracked[q]
  PROVE  /\ Frame(r)
         /\ StoreTypeOK' => Shape'
         /\ PcOf(r) = netPc[r] /\ PcOf(r)' = netPc'[r]
         /\ RespOf(r) = netResp[r] /\ RespOf(r)' = netResp'[r]
         /\ SeenOf(r) = netTracked[r] /\ SeenOf(r)' = netTracked'[r]
         /\ ReqOf(r) = netReq[r] /\ r \in Sessions /\ r \notin DjangoRequests
BY StacksAssumption DEF Frame, Shape, PcOf, RespOf, SeenOf, ReqOf, djVars

\* A query hands out what the context tracks, else what the row holds.
LEMMA TrackReads ==
  ASSUME StacksInv, NEW r \in DotnetRequests, NEW w \in Wallets,
         Dotnet!Track(r, w), balance' = balance, netReq' = netReq,
         \/ Stale(r) /\ held'[r] = held[r]
         \/ held'[r] = held[r] \cup {w}
  PROVE  /\ DOMAIN netTracked' = DOMAIN netTracked
         /\ \A q \in DotnetRequests \ {r} : netTracked'[q] = netTracked[q]
         /\ Reading(r)'
<1>1. /\ r \in Sessions /\ r \notin DjangoRequests /\ Good(r) /\ Shape
      /\ SeenOf(r) = netTracked[r] /\ SeenOf(r)' = netTracked'[r]
      /\ ReqOf(r)' = ReqOf(r)
  BY StacksAssumption DEF StacksInv, SeenOf, ReqOf
<1>2. /\ DOMAIN netTracked' = DOMAIN netTracked
      /\ \A q \in DotnetRequests \ {r} : netTracked'[q] = netTracked[q]
      /\ DOMAIN netTracked'[r] = DOMAIN netTracked[r] \cup {w}
      /\ \A v \in DOMAIN netTracked[r] \cup {w} :
           netTracked'[r][v] = IF v \in DOMAIN netTracked[r] THEN netTracked[r][v]
                                                             ELSE balance[v]
  BY <1>1 DEF Shape, Dotnet!Track
<1>3. balance[w] \in 0 .. MaxBalance /\ balance[w] % 2 = 0
  BY <1>1, StoreAssumption DEF StacksInv, Shape, StoreTypeOK, Column
<1>4. Stale(r)' <=> Stale(r)
  BY <1>1 DEF Stale
<1>5. Reading(r)
  BY <1>1 DEF Good
<1>6. Reading(r)'
  BY <1>1, <1>2, <1>3, <1>4, <1>5 DEF Reading
<1>7. QED
  BY <1>2, <1>6

LEMMA DotnetLocal ==
  ASSUME StacksInv, NEW r \in DotnetRequests, UNCHANGED djVars,
         UNCHANGED <<balance, txn, ledger, held, pending, netReq>>,
         DOMAIN netTracked' = DOMAIN netTracked,
         \A q \in DotnetRequests \ {r} : netTracked'[q] = netTracked[q],
         Reading(r)',
         NEW step, netPc' = [netPc EXCEPT ![r] = step],
         netPc[r] # "post",
         netPc[r] \notin InTxn => step \notin {"insert", "post"},
         netPc[r] \in InTxn => step = "insert" /\ held[r] = Rows(netReq[r]),
         step \notin {"lookup", "done"} => netReq[r].key \in Keys,
         step = "destination" => /\ netReq[r].type = "TRANSFER"
                                 /\ netReq[r].from \in Wallets
                                 /\ netReq[r].from # netReq[r].to,
         step \in InTxn => WellFormed(netReq[r]),
         (step = "insert" /\ netReq[r].type # "DEPOSIT")
           => netTracked'[r][netReq[r].from] >= netReq[r].amount,
         \/ /\ netResp' = netResp
            /\ netPc[r] \in {"release", "done"} => step \in {"release", "done"}
         \/ /\ step \in {"release", "done"} /\ netPc[r] \notin {"release", "done"}
            /\ \/ netResp' = [netResp EXCEPT ![r] = "rejected"]
               \/ netResp' = [netResp EXCEPT ![r] = "conflict"]
               \/ /\ netResp' = [netResp EXCEPT ![r] = "hit"]
                  /\ netReq[r].key \in Keys /\ Committed(netReq[r].key)
         \/ step = "done" /\ netResp' = [netResp EXCEPT ![r] = "error"]
  PROVE  Sound(r)
<1> DEFINE answer == netResp'[r]
<1>1. StoreTypeOK'
  BY DEF StacksInv, Shape, StoreTypeOK
<1>2. /\ netPc'[r] = step
      /\ DOMAIN netPc' = DOMAIN netPc /\ DOMAIN netResp' = DOMAIN netResp
      /\ \A q \in DotnetRequests \ {r} : /\ netPc'[q] = netPc[q]
                                         /\ netResp'[q] = netResp[q]
  BY DEF StacksInv, Shape
<1>3. \/ /\ answer = netResp[r]
         /\ netPc[r] \in {"release", "done"} => step \in {"release", "done"}
      \/ /\ step \in {"release", "done"} /\ netPc[r] \notin {"release", "done"}
         /\ \/ answer \in {"rejected", "conflict"}
            \/ /\ answer = "hit"
               /\ netReq[r].key \in Keys /\ Committed(netReq[r].key)
      \/ step = "done" /\ answer = "error"
  BY DEF StacksInv, Shape
<1> HIDE DEF answer
<1>4. /\ Frame(r) /\ Shape'
      /\ PcOf(r) = netPc[r] /\ PcOf(r)' = step
      /\ RespOf(r) = netResp[r] /\ RespOf(r)' = answer
      /\ SeenOf(r) = netTracked[r] /\ SeenOf(r)' = netTracked'[r]
      /\ ReqOf(r) = netReq[r] /\ r \in Sessions
  BY <1>1, <1>2, DotnetFrame DEF StacksInv, answer
<1>5. Good(r)
  BY <1>4 DEF StacksInv
<1>6. RespOf(r) = "none" \/ netPc[r] \in {"release", "done"}
  BY <1>4, <1>5 DEF Good, Answered
<1>7. Good(r)' /\ Quiet(r)
  BY <1>3, <1>4, <1>5, <1>6, LocalGood
<1>8. QED
  BY <1>4, <1>7 DEF Sound

LEMMA DotnetEnd ==
  ASSUME StacksInv, NEW r \in DotnetRequests, UNCHANGED djVars,
         UNCHANGED <<balance, txn, ledger, netReq>>,
         held' = [held EXCEPT ![r] = {}], pending' = [pending EXCEPT ![r] = {}],
         netTracked' = [netTracked EXCEPT ![r] = [w \in {} |-> 0]],
         NEW step \in {"release", "done"}, netPc' = [netPc EXCEPT ![r] = step],
         NEW answer, netResp' = [netResp EXCEPT ![r] = answer],
         step = "release" => netReq[r].key \in Keys,
         \/ answer = "lost"
         \/ netPc[r] \notin {"release", "done"} /\ answer \in {"rejected", "error"}
  PROVE  Sound(r)
<1>1. StoreTypeOK' /\ held'[r] = {} /\ pending'[r] = {} /\ r \in Sessions
  BY StacksAssumption DEF StacksInv, Shape, StoreTypeOK
<1>2. /\ netPc'[r] = step /\ netResp'[r] = answer
      /\ netTracked'[r] = [w \in {} |-> 0]
      /\ DOMAIN netPc' = DOMAIN netPc /\ DOMAIN netResp' = DOMAIN netResp
      /\ DOMAIN netTracked' = DOMAIN netTracked
      /\ DOMAIN held' = DOMAIN held /\ DOMAIN pending' = DOMAIN pending
      /\ \A q \in DotnetRequests \ {r} : /\ netPc'[q] = netPc[q]
                                         /\ netResp'[q] = netResp[q]
                                         /\ netTracked'[q] = netTracked[q]
      /\ \A t \in Sessions \ {r} : held'[t] = held[t] /\ pending'[t] = pending[t]
  BY DEF StacksInv, Shape, StoreTypeOK
<1>3. /\ Frame(r) /\ Shape'
      /\ PcOf(r) = netPc[r] /\ PcOf(r)' = step
      /\ RespOf(r) = netResp[r] /\ RespOf(r)' = answer
      /\ SeenOf(r)' = [w \in {} |-> 0]
      /\ ReqOf(r) = netReq[r]
  BY <1>1, <1>2, DotnetFrame DEF StacksInv
<1>4. Good(r) /\ Reading(r)'
  BY <1>1, <1>3, NothingRead DEF StacksInv
<1>5. RespOf(r) = "none" \/ netPc[r] \in {"release", "done"}
  BY <1>3, <1>4 DEF Good, Answered
<1>6. Good(r)' /\ Quiet(r)
  BY <1>1, <1>3, <1>4, <1>5, EndGood
<1>7. QED
  BY <1>3, <1>6 DEF Sound

LEMMA DotnetStatements ==
  ASSUME StacksInv, NEW r \in DotnetRequests, UNCHANGED djVars,
         \/ \E w \in Wallets : Dotnet!LockRow(r, w)
         \/ Dotnet!InsertHeader(r)
  PROVE  Sound(r)
<1>1. /\ r \in Sessions /\ r \notin DjangoRequests
      /\ Good(r) /\ Shape /\ StoreTypeOK
      /\ PcOf(r) = netPc[r] /\ SeenOf(r) = netTracked[r] /\ ReqOf(r) = netReq[r]
  BY StacksAssumption DEF StacksInv, Shape, PcOf, SeenOf, ReqOf
<1>2. ASSUME NEW w \in Wallets, Dotnet!LockRow(r, w)
      PROVE  Sound(r)
  <2>1. /\ w \in Rows(netReq[r]) /\ RowFree(w) /\ netPc[r] = "lock"
        /\ held' = [held EXCEPT ![r] = @ \cup {w}]
        /\ Dotnet!Track(r, w)
        /\ UNCHANGED <<balance, txn, ledger, pending, netReq, netPc, netResp>>
    BY <1>2 DEF Dotnet!LockRow, Dotnet!NextRow, Dotnet!Missing, Dotnet!Rows, Rows,
                Dotnet!TakeRow, Dotnet!RowFree, RowFree
  <2>2. /\ held'[r] = held[r] \cup {w} /\ StoreTypeOK'
        /\ DOMAIN held' = DOMAIN held
        /\ \A t \in Sessions \ {r} : held'[t] = held[t]
    BY <1>1, <2>1 DEF StoreTypeOK
  <2>3. /\ DOMAIN netTracked' = DOMAIN netTracked
        /\ \A q \in DotnetRequests \ {r} : netTracked'[q] = netTracked[q]
        /\ Reading(r)'
    BY <2>1, <2>2, TrackReads
  <2>4. /\ Frame(r) /\ Shape'
        /\ PcOf(r)' = netPc[r] /\ RespOf(r)' = RespOf(r)
    BY <1>1, <2>1, <2>2, <2>3, DotnetFrame
  <2>5. Good(r)' /\ Quiet(r)
    BY <1>1, <2>1, <2>2, <2>3, <2>4, LockGood
  <2>6. QED
    BY <2>4, <2>5 DEF Sound
<1>3. CASE Dotnet!InsertHeader(r)
  <2>1. /\ netPc[r] = "insert" /\ ReferenceFree(netReq[r].key)
        /\ netPc' = [netPc EXCEPT ![r] = "post"]
        /\ pending' = [pending EXCEPT ![r] = @ \cup {netReq[r].key}]
        /\ UNCHANGED <<balance, txn, ledger, held, netReq, netResp, netTracked>>
    BY <1>3 DEF Dotnet!InsertHeader, Dotnet!InsertReference, Dotnet!Goto,
                Dotnet!ReferenceFree, ReferenceFree, Dotnet!Committed, Committed
  <2>2. netReq[r].key \in Keys
    BY <1>1, <2>1 DEF Good, Checked
  <2>3. /\ pending'[r] = pending[r] \cup {netReq[r].key} /\ StoreTypeOK'
        /\ netPc'[r] = "post"
        /\ DOMAIN pending' = DOMAIN pending /\ DOMAIN netPc' = DOMAIN netPc
        /\ \A t \in Sessions \ {r} : pending'[t] = pending[t]
        /\ \A q \in DotnetRequests \ {r} : netPc'[q] = netPc[q]
    BY <1>1, <2>1, <2>2 DEF StoreTypeOK, Shape
  <2>4. /\ Frame(r) /\ Shape'
        /\ PcOf(r)' = "post" /\ RespOf(r)' = RespOf(r) /\ SeenOf(r)' = SeenOf(r)
    BY <1>1, <2>1, <2>3, DotnetFrame
  <2>5. Reading(r)'
    BY <1>1, <2>1, <2>4, SameRead DEF Frame
  <2>6. Good(r)' /\ Quiet(r)
    BY <1>1, <2>1, <2>3, <2>4, <2>5, InsertGood
  <2>7. QED
    BY <2>4, <2>6 DEF Sound
<1>4. QED
  BY <1>2, <1>3

LEMMA DotnetPost ==
  ASSUME StacksInv, NEW r \in DotnetRequests, UNCHANGED djVars, Dotnet!Post(r)
  PROVE  Sound(r)
<1> PICK answer \in {"created", "error"} : Dotnet!Answer(r, "release", answer)
  BY DEF Dotnet!Post
<1> DEFINE p == netReq[r]
           header == Dotnet!HeaderOf(p)
           amounts == Dotnet!Amounts(p)
           after == Dotnet!Result(p, netTracked[r])
<1>1. /\ r \in Sessions /\ r \notin DjangoRequests
      /\ Good(r) /\ Shape /\ StoreTypeOK
      /\ PcOf(r) = netPc[r] /\ SeenOf(r) = netTracked[r] /\ ReqOf(r) = p
  BY StacksAssumption DEF StacksInv, Shape, PcOf, SeenOf, ReqOf
<1>2. /\ netPc[r] = "post"
      /\ Commit(r, p.key, header, amounts, after)
      /\ netPc' = [netPc EXCEPT ![r] = "release"]
      /\ netResp' = [netResp EXCEPT ![r] = answer]
      /\ netTracked' = [netTracked EXCEPT ![r] = [w \in {} |-> 0]]
      /\ netReq' = netReq
  BY DEF Dotnet!Post, Dotnet!Commit, Commit, Dotnet!EndTransaction,
         EndTransaction, Dotnet!Answer, Dotnet!Goto, Dotnet!Forget,
         Dotnet!NothingTracked
<1>3. ~Dotnet!Overflows(p, netTracked[r])
  BY DEF Dotnet!Post
<1>4. Written(r, header, amounts, after)
  BY <1>1, <1>2, <1>3 DEF Written
<1> HIDE DEF p, header, amounts, after
<1>5. StoreTypeOK'
  BY <1>1, <1>2, <1>4, PostFits
<1>6. held' = [held EXCEPT ![r] = {}] /\ pending' = [pending EXCEPT ![r] = {}]
  BY <1>2 DEF Commit, EndTransaction
<1>7. /\ held'[r] = {} /\ pending'[r] = {}
      /\ netPc'[r] = "release" /\ netResp'[r] = answer
      /\ netTracked'[r] = [w \in {} |-> 0]
      /\ DOMAIN netPc' = DOMAIN netPc /\ DOMAIN netResp' = DOMAIN netResp
      /\ DOMAIN netTracked' = DOMAIN netTracked
      /\ DOMAIN held' = DOMAIN held /\ DOMAIN pending' = DOMAIN pending
      /\ \A q \in DotnetRequests \ {r} : /\ netPc'[q] = netPc[q]
                                         /\ netResp'[q] = netResp[q]
                                         /\ netTracked'[q] = netTracked[q]
      /\ \A t \in Sessions \ {r} : held'[t] = held[t] /\ pending'[t] = pending[t]
  BY <1>1, <1>2, <1>6 DEF Shape, StoreTypeOK
<1>8. /\ Frame(r) /\ Shape'
      /\ PcOf(r)' = "release" /\ RespOf(r)' = answer
      /\ SeenOf(r)' = [w \in {} |-> 0]
  BY <1>1, <1>2, <1>5, <1>7, DotnetFrame
<1>9. Posts(r) /\ Reading(r)'
  BY <1>1, <1>2, <1>4, <1>7, <1>8, NothingRead DEF Posts
<1>10. Good(r)'
  BY <1>1, <1>7, <1>8, <1>9, PostGood
<1>11. QED
  BY <1>8, <1>9, <1>10 DEF Sound

LEMMA DotnetSound ==
  ASSUME StacksInv, NEW r \in DotnetRequests, UNCHANGED djVars,
         Dotnet!Step(r) \/ Dotnet!Fail(r)
  PROVE  Sound(r)
<1> USE DEF Dotnet!storeVars, Dotnet!Goto, Dotnet!Answer, Dotnet!Rollback,
            Dotnet!EndTransaction, Dotnet!Forget, Dotnet!NothingTracked
<1>1. /\ r \in Sessions /\ r \notin DjangoRequests /\ Good(r) /\ Shape
      /\ PcOf(r) = netPc[r] /\ SeenOf(r) = netTracked[r] /\ ReqOf(r) = netReq[r]
  BY StacksAssumption DEF StacksInv, PcOf, SeenOf, ReqOf
<1>2. /\ netPc[r] \notin {"lookup", "done"} => netReq[r].key \in Keys
      /\ netPc[r] \in InTxn => WellFormed(netReq[r])
  BY <1>1 DEF Good, Checked
<1>3. ASSUME UNCHANGED <<balance, held, netReq, netTracked>>
      PROVE  Reading(r)'
  BY <1>1, <1>3, SameRead DEF SeenOf, ReqOf
<1>4. CASE Dotnet!MissingKey(r) \/ Dotnet!Hit(r) \/ Dotnet!Conflict(r)
  BY <1>2, <1>3, <1>4, DotnetLocal
     DEF InTxn, Dotnet!MissingKey, Dotnet!Hit, Dotnet!Conflict,
         Dotnet!Committed, Committed
<1>5. CASE \/ Dotnet!Miss(r) \/ Dotnet!AcquireLock(r)
           \/ Dotnet!FailValidation(r) \/ Dotnet!FailBefore(r)
  BY <1>2, <1>3, <1>5, DotnetLocal
     DEF InTxn, Dotnet!Miss, Dotnet!AcquireLock, Dotnet!FailValidation,
         Dotnet!FailBefore
<1>6. CASE Dotnet!PassValidation(r)
  <2>1. WellFormed(netReq[r])
    <3>1. netReq[r].type # "TRANSFER" => netReq[r].from = netReq[r].to
      BY <1>1, Asked
    <3>2. QED
      BY <1>6, <3>1 DEF Dotnet!PassValidation, Dotnet!ValidFirst,
                        Dotnet!OwnWallet, WellFormed
  <2>2. QED
    BY <1>2, <1>3, <1>6, <2>1, DotnetLocal DEF InTxn, Dotnet!PassValidation
<1>7. CASE Dotnet!TrackSource(r)
  <2>1. /\ netPc[r] = "validate" /\ netReq[r].type = "TRANSFER"
        /\ netReq[r].from \in Wallets /\ netReq[r].from # netReq[r].to
        /\ Dotnet!Track(r, netReq[r].from)
        /\ netPc' = [netPc EXCEPT ![r] = "destination"] /\ netResp' = netResp
        /\ UNCHANGED <<balance, txn, ledger, held, pending, netReq>>
    BY <1>7 DEF Dotnet!TrackSource, Dotnet!ValidFirst, Dotnet!OwnWallet
  <2>2. Stale(r)
    BY <1>1, <2>1 DEF Stale
  <2>3. /\ DOMAIN netTracked' = DOMAIN netTracked
        /\ \A q \in DotnetRequests \ {r} : netTracked'[q] = netTracked[q]
        /\ Reading(r)'
    BY <2>1, <2>2, TrackReads
  <2>4. QED
    BY <1>2, <2>1, <2>3, DotnetLocal DEF InTxn
<1>8. CASE Dotnet!TrackDestination(r)
  <2>1. /\ netPc[r] = "destination"
        /\ netReq[r].to \in Wallets /\ netReq[r].amount > 0
        /\ Currency[netReq[r].from] = Currency[netReq[r].to]
        /\ Dotnet!Track(r, netReq[r].to)
        /\ netPc' = [netPc EXCEPT ![r] = "lock"] /\ netResp' = netResp
        /\ UNCHANGED <<balance, txn, ledger, held, pending, netReq>>
    BY <1>8 DEF Dotnet!TrackDestination, Dotnet!ValidTransfer
  <2>2. Stale(r) /\ WellFormed(netReq[r])
    BY <1>1, <2>1 DEF Stale, WellFormed, Good, Checked
  <2>3. /\ DOMAIN netTracked' = DOMAIN netTracked
        /\ \A q \in DotnetRequests \ {r} : netTracked'[q] = netTracked[q]
        /\ Reading(r)'
    BY <2>1, <2>2, TrackReads
  <2>4. QED
    BY <1>2, <2>1, <2>2, <2>3, DotnetLocal DEF InTxn
<1>9. CASE Dotnet!FailTransfer(r) \/ Dotnet!Release(r) \/ Dotnet!FailRelease(r)
  <2>1. /\ netPc[r] \in {"destination", "release"}
        /\ netTracked' = [netTracked EXCEPT ![r] = [w \in {} |-> 0]]
        /\ UNCHANGED <<balance, txn, ledger, held, pending, netReq>>
    BY <1>9 DEF Dotnet!FailTransfer, Dotnet!Release, Dotnet!FailRelease
  <2>2. /\ DOMAIN netTracked' = DOMAIN netTracked
        /\ \A q \in DotnetRequests \ {r} : netTracked'[q] = netTracked[q]
        /\ SeenOf(r)' = [w \in {} |-> 0]
    BY <1>1, <2>1 DEF Shape, SeenOf
  <2>3. held'[r] = {}
    BY <1>1, <2>1 DEF Good, Locking, InTxn
  <2>4. Reading(r)'
    BY <1>1, <2>2, <2>3, NothingRead
  <2>5. QED
    BY <1>2, <1>9, <2>1, <2>2, <2>4, DotnetLocal
       DEF InTxn, Dotnet!FailTransfer, Dotnet!Release, Dotnet!FailRelease
<1>10. CASE Dotnet!Accept(r)
  <2>1. /\ netPc[r] = "lock" /\ held[r] = Rows(netReq[r])
        /\ netReq[r].type # "DEPOSIT" =>
             ~(netTracked[r][netReq[r].from] < netReq[r].amount)
        /\ netPc' = [netPc EXCEPT ![r] = "insert"] /\ netResp' = netResp
        /\ UNCHANGED <<balance, txn, ledger, held, pending, netReq, netTracked>>
    BY <1>10 DEF Dotnet!Accept, Dotnet!Refused, Dotnet!Rows, Rows
  <2>2. netTracked[r][netReq[r].from] \in Int /\ netReq[r].amount \in Int
    <3>1. netReq[r].from \in DOMAIN netTracked[r]
      BY <1>1, <2>1 DEF Good, Reading, Rows
    <3>2. QED
      BY <1>1, <3>1, Asked, StoreAssumption DEF Good, Reading
  <2>3. netReq[r].type # "DEPOSIT" =>
          netTracked'[r][netReq[r].from] >= netReq[r].amount
    BY <2>1, <2>2
  <2>4. QED
    BY <1>2, <1>3, <2>1, <2>3, DotnetLocal DEF InTxn
<1>11. CASE \/ Dotnet!Refuse(r) \/ Dotnet!DuplicateHeader(r)
            \/ Dotnet!Overflow(r) \/ Dotnet!FailInside(r) \/ Dotnet!Crash(r)
  BY <1>2, <1>11, DotnetEnd
     DEF Dotnet!Refuse, Dotnet!DuplicateHeader, Dotnet!Overflow,
         Dotnet!FailInside, Dotnet!Crash
<1>12. QED
  BY <1>4, <1>5, <1>6, <1>7, <1>8, <1>9, <1>10, <1>11, DotnetStatements, DotnetPost
     DEF Dotnet!Step, Dotnet!Fail

-----------------------------------------------------------------------------
(* All steps, and what the two stacks promise together.                      *)

\* A step of the deployment is a sound step of one session, or moves none (a
\* Redis lock expires, or everything is done).
LEMMA WhoMoves ==
  ASSUME StacksInv, [Next]_vars
  PROVE  \/ \E s \in Sessions : Sound(s)
         \/ UNCHANGED <<balance, txn, ledger, held, pending,
                        djReq, djPc, djResp, djLoaded,
                        netReq, netPc, netResp, netTracked>>
<1>1. CASE \E r \in DjangoRequests : /\ Django!Step(r) \/ Django!Fail(r)
                                     /\ UNCHANGED netVars
  BY <1>1, DjangoSound, StacksAssumption
<1>2. CASE \E r \in DotnetRequests : /\ Dotnet!Step(r) \/ Dotnet!Fail(r)
                                     /\ UNCHANGED djVars
  BY <1>2, DotnetSound, StacksAssumption
<1>3. CASE \E k \in Keys : Django!Expire(k) /\ UNCHANGED netVars
  BY <1>3 DEF Django!Expire, Django!storeVars, netVars
<1>4. CASE \E k \in Keys : Dotnet!Expire(k) /\ UNCHANGED djVars
  BY <1>4 DEF Dotnet!Expire, Dotnet!storeVars, djVars
<1>5. CASE UNCHANGED vars \/ Quiescent
  BY <1>5 DEF Quiescent, vars, djVars, netVars
<1>6. QED
  BY <1>1, <1>2, <1>3, <1>4, <1>5 DEF Next, DjangoStep, DotnetStep

LEMMA StillStacks ==
  ASSUME StacksInv,
         UNCHANGED <<balance, txn, ledger, held, pending,
                     djReq, djPc, djResp, djLoaded,
                     netReq, netPc, netResp, netTracked>>
  PROVE  /\ StacksInv'
         /\ \A s \in Sessions : ReqOf(s)' = ReqOf(s) /\ RespOf(s)' = RespOf(s)
<1>1. Shape' /\ Exclusive'
  BY DEF StacksInv, Shape, StoreTypeOK, Exclusive, Committed
<1>2. ASSUME NEW s \in Sessions
      PROVE  /\ ReqOf(s)' = ReqOf(s) /\ PcOf(s)' = PcOf(s)
             /\ RespOf(s)' = RespOf(s) /\ SeenOf(s)' = SeenOf(s)
  BY DEF ReqOf, PcOf, RespOf, SeenOf
<1>3. ASSUME NEW s \in Sessions
      PROVE  Good(s)'
  BY <1>2 DEF StacksInv, Good, Locking, Checked, Reading, Stale, Funded,
              Answered, WellFormed, Committed
<1>4. QED
  BY <1>1, <1>2, <1>3 DEF StacksInv

LEMMA StacksStep == StacksInv /\ [Next]_vars => StacksInv'
<1> SUFFICES ASSUME StacksInv, [Next]_vars PROVE StacksInv'
  OBVIOUS
<1>1. ASSUME NEW s \in Sessions, Sound(s)
      PROVE  StacksInv'
  BY <1>1, QuietKeeps, PostsKeeps DEF Sound
<1>2. QED
  BY <1>1, WhoMoves, StillStacks

LEMMA StacksHold == Spec => []StacksInv
BY InitStacks, StacksStep, PTL DEF Spec

\* However requests of both stacks are interleaved, crash or lose their Redis
\* locks, no wallet is overdrawn: each checks the funds on the balance it then
\* writes down.
THEOREM NoOverdraftAcrossStacks == Spec => []NonNegative
<1>1. StacksInv => NonNegative
  BY DEF StacksInv, NonNegative
<1>2. QED
  BY <1>1, StacksHold, PTL

\* What a step does to the answers and headers, if it posts nothing.
LEMMA QuietAnswers ==
  ASSUME NEW s \in Sessions, Frame(s), Quiet(s)
  PROVE  /\ UNCHANGED <<balance, txn, ledger>>
         /\ \A t \in Sessions :
              /\ ReqOf(t)' = ReqOf(t)
              /\ RespOf(t)' = "created" => RespOf(t) = "created"
              /\ RespOf(t) \in {"created", "error", "lost"} =>
                   RespOf(t)' \in {"created", "error", "lost"}
BY DEF Frame, Quiet

LEMMA OnePostQuiet ==
  ASSUME StacksInv', OneStackPosts, UNCHANGED txn,
         \A t \in Sessions :
           /\ ReqOf(t)' = ReqOf(t)
           /\ RespOf(t)' = "created" => RespOf(t) = "created"
           /\ RespOf(t) \in {"created", "error", "lost"} =>
                RespOf(t)' \in {"created", "error", "lost"}
  PROVE  OneStackPosts'
<1>1. \A k : Committed(k)' <=> Committed(k)
  BY DEF Committed
<1>2. \A s \in Sessions : RespOf(s)' \in {"created", "hit"} =>
        Committed(ReqOf(s).key)'
  BY <1>1 DEF StacksInv, Good, Answered
<1>3. \A s, t \in Sessions :
        (s # t /\ RespOf(s)' = "created" /\ RespOf(t)' = "created")
          => ReqOf(s)'.key # ReqOf(t)'.key
  BY DEF OneStackPosts
<1>4. ASSUME NEW k \in Keys, Committed(k)'
      PROVE  \E s \in Sessions :
               /\ ReqOf(s)'.key = k
               /\ RespOf(s)' \in {"created", "error", "lost"}
               /\ txn'[k].type = ReqOf(s)'.type
               /\ txn'[k].amount = Dotnet!RoundToColumn(ReqOf(s)'.amount)
  <2>1. PICK s \in Sessions :
          /\ ReqOf(s).key = k
          /\ RespOf(s) \in {"created", "error", "lost"}
          /\ txn[k].type = ReqOf(s).type
          /\ txn[k].amount = Dotnet!RoundToColumn(ReqOf(s).amount)
    BY <1>1, <1>4 DEF OneStackPosts
  <2>2. QED
    BY <2>1
<1>5. QED
  BY <1>2, <1>3, <1>4 DEF OneStackPosts

LEMMA OnePostPosts ==
  ASSUME StacksInv, StacksInv', OneStackPosts,
         NEW s \in Sessions, Frame(s), Posts(s)
  PROVE  OneStackPosts'
<1> DEFINE p == ReqOf(s)
<1>1. /\ \A t \in Sessions : ReqOf(t)' = ReqOf(t)
      /\ \A t \in Sessions \ {s} : RespOf(t)' = RespOf(t)
      /\ RespOf(s)' \in {"created", "error"} /\ PcOf(s) = "post"
  BY DEF Frame, Posts
<1>2. PICK header, amounts, after : Written(s, header, amounts, after)
  BY DEF Posts
<1>3. /\ p.key \in Keys /\ ~Committed(p.key)
      /\ \A k \in Keys : txn'[k] = IF k = p.key THEN header ELSE txn[k]
      /\ header = Dotnet!HeaderOf(p)
  <2>1. /\ p.key \in Keys /\ ~Committed(p.key)
        /\ txn \in [Keys -> Header \cup {NoTxn}]
        /\ Commit(s, p.key, header, amounts, after)
    BY <1>1, <1>2, PostFits DEF StoreTypeOK
  <2>2. header = Dotnet!HeaderOf(p)
    BY <1>2 DEF Written
  <2> HIDE DEF p
  <2>3. QED
    BY <2>1, <2>2 DEF Commit
<1>4. \A t \in Sessions : RespOf(t) = "created" => ReqOf(t).key # p.key
  BY <1>3 DEF StacksInv, Good, Answered
<1>5. \A t, u \in Sessions :
        (t # u /\ RespOf(t)' = "created" /\ RespOf(u)' = "created")
          => ReqOf(t)'.key # ReqOf(u)'.key
  BY <1>1, <1>4 DEF OneStackPosts
<1>6. \A t \in Sessions : RespOf(t)' \in {"created", "hit"} =>
        Committed(ReqOf(t).key)'
  BY <1>1 DEF StacksInv, Good, Answered
<1>7. ASSUME NEW k \in Keys, Committed(k)'
      PROVE  \E t \in Sessions :
               /\ ReqOf(t)'.key = k
               /\ RespOf(t)' \in {"created", "error", "lost"}
               /\ txn'[k].type = ReqOf(t)'.type
               /\ txn'[k].amount = Dotnet!RoundToColumn(ReqOf(t)'.amount)
  <2>1. CASE k = p.key
    BY <1>1, <1>3, <2>1 DEF Dotnet!HeaderOf
  <2>2. CASE k # p.key
    <3>1. txn'[k] = txn[k] /\ Committed(k)
      BY <1>3, <1>7, <2>2 DEF Committed
    <3>2. PICK t \in Sessions :
            /\ ReqOf(t).key = k
            /\ RespOf(t) \in {"created", "error", "lost"}
            /\ txn[k].type = ReqOf(t).type
            /\ txn[k].amount = Dotnet!RoundToColumn(ReqOf(t).amount)
      BY <3>1 DEF OneStackPosts
    <3>3. t # s
      BY <2>2, <3>2
    <3>4. QED
      BY <1>1, <3>1, <3>2, <3>3
  <2>3. QED
    BY <2>1, <2>2
<1>8. QED
  BY <1>1, <1>5, <1>6, <1>7 DEF OneStackPosts

\* A key is posted once across both stacks, where no Redis lock is shared: one
\* 201 at most, by the request whose type and amount the header has, and a HIT
\* tells of a committed posting.
THEOREM OneStackPostsAKey == Spec => []OneStackPosts
<1>1. Init => OneStackPosts
  <2> SUFFICES ASSUME Init PROVE OneStackPosts
    OBVIOUS
  <2>1. \A k \in Keys : ~Committed(k)
    BY DEF Init, Django!Init, Django!StoreInit, Committed
  <2>2. \A s \in Sessions : RespOf(s) = "none"
    BY StacksAssumption DEF Init, Django!Init, Dotnet!Init, RespOf
  <2>3. QED
    BY <2>1, <2>2 DEF OneStackPosts
<1>2. StacksInv /\ OneStackPosts /\ [Next]_vars => OneStackPosts'
  <2> SUFFICES ASSUME StacksInv, OneStackPosts, [Next]_vars
               PROVE  OneStackPosts'
    OBVIOUS
  <2>1. StacksInv'
    BY StacksStep
  <2>2. ASSUME NEW s \in Sessions, Sound(s)
        PROVE  OneStackPosts'
    <3>1. CASE Quiet(s)
      BY <2>1, <2>2, <3>1, QuietAnswers, OnePostQuiet DEF Sound
    <3>2. CASE Posts(s)
      BY <2>1, <2>2, <3>2, OnePostPosts DEF Sound
    <3>3. QED
      BY <2>2, <3>1, <3>2 DEF Sound
  <2>3. QED
    BY <2>1, <2>2, WhoMoves, StillStacks, OnePostQuiet
<1>3. QED
  BY <1>1, <1>2, StacksHold, PTL DEF Spec

\* How a step changes the tables: not at all, or by one session's posting.
LEMMA TablesMove ==
  ASSUME StacksInv, [Next]_vars
  PROVE  /\ \A s \in Sessions : ReqOf(s)' = ReqOf(s)
         /\ \/ UNCHANGED <<balance, txn, ledger>>
            \/ \E s \in Sessions : Posts(s)
<1>1. ASSUME NEW s \in Sessions, Sound(s)
      PROVE  /\ \A t \in Sessions : ReqOf(t)' = ReqOf(t)
             /\ UNCHANGED <<balance, txn, ledger>> \/ Posts(s)
  BY <1>1 DEF Sound, Frame, Quiet
<1>2. QED
  BY <1>1, WhoMoves, StillStacks

\* No .NET transfer and no .NET withdrawal of a fraction of a unit.
WholeClients ==
  \A r \in DotnetRequests :
    \/ netReq[r].type = "DEPOSIT"
    \/ netReq[r].type = "WITHDRAWAL" /\ netReq[r].amount % 2 = 0

LEMMA PostsChain ==
  ASSUME StacksInv, WholeClients, LedgerChains, NEW s \in Sessions, Posts(s)
  PROVE  LedgerChains'
<1>1. PICK header, amounts, after : Written(s, header, amounts, after)
  BY DEF Posts
<1>2. /\ Commit(s, ReqOf(s).key, header, amounts, after)
      /\ DOMAIN amounts = Rows(ReqOf(s))
      /\ ledger \in [Wallets -> Seq(Entry)]
  BY <1>1, PostFits DEF Posts, StoreTypeOK
<1>3. ~Stale(s) /\ (ReqOf(s).type = "DEPOSIT" \/ ReqOf(s).amount % 2 = 0)
  <2>1. CASE s \in DjangoRequests
    BY <2>1, Asked, StacksAssumption DEF Stale, StacksInv
  <2>2. CASE s \in DotnetRequests
    <3>1. ReqOf(s) = netReq[s]
      BY <2>2, StacksAssumption DEF ReqOf
    <3>2. QED
      BY <2>2, <3>1 DEF WholeClients, Stale
  <2>3. QED
    BY <2>1, <2>2, StacksAssumption
<1>4. \A w \in DOMAIN amounts : after[w] = balance[w] + amounts[w]
  BY <1>1, <1>2, <1>3, PostedNumbers DEF Written, Posts
<1>5. QED
  BY <1>2, <1>4, CommitChains

\* As long as no client uses the .NET transfer or withdraws a fraction of a
\* unit there, each wallet's entries form one running balance, whichever stacks
\* wrote them: every other posting reads, checks and writes under the row lock.
THEOREM ChainAcrossStacks == Spec => []ChainWithoutDotnetTransfers
<1> DEFINE Chain == WholeClients => LedgerChains
<1>1. Init => Chain
  <2> SUFFICES ASSUME Init PROVE LedgerChains
    OBVIOUS
  <2>1. balance = Opening /\ ledger = [w \in Wallets |-> <<>>]
    BY DEF Init, Django!Init, Django!StoreInit
  <2>2. QED
    BY <2>1 DEF LedgerChains, PreviousAfter
<1>2. StacksInv /\ Chain /\ [Next]_vars => Chain'
  <2> SUFFICES ASSUME StacksInv, Chain, [Next]_vars, WholeClients'
               PROVE  LedgerChains'
    OBVIOUS
  <2>1. WholeClients
    <3>1. ASSUME NEW r \in DotnetRequests
          PROVE  netReq'[r] = netReq[r]
      BY TablesMove, StacksAssumption DEF ReqOf
    <3>2. QED
      BY <3>1 DEF WholeClients
  <2>2. CASE UNCHANGED <<balance, txn, ledger>>
    BY <2>1, <2>2 DEF LedgerChains, PreviousAfter
  <2>3. CASE \E s \in Sessions : Posts(s)
    BY <2>1, <2>3, PostsChain
  <2>4. QED
    BY <2>2, <2>3, TablesMove
<1>3. Chain => ChainWithoutDotnetTransfers
  BY DEF WholeClients, ChainWithoutDotnetTransfers
<1> HIDE DEF Chain
<1>4. QED
  BY <1>1, <1>2, <1>3, StacksHold, PTL DEF Spec

\* Double entry holds of what both stacks have posted together.
THEOREM DoubleEntryAcrossStacks == Spec => []LedgerMatchesTxns
<1>1. Init => LedgerMatchesTxns
  BY EmptyBooks DEF Init, Django!Init, Django!StoreInit, StoreInit
<1>2. StacksInv /\ LedgerMatchesTxns /\ [Next]_vars => LedgerMatchesTxns'
  <2> SUFFICES ASSUME StacksInv, LedgerMatchesTxns, [Next]_vars
               PROVE  LedgerMatchesTxns'
    OBVIOUS
  <2>1. ASSUME NEW s \in Sessions, Posts(s)
        PROVE  LedgerMatchesTxns'
    <3>1. PICK header, amounts, after : Written(s, header, amounts, after)
      BY <2>1 DEF Posts
    <3>2. QED
      BY <2>1, <3>1, PostFits, CommitBooks DEF Posts
  <2>2. QED
    BY <2>1, TablesMove, KeepsBooks
<1>3. QED
  BY <1>1, <1>2, StacksHold, PTL DEF Spec

\* Neither stack replaces a header or rewrites an entry of the other's.
THEOREM HistoryAcrossStacks == Spec => HistoryAppendOnly
<1>1. StacksInv /\ [Next]_vars => [AppendsOnly]_storeVars
  <2> SUFFICES ASSUME StacksInv, [Next]_vars
               PROVE  AppendsOnly
    OBVIOUS
  <2>1. CASE UNCHANGED <<balance, txn, ledger>>
    <3>1. \A w \in Wallets : Len(ledger[w]) \in Nat
      BY DEF StacksInv, Shape, StoreTypeOK
    <3>2. QED
      BY <2>1, <3>1 DEF AppendsOnly
  <2>2. ASSUME NEW s \in Sessions, Posts(s)
        PROVE  AppendsOnly
    <3>1. PICK header, amounts, after : Written(s, header, amounts, after)
      BY <2>2 DEF Posts
    <3>2. QED
      BY <2>2, <3>1, PostFits, CommitAppends DEF Posts
  <2>3. QED
    BY <2>1, <2>2, TablesMove
<1>2. QED
  BY <1>1, StacksHold, PTL DEF Spec, HistoryAppendOnly

=============================================================================
