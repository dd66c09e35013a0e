------------------------ MODULE DotnetWalletApiProofs ------------------------
(***************************************************************************)
(* Proofs about DotnetWalletApi for every set of wallets, keys, requests     *)
(* and payloads.  What a transfer loads may be stale, so less holds than of  *)
(* the Django API; what is left rests on two facts: the balances of a       *)
(* deposit or a withdrawal are read under the row locks, and the funds      *)
(* check uses the same number as the write.                                *)
(***************************************************************************)
EXTENDS DotnetWalletApi, WalletStoreProofs

InTxn == {"lock", "insert", "post"}

RowDiscipline ==
  /\ \A r \in Requests :
       /\ held[r] \subseteq Rows(req[r])
       /\ pc[r] \notin InTxn => held[r] = {}
       /\ pc[r] \in {"insert", "post"} => held[r] = Rows(req[r])
  /\ \A s, t \in Sessions : s # t => held[s] \cap held[t] = {}

WellFormed(p) ==
  /\ p.amount > 0
  /\ p.from \in Wallets /\ p.to \in Wallets
  /\ p.type = "TRANSFER" => /\ p.from # p.to
                            /\ Currency[p.from] = Currency[p.to]
  /\ p.type # "TRANSFER" => p.from = p.to

\* What the controller's checks have established.
Validated ==
  \A r \in Requests :
    /\ pc[r] \notin {"lookup", "done"} => req[r].key \in Keys
    /\ pc[r] = "destination" => /\ req[r].type = "TRANSFER"
                                /\ req[r].from \in Wallets
                                /\ req[r].from # req[r].to
    /\ pc[r] \in InTxn => WellFormed(req[r])

\* What a DbContext tracks: balances as the table once held them, those of all
\* locked rows, and for a deposit or a withdrawal of those only and current.
Tracking ==
  /\ DOMAIN tracked = Requests
  /\ \A r \in Requests :
       /\ DOMAIN tracked[r] \subseteq Wallets
       /\ \A w \in DOMAIN tracked[r] : tracked[r][w] \in 0 .. MaxBalance
       /\ held[r] \subseteq DOMAIN tracked[r]
       /\ req[r].type # "TRANSFER" =>
            /\ DOMAIN tracked[r] \subseteq held[r]
            /\ \A w \in held[r] : tracked[r][w] = balance[w]

\* The funds check still holds of the numbers that will be written.
Funded ==
  \A r \in Requests :
    (pc[r] \in {"insert", "post"} /\ req[r].type # "DEPOSIT")
      => tracked[r][req[r].from] >= req[r].amount

PendingDiscipline ==
  /\ \A r \in Requests :
       pending[r] = IF pc[r] = "post" THEN {req[r].key} ELSE {}
  /\ \A s, t \in Sessions : s # t => pending[s] \cap pending[t] = {}
  /\ \A s \in Sessions : \A k \in pending[s] : ~Committed(k)

DotnetInv ==
  /\ TypeOK
  /\ RowDiscipline
  /\ Validated
  /\ Tracking
  /\ Funded
  /\ PendingDiscipline
  /\ NonNegative

-----------------------------------------------------------------------------
(* Facts about types, rounding and tracking.                                *)

LEMMA ReqType ==
  ASSUME TypeOK, NEW r \in Requests
  PROVE  /\ req[r] \in Payload
         /\ req[r] \in Payloads
         /\ r \in Sessions
BY ApiAssumption DEF TypeOK

LEMMA StoreTypes ==
  ASSUME TypeOK
  PROVE  /\ StoreTypeOK
         /\ balance \in [Wallets -> Column]
         /\ held \in [Sessions -> SUBSET Wallets]
         /\ pending \in [Sessions -> SUBSET Keys]
         /\ txn \in [Keys -> Header \cup {NoTxn}]
         /\ ledger \in [Wallets -> Seq(Entry)]
         /\ locks \subseteq Keys
         /\ req \in [Requests -> Payloads]
         /\ pc \in [Requests -> Steps]
         /\ resp \in [Requests -> Responses]
         /\ Requests \subseteq Sessions
BY ApiAssumption DEF TypeOK, StoreTypeOK

\* The column's rounding is odd-symmetric, gives whole units, and stays within
\* a column whose bound is whole.
LEMMA Rounding ==
  ASSUME NEW x \in Nat
  PROVE  /\ RoundToColumn(x) \in Nat
         /\ RoundToColumn(x) % 2 = 0
         /\ x > 0 => RoundToColumn(x) > 0
         /\ x <= MaxBalance => RoundToColumn(x) <= MaxBalance
         /\ RoundToColumn(-x) = -RoundToColumn(x)
<1>1. MaxBalance \in Nat /\ MaxBalance % 2 = 0
  BY StoreAssumption, ApiAssumption
<1>2. x % 2 \in {0, 1} /\ (-x) % 2 = x % 2
  OBVIOUS
<1>3. RoundToColumn(x) = x + (x % 2)
  BY DEF RoundToColumn
<1>4. RoundToColumn(-x) = -x - (x % 2)
  BY <1>2 DEF RoundToColumn
<1>5. (x + (x % 2)) % 2 = 0
  BY <1>2
<1>6. x <= MaxBalance => x + (x % 2) <= MaxBalance
  BY <1>1, <1>2
<1>7. QED
  BY <1>2, <1>3, <1>4, <1>5, <1>6

\* A whole balance can be added before or after rounding, and a whole amount
\* taken away.
LEMMA RoundingAdds ==
  ASSUME NEW b \in Nat, NEW x \in Nat, b % 2 = 0
  PROVE  /\ RoundToColumn(b + x) = b + RoundToColumn(x)
         /\ (x % 2 = 0 /\ x <= b) => RoundToColumn(b - x) = b + RoundToColumn(-x)
<1>1. (b + x) % 2 = x % 2
  OBVIOUS
<1>2. (x % 2 = 0 /\ x <= b) => (b - x) % 2 = 0 /\ (-x) % 2 = 0
  OBVIOUS
<1>3. QED
  BY <1>1, <1>2 DEF RoundToColumn

LEMMA TrackEffect ==
  ASSUME DOMAIN tracked = Requests, NEW r \in Requests, NEW w, Track(r, w)
  PROVE  /\ DOMAIN tracked' = Requests
         /\ \A q \in Requests : q # r => tracked'[q] = tracked[q]
         /\ DOMAIN tracked'[r] = DOMAIN tracked[r] \cup {w}
         /\ \A v \in DOMAIN tracked[r] : tracked'[r][v] = tracked[r][v]
         /\ w \notin DOMAIN tracked[r] => tracked'[r][w] = balance[w]
BY DEF Track

LEMMA ForgetEffect ==
  ASSUME DOMAIN tracked = Requests, NEW r \in Requests, Forget(r)
  PROVE  /\ DOMAIN tracked' = Requests
         /\ \A q \in Requests : q # r => tracked'[q] = tracked[q]
         /\ DOMAIN tracked'[r] = {}
BY DEF Forget, NothingTracked

LEMMA InitInv == Init => DotnetInv
<1> SUFFICES ASSUME Init PROVE DotnetInv
  OBVIOUS
<1> USE StoreAssumption, ApiAssumption DEF Init, StoreInit, NothingTracked
<1>1. TypeOK
  <2>1. balance \in [Wallets -> Column]
    BY DEF Column
  <2>2. ledger \in [Wallets -> Seq(Entry)]
    OBVIOUS
  <2>3. QED
    BY <2>1, <2>2 DEF TypeOK, StoreTypeOK, Steps, Responses
<1>2. RowDiscipline /\ Validated /\ Funded
  BY DEF RowDiscipline, Validated, Funded, InTxn
<1>3. Tracking
  BY DEF Tracking
<1>4. PendingDiscipline /\ NonNegative
  BY DEF PendingDiscipline, NonNegative, Committed
<1>5. QED
  BY <1>1, <1>2, <1>3, <1>4 DEF DotnetInv

-----------------------------------------------------------------------------
(* Steps that leave the tables alone.                                      *)

\* A step that changes pc, resp and locks; what it tracks is left to others.
LEMMA LocalStep ==
  ASSUME DotnetInv, UNCHANGED <<storeVars, req>>, Tracking',
         NEW r \in Requests, NEW step \in Steps,
         pc' = [pc EXCEPT ![r] = step],
         \A q \in Requests : q # r => tracked'[q] = tracked[q],
         resp' \in [Requests -> Responses], locks' \subseteq Keys,
         pc[r] # "post",
         pc[r] \notin InTxn => step \notin {"insert", "post"},
         pc[r] \in InTxn => step = "insert" /\ held[r] = Rows(req[r]),
         step \notin {"lookup", "done"} => req[r].key \in Keys,
         step = "destination" => /\ req[r].type = "TRANSFER"
                                 /\ req[r].from \in Wallets
                                 /\ req[r].from # req[r].to,
         step \in InTxn => WellFormed(req[r]),
         (step = "insert" /\ req[r].type # "DEPOSIT")
           => tracked'[r][req[r].from] >= req[r].amount
  PROVE  DotnetInv'
<1> USE DEF storeVars
<1>1. pc \in [Requests -> Steps] /\ StoreTypeOK /\ req \in [Requests -> Payloads]
      /\ \A w \in Wallets : balance[w] % 2 = 0
  BY DEF DotnetInv, TypeOK
<1>2. MaxBalance \in Nat
  BY StoreAssumption
<1>3. TypeOK'
  <2>1. \A q \in Requests : /\ DOMAIN tracked'[q] \subseteq Wallets
                            /\ \A w \in DOMAIN tracked'[q] : tracked'[q][w] \in Column
    BY <1>2 DEF Tracking, Column
  <2>2. StoreTypeOK'
    BY <1>1 DEF StoreTypeOK
  <2>3. QED
    BY <1>1, <2>1, <2>2 DEF TypeOK
<1>4. RowDiscipline'
  BY <1>1 DEF DotnetInv, RowDiscipline, Rows, InTxn
<1>5. Validated'
  BY <1>1 DEF DotnetInv, Validated, WellFormed, InTxn
<1>6. Funded'
  BY <1>1 DEF DotnetInv, Funded, InTxn
<1>7. PendingDiscipline'
  <2>1. step # "post"
    BY DEF InTxn
  <2>2. QED
    BY <1>1, <2>1 DEF DotnetInv, PendingDiscipline, Committed
<1>8. NonNegative'
  BY DEF DotnetInv, NonNegative
<1>9. QED
  BY <1>3, <1>4, <1>5, <1>6, <1>7, <1>8 DEF DotnetInv

\* What is tracked stays true of a step that changes nothing but the tracked
\* wallets of one request.
LEMMA TrackKept ==
  ASSUME DotnetInv, UNCHANGED <<storeVars, req, tracked>>
  PROVE  Tracking'
BY DEF DotnetInv, Tracking, storeVars

LEMMA TrackTransfer ==
  ASSUME DotnetInv, UNCHANGED <<storeVars, req>>, NEW r \in Requests,
         NEW w \in Wallets, req[r].type = "TRANSFER", Track(r, w)
  PROVE  Tracking' /\ \A q \in Requests : q # r => tracked'[q] = tracked[q]
<1> USE DEF storeVars
<1>1. balance[w] \in 0 .. MaxBalance
  BY StoreAssumption DEF DotnetInv, TypeOK, StoreTypeOK, NonNegative, Column
<1>2. /\ DOMAIN tracked' = Requests
      /\ \A q \in Requests : q # r => tracked'[q] = tracked[q]
      /\ DOMAIN tracked'[r] = DOMAIN tracked[r] \cup {w}
      /\ \A v \in DOMAIN tracked[r] : tracked'[r][v] = tracked[r][v]
      /\ w \notin DOMAIN tracked[r] => tracked'[r][w] = balance[w]
  BY TrackEffect DEF DotnetInv, Tracking
<1>3. QED
  BY <1>1, <1>2 DEF DotnetInv, Tracking

\* A request outside a transaction gives up what it tracks.
LEMMA TrackForgotten ==
  ASSUME DotnetInv, UNCHANGED <<balance, req>>, NEW r \in Requests, Forget(r),
         held'[r] = {}, \A q \in Requests : q # r => held'[q] = held[q]
  PROVE  Tracking' /\ \A q \in Requests : q # r => tracked'[q] = tracked[q]
<1>1. /\ DOMAIN tracked' = Requests
      /\ \A q \in Requests : q # r => tracked'[q] = tracked[q]
      /\ DOMAIN tracked'[r] = {}
  BY ForgetEffect DEF DotnetInv, Tracking
<1>2. QED
  BY <1>1 DEF DotnetInv, Tracking

\* The end of a transaction without a COMMIT.
LEMMA RollbackStep ==
  ASSUME DotnetInv, NEW r \in Requests, NEW step \in {"release", "done"},
         Rollback(r), Forget(r), UNCHANGED req,
         pc' = [pc EXCEPT ![r] = step],
         step = "release" => req[r].key \in Keys,
         resp' \in [Requests -> Responses], locks' \subseteq Keys
  PROVE  DotnetInv'
<1> USE DEF Rollback, EndTransaction
<1>1. /\ pc \in [Requests -> Steps] /\ r \in Sessions
      /\ held \in [Sessions -> SUBSET Wallets]
      /\ pending \in [Sessions -> SUBSET Keys]
      /\ Requests \subseteq Sessions /\ StoreTypeOK
      /\ MaxBalance \in Nat
  BY ReqType, StoreTypes, StoreAssumption DEF DotnetInv
<1>2. Tracking' /\ \A q \in Requests : q # r => tracked'[q] = tracked[q]
  BY <1>1, TrackForgotten
<1>3. TypeOK'
  <2>1. pc' \in [Requests -> Steps]
    BY <1>1 DEF Steps
  <2>2. StoreTypeOK'
    BY <1>1 DEF StoreTypeOK
  <2>3. \A q \in Requests : /\ DOMAIN tracked'[q] \subseteq Wallets
                            /\ \A w \in DOMAIN tracked'[q] : tracked'[q][w] \in Column
    BY <1>1, <1>2 DEF Tracking, Column
  <2>4. QED
    BY <2>1, <2>2, <2>3 DEF DotnetInv, TypeOK
<1>4. RowDiscipline'
  BY <1>1 DEF DotnetInv, RowDiscipline, Rows, InTxn
<1>5. Validated'
  BY <1>1 DEF DotnetInv, Validated, WellFormed, InTxn
<1>6. Funded'
  BY <1>1, <1>2 DEF DotnetInv, Funded
<1>7. PendingDiscipline'
  BY <1>1 DEF DotnetInv, PendingDiscipline, Committed
<1>8. NonNegative'
  BY DEF DotnetInv, NonNegative
<1>9. QED
  BY <1>2, <1>3, <1>4, <1>5, <1>6, <1>7, <1>8 DEF DotnetInv

-----------------------------------------------------------------------------
(* The statements of the transaction.                                      *)

\* SELECT ... FOR UPDATE: a deposit or a withdrawal reads the current balance;
\* a transfer keeps the one it tracks already.
LEMMA LockRowStep ==
  ASSUME DotnetInv, NEW r \in Requests, NEW w \in Wallets, LockRow(r, w)
  PROVE  DotnetInv'
<1> USE DEF LockRow, TakeRow
<1>1. /\ pc[r] = "lock" /\ w \in Rows(req[r]) /\ w \notin held[r]
      /\ r \in Sessions /\ MaxBalance \in Nat
  BY ReqType, StoreAssumption DEF NextRow, Missing, DotnetInv
<1>2. /\ held \in [Sessions -> SUBSET Wallets]
      /\ balance \in [Wallets -> Column]
      /\ Requests \subseteq Sessions
  BY StoreTypes DEF DotnetInv
<1>3. balance[w] \in 0 .. MaxBalance
  BY <1>1, <1>2 DEF DotnetInv, NonNegative, Column
<1>4. /\ DOMAIN tracked' = Requests
      /\ \A q \in Requests : q # r => tracked'[q] = tracked[q]
      /\ DOMAIN tracked'[r] = DOMAIN tracked[r] \cup {w}
      /\ \A v \in DOMAIN tracked[r] : tracked'[r][v] = tracked[r][v]
      /\ w \notin DOMAIN tracked[r] => tracked'[r][w] = balance[w]
  BY TrackEffect DEF DotnetInv, Tracking
<1>5. held' = [held EXCEPT ![r] = @ \cup {w}] /\ UNCHANGED <<balance, req, pc>>
  OBVIOUS
<1>6. Tracking'
  BY <1>1, <1>2, <1>3, <1>4, <1>5 DEF DotnetInv, Tracking
<1>7. TypeOK'
  <2>1. \A q \in Requests : /\ DOMAIN tracked'[q] \subseteq Wallets
                            /\ \A v \in DOMAIN tracked'[q] : tracked'[q][v] \in Column
    BY <1>1, <1>6 DEF Tracking, Column
  <2>2. StoreTypeOK'
    BY <1>1, <1>2 DEF DotnetInv, TypeOK, StoreTypeOK
  <2>3. QED
    BY <2>1, <2>2 DEF DotnetInv, TypeOK
<1>8. RowDiscipline'
  <2>1. ASSUME NEW q \in Requests
        PROVE  /\ held'[q] \subseteq Rows(req'[q])
               /\ pc'[q] \notin InTxn => held'[q] = {}
               /\ pc'[q] \in {"insert", "post"} => held'[q] = Rows(req'[q])
    BY <1>1, <1>2 DEF DotnetInv, RowDiscipline, Rows, InTxn
  <2>2. ASSUME NEW s \in Sessions, NEW t \in Sessions, s # t
        PROVE  held'[s] \cap held'[t] = {}
    BY <1>1, <1>2, <2>2 DEF DotnetInv, RowDiscipline, RowFree
  <2>3. QED
    BY <2>1, <2>2 DEF RowDiscipline
<1>9. Validated'
  BY DEF DotnetInv, Validated, WellFormed
<1>10. Funded'
  BY <1>1, <1>4, <1>5 DEF DotnetInv, Funded
<1>11. PendingDiscipline' /\ NonNegative'
  BY DEF DotnetInv, PendingDiscipline, Committed, NonNegative
<1>12. QED
  BY <1>6, <1>7, <1>8, <1>9, <1>10, <1>11 DEF DotnetInv

\* INSERT of the header: the reference was neither committed nor in flight.
LEMMA InsertHeaderStep ==
  ASSUME DotnetInv, NEW r \in Requests, InsertHeader(r)
  PROVE  DotnetInv'
<1> USE DEF InsertHeader, InsertReference, Goto
<1>1. pc[r] = "insert" /\ r \in Sessions /\ req[r].key \in Keys
  BY ReqType DEF DotnetInv, Validated
<1>2. /\ pending \in [Sessions -> SUBSET Keys]
      /\ pc \in [Requests -> Steps]
      /\ Requests \subseteq Sessions
  BY StoreTypes DEF DotnetInv
<1>3. TypeOK'
  BY <1>1, <1>2 DEF DotnetInv, TypeOK, StoreTypeOK, Steps
<1>4. RowDiscipline'
  BY <1>1, <1>2 DEF DotnetInv, RowDiscipline, Rows, InTxn
<1>5. Tracking'
  BY DEF DotnetInv, Tracking
<1>6. Validated'
  BY <1>1, <1>2 DEF DotnetInv, Validated, WellFormed, InTxn
<1>7. Funded'
  BY <1>1, <1>2 DEF DotnetInv, Funded
<1>8. PendingDiscipline'
  <2>1. ASSUME NEW q \in Requests
        PROVE  pending'[q] = IF pc'[q] = "post" THEN {req'[q].key} ELSE {}
    BY <1>1, <1>2 DEF DotnetInv, PendingDiscipline
  <2>2. ASSUME NEW s \in Sessions, NEW t \in Sessions, s # t
        PROVE  pending'[s] \cap pending'[t] = {}
    BY <1>1, <1>2, <2>2 DEF DotnetInv, PendingDiscipline, ReferenceFree
  <2>3. ASSUME NEW s \in Sessions, NEW k \in pending'[s]
        PROVE  ~Committed(k)'
    BY <1>1, <1>2, <2>3 DEF DotnetInv, PendingDiscipline, ReferenceFree, Committed
  <2>4. QED
    BY <2>1, <2>2, <2>3 DEF PendingDiscipline
<1>9. NonNegative'
  BY DEF DotnetInv, NonNegative
<1>10. QED
  BY <1>3, <1>4, <1>5, <1>6, <1>7, <1>8, <1>9 DEF DotnetInv

\* The legs of a well-formed payload.
LEMMA LegsOfPayload ==
  ASSUME NEW p \in Payload, WellFormed(p)
  PROVE  /\ DOMAIN Legs(p) = Rows(p)
         /\ Rows(p) \subseteq Wallets
         /\ p.amount \in 1 .. MaxBalance
         /\ \A w \in Rows(p) :
              \/ Legs(p)[w] = p.amount
              \/ /\ Legs(p)[w] = -p.amount
                 /\ p.type # "DEPOSIT" /\ w = p.from
<1>1. p.amount \in 1 .. MaxBalance
  BY StoreAssumption DEF Payload, WellFormed
<1>2. CASE p.type = "DEPOSIT"
  BY <1>1, <1>2 DEF WellFormed, Legs, DepositLegs, Rows
<1>3. CASE p.type = "WITHDRAWAL"
  BY <1>1, <1>3 DEF WellFormed, Legs, WithdrawLegs, Rows
<1>4. CASE p.type = "TRANSFER"
  BY <1>1, <1>4 DEF WellFormed, Legs, TransferLegs, Rows
<1>5. QED
  BY <1>2, <1>3, <1>4 DEF Payload, Types

\* What a request about to post writes: whole numbers within their columns,
\* and no negative balance.
LEMMA PostedNumbers ==
  ASSUME DotnetInv, NEW r \in Requests, pc[r] = "post",
         ~Overflows(req[r], tracked[r]), NEW w \in Rows(req[r])
  PROVE  LET p == req[r]
             after == Result(p, tracked[r])[w]
         IN  /\ Amounts(p)[w] \in Column
             /\ after \in 0 .. MaxBalance
             /\ after % 2 = 0
             /\ tracked[r][w] \in 0 .. MaxBalance
             /\ \/ /\ Amounts(p)[w] = RoundToColumn(p.amount)
                   /\ after = RoundToColumn(tracked[r][w] + p.amount)
                \/ /\ Amounts(p)[w] = RoundToColumn(-p.amount)
                   /\ after = RoundToColumn(tracked[r][w] - p.amount)
                   /\ p.amount <= tracked[r][w]
                   /\ p.type # "DEPOSIT"
<1> DEFINE p == req[r]
           after == Result(p, tracked[r])[w]
           b == tracked[r][w]
<1>1. p \in Payload /\ WellFormed(p) /\ held[r] = Rows(p)
  BY ReqType DEF DotnetInv, RowDiscipline, Validated, InTxn
<1>2. /\ p.amount \in 1 .. MaxBalance /\ MaxBalance \in Nat
      /\ \/ Legs(p)[w] = p.amount
         \/ Legs(p)[w] = -p.amount /\ p.type # "DEPOSIT" /\ w = p.from
  BY <1>1, LegsOfPayload, StoreAssumption
<1>3. b \in 0 .. MaxBalance
  BY <1>1 DEF DotnetInv, Tracking
<1>4. /\ Amounts(p)[w] = RoundToColumn(Legs(p)[w])
      /\ after = RoundToColumn(b + Legs(p)[w])
      /\ ~(after > MaxBalance)
  BY DEF Amounts, Result, Overflows
<1> HIDE DEF after, b
<1>5. CASE Legs(p)[w] = p.amount
  <2>1. /\ Amounts(p)[w] = RoundToColumn(p.amount)
        /\ after = RoundToColumn(b + p.amount)
    BY <1>4, <1>5
  <2>2. after \in Nat /\ after % 2 = 0
    BY <1>2, <1>3, <2>1, Rounding
  <2>3. RoundToColumn(p.amount) \in 0 .. MaxBalance
    BY <1>2, Rounding
  <2>4. QED
    BY <1>2, <1>3, <1>4, <2>1, <2>2, <2>3 DEF Column, after, b
<1>6. CASE Legs(p)[w] = -p.amount /\ p.type # "DEPOSIT" /\ w = p.from
  <2>1. p.amount <= b
    BY <1>2, <1>3, <1>6 DEF DotnetInv, Funded, b
  <2>2. b - p.amount \in Nat /\ b + (-p.amount) = b - p.amount
    BY <1>2, <1>3, <2>1
  <2>3. /\ Amounts(p)[w] = RoundToColumn(-p.amount)
        /\ after = RoundToColumn(b - p.amount)
    BY <1>4, <1>6, <2>2
  <2>4. after \in Nat /\ after % 2 = 0
    BY <2>2, <2>3, Rounding
  <2>5. /\ RoundToColumn(p.amount) \in 0 .. MaxBalance
        /\ RoundToColumn(-p.amount) = -RoundToColumn(p.amount)
    BY <1>2, Rounding
  <2>6. QED
    BY <1>2, <1>3, <1>4, <1>6, <2>1, <2>3, <2>4, <2>5 DEF Column, after, b
<1>7. QED
  BY <1>2, <1>5, <1>6

\* What a posting commits, and that it fits its header.
LEMMA PostFits ==
  ASSUME DotnetInv, NEW r \in Requests, Post(r)
  PROVE  LET p == req[r]
             after == Result(p, tracked[r])
         IN  /\ p.key \in Keys /\ ~Committed(p.key)
             /\ p \in Payload /\ WellFormed(p) /\ held[r] = Rows(p)
             /\ HeaderOf(p) \in Header
             /\ DOMAIN Amounts(p) = Rows(p) /\ Rows(p) \subseteq Wallets
             /\ LegsFit(HeaderOf(p), Amounts(p))
             /\ \A w \in DOMAIN Amounts(p) :
                  Amounts(p)[w] \in Column /\ after[w] \in Column
             /\ Commit(r, p.key, HeaderOf(p), Amounts(p), after)
             /\ StoreTypeOK /\ StoreTypeOK'
<1> DEFINE p == req[r]
           after == Result(p, tracked[r])
<1>1. /\ p \in Payload /\ WellFormed(p) /\ held[r] = Rows(p)
      /\ p.key \in Keys /\ ~Committed(p.key) /\ r \in Sessions
  BY ReqType
     DEF Post, DotnetInv, RowDiscipline, Validated, PendingDiscipline, InTxn
<1>2. /\ p.amount \in 1 .. MaxBalance /\ Rows(p) \subseteq Wallets
      /\ RoundToColumn(p.amount) \in Nat \ {0}
      /\ RoundToColumn(-p.amount) = -RoundToColumn(p.amount)
  <2>1. p.amount \in 1 .. MaxBalance /\ Rows(p) \subseteq Wallets
    BY <1>1, LegsOfPayload
  <2>2. QED
    BY <2>1, StoreAssumption, Rounding
<1>3. HeaderOf(p) \in Header
  BY <1>1, <1>2 DEF HeaderOf, Header, Payload
<1>4. DOMAIN Amounts(p) = Rows(p)
  BY DEF Amounts
<1>5. LegsFit(HeaderOf(p), Amounts(p))
  <2> USE DEF LegsFit, HeaderOf, Amounts, Legs, WellFormed, Rows
  <2>1. CASE p.type = "DEPOSIT"
    BY <1>1, <2>1 DEF DepositLegs
  <2>2. CASE p.type = "WITHDRAWAL"
    BY <1>1, <1>2, <2>2 DEF WithdrawLegs
  <2>3. CASE p.type = "TRANSFER"
    BY <1>1, <1>2, <2>3 DEF TransferLegs
  <2>4. QED
    BY <1>1, <2>1, <2>2, <2>3 DEF Payload, Types
<1>6. ASSUME NEW w \in DOMAIN Amounts(p)
      PROVE  Amounts(p)[w] \in Column /\ after[w] \in Column
  BY <1>4, <1>6, PostedNumbers, StoreAssumption DEF Post, Column
<1>7. Commit(r, p.key, HeaderOf(p), Amounts(p), after)
  BY DEF Post
<1>8. StoreTypeOK /\ StoreTypeOK'
  <2>1. StoreTypeOK
    BY DEF DotnetInv, TypeOK
  <2> HIDE DEF p, after
  <2>2. QED
    BY <1>1, <1>2, <1>3, <1>4, <1>6, <1>7, <2>1, CommitTypes
<1>9. QED
  BY <1>1, <1>2, <1>3, <1>4, <1>5, <1>6, <1>7, <1>8

\* The COMMIT of a posting.
LEMMA PostStep ==
  ASSUME DotnetInv, NEW r \in Requests, Post(r)
  PROVE  DotnetInv'
<1> DEFINE p == req[r]
           after == Result(p, tracked[r])
<1>1. /\ p.key \in Keys /\ p \in Payload /\ held[r] = Rows(p)
      /\ DOMAIN Amounts(p) = Rows(p) /\ Rows(p) \subseteq Wallets
      /\ Commit(r, p.key, HeaderOf(p), Amounts(p), after)
      /\ StoreTypeOK'
  BY PostFits
<1>2. /\ pc' = [pc EXCEPT ![r] = "release"]
      /\ \E answer \in {"created", "error"} :
           resp' = [resp EXCEPT ![r] = answer]
      /\ Forget(r) /\ UNCHANGED <<locks, req>> /\ pc[r] = "post"
  BY DEF Post, Answer, Goto
<1>3. /\ balance' = [w \in Wallets |-> IF w \in Rows(p) THEN after[w] ELSE balance[w]]
      /\ held' = [held EXCEPT ![r] = {}]
      /\ pending' = [pending EXCEPT ![r] = {}]
      /\ \A k \in Keys : k # p.key => txn'[k] = txn[k]
  BY <1>1, StoreTypes DEF Commit, EndTransaction, DotnetInv
<1>4. /\ held \in [Sessions -> SUBSET Wallets]
      /\ pending \in [Sessions -> SUBSET Keys]
      /\ pc \in [Requests -> Steps] /\ resp \in [Requests -> Responses]
      /\ Requests \subseteq Sessions /\ r \in Sessions /\ MaxBalance \in Nat
      /\ balance \in [Wallets -> Column]
  BY StoreTypes, ReqType, StoreAssumption DEF DotnetInv
<1>5. \A w \in Rows(p) : after[w] \in 0 .. MaxBalance /\ after[w] % 2 = 0
  BY PostedNumbers DEF Post
<1> HIDE DEF after, p
<1>6. /\ DOMAIN tracked' = Requests
      /\ \A q \in Requests : q # r => tracked'[q] = tracked[q]
      /\ DOMAIN tracked'[r] = {}
  BY <1>2, ForgetEffect DEF DotnetInv, Tracking
<1>7. Tracking'
  <2>1. ASSUME NEW q \in Requests
        PROVE  /\ DOMAIN tracked'[q] \subseteq Wallets
               /\ \A w \in DOMAIN tracked'[q] : tracked'[q][w] \in 0 .. MaxBalance
               /\ held'[q] \subseteq DOMAIN tracked'[q]
               /\ req'[q].type # "TRANSFER" =>
                    /\ DOMAIN tracked'[q] \subseteq held'[q]
                    /\ \A w \in held'[q] : tracked'[q][w] = balance'[w]
    <3>1. CASE q = r
      BY <1>3, <1>4, <1>6, <3>1
    <3>2. CASE q # r
      <4>1. /\ tracked'[q] = tracked[q] /\ held'[q] = held[q] /\ req' = req
            /\ held[q] \cap Rows(p) = {} /\ held[q] \subseteq Wallets
        BY <1>1, <1>2, <1>3, <1>4, <1>6, <3>2 DEF DotnetInv, RowDiscipline
      <4>2. \A w \in held[q] : balance'[w] = balance[w]
        BY <1>3, <4>1
      <4>3. QED
        BY <4>1, <4>2 DEF DotnetInv, Tracking
    <3>3. QED
      BY <3>1, <3>2
  <2>2. QED
    BY <1>6, <2>1 DEF Tracking
<1>8. TypeOK'
  <2>1. pc' \in [Requests -> Steps] /\ resp' \in [Requests -> Responses]
    BY <1>2, <1>4 DEF Steps, Responses
  <2>2. \A q \in Requests : /\ DOMAIN tracked'[q] \subseteq Wallets
                            /\ \A w \in DOMAIN tracked'[q] : tracked'[q][w] \in Column
    BY <1>4, <1>7 DEF Tracking, Column
  <2>3. \A w \in Wallets : balance'[w] % 2 = 0
    BY <1>3, <1>5 DEF DotnetInv, TypeOK
  <2>4. QED
    BY <1>1, <1>2, <2>1, <2>2, <2>3 DEF DotnetInv, TypeOK
<1>9. RowDiscipline'
  BY <1>2, <1>3, <1>4 DEF DotnetInv, RowDiscipline, Rows, InTxn
<1>10. Validated'
  BY <1>1, <1>2, <1>4 DEF DotnetInv, Validated, WellFormed, InTxn, p
<1>11. Funded'
  BY <1>2, <1>4, <1>6 DEF DotnetInv, Funded
<1>12. PendingDiscipline'
  <2>1. ASSUME NEW q \in Requests
        PROVE  pending'[q] = IF pc'[q] = "post" THEN {req'[q].key} ELSE {}
    BY <1>2, <1>3, <1>4 DEF DotnetInv, PendingDiscipline
  <2>2. ASSUME NEW s \in Sessions, NEW t \in Sessions, s # t
        PROVE  pending'[s] \cap pending'[t] = {}
    BY <1>3, <1>4, <2>2 DEF DotnetInv, PendingDiscipline
  <2>3. ASSUME NEW s \in Sessions, NEW k \in pending'[s]
        PROVE  ~Committed(k)'
    <3>1. s # r /\ k \in pending[s] /\ k \in Keys
      BY <1>3, <1>4, <2>3
    <3>2. pending[r] = {p.key} /\ k # p.key
      BY <1>2, <1>4, <3>1 DEF DotnetInv, PendingDiscipline, p
    <3>3. QED
      BY <1>3, <3>1, <3>2 DEF DotnetInv, PendingDiscipline, Committed
  <2>4. QED
    BY <2>1, <2>2, <2>3 DEF PendingDiscipline
<1>13. NonNegative'
  BY <1>3, <1>4, <1>5 DEF DotnetInv, NonNegative
<1>14. QED
  BY <1>7, <1>8, <1>9, <1>10, <1>11, <1>12, <1>13 DEF DotnetInv

-----------------------------------------------------------------------------
(* Every step preserves the invariant.                                     *)

\* The statements before the transaction, the end of the request, and what
\* fails there.
LEMMA HandlerSteps ==
  ASSUME DotnetInv, NEW r \in Requests,
         \/ MissingKey(r) \/ Hit(r) \/ Miss(r)
         \/ AcquireLock(r) \/ Conflict(r)
         \/ PassValidation(r) \/ TrackSource(r) \/ FailValidation(r)
         \/ TrackDestination(r) \/ FailTransfer(r)
         \/ Release(r) \/ FailBefore(r) \/ FailRelease(r)
  PROVE  DotnetInv'
<1> USE DEF Goto, Answer, InTxn, Steps, Responses
<1>1. /\ resp \in [Requests -> Responses] /\ locks \subseteq Keys
      /\ pc[r] \notin {"lookup", "done"} => req[r].key \in Keys
  BY DEF DotnetInv, TypeOK, Validated
<1>2. CASE MissingKey(r)
  BY <1>1, <1>2, LocalStep, TrackKept DEF MissingKey
<1>3. CASE Hit(r)
  BY <1>1, <1>3, LocalStep, TrackKept DEF Hit
<1>4. CASE Miss(r)
  BY <1>1, <1>4, LocalStep, TrackKept DEF Miss
<1>5. CASE AcquireLock(r)
  BY <1>1, <1>5, LocalStep, TrackKept DEF AcquireLock
<1>6. CASE Conflict(r)
  BY <1>1, <1>6, LocalStep, TrackKept DEF Conflict
<1>7. CASE PassValidation(r)
  <2>1. WellFormed(req[r])
    BY <1>7, ReqType, ApiAssumption
       DEF PassValidation, ValidFirst, OwnWallet, WellFormed, DotnetInv
  <2>2. QED
    BY <1>1, <1>7, <2>1, LocalStep, TrackKept DEF PassValidation
<1>8. CASE TrackSource(r)
  <2>1. req[r].type = "TRANSFER" /\ req[r].from \in Wallets /\ req[r].from # req[r].to
    BY <1>8 DEF TrackSource, ValidFirst, OwnWallet
  <2>2. Tracking' /\ \A q \in Requests : q # r => tracked'[q] = tracked[q]
    BY <1>8, <2>1, TrackTransfer DEF TrackSource
  <2>3. QED
    BY <1>1, <1>8, <2>1, <2>2, LocalStep DEF TrackSource
<1>9. CASE FailValidation(r)
  BY <1>1, <1>9, LocalStep, TrackKept DEF FailValidation
<1>10. CASE TrackDestination(r)
  <2>1. /\ req[r].type = "TRANSFER" /\ req[r].to \in Wallets
        /\ WellFormed(req[r])
    BY <1>10
       DEF TrackDestination, ValidTransfer, WellFormed, DotnetInv, Validated
  <2>2. Tracking' /\ \A q \in Requests : q # r => tracked'[q] = tracked[q]
    BY <1>10, <2>1, TrackTransfer DEF TrackDestination
  <2>3. QED
    BY <1>1, <1>10, <2>1, <2>2, LocalStep DEF TrackDestination
<1>11. CASE FailTransfer(r)
  <2>1. pc[r] = "destination" /\ held[r] = {} /\ UNCHANGED <<storeVars, req>>
    BY <1>11 DEF FailTransfer, DotnetInv, RowDiscipline
  <2>2. Tracking' /\ \A q \in Requests : q # r => tracked'[q] = tracked[q]
    BY <1>11, <2>1, TrackForgotten DEF FailTransfer, storeVars
  <2>3. QED
    BY <1>1, <1>11, <2>1, <2>2, LocalStep DEF FailTransfer
<1>12. CASE Release(r)
  <2>1. pc[r] = "release" /\ held[r] = {} /\ UNCHANGED <<storeVars, req>>
    BY <1>12 DEF Release, DotnetInv, RowDiscipline
  <2>2. Tracking' /\ \A q \in Requests : q # r => tracked'[q] = tracked[q]
    BY <1>12, <2>1, TrackForgotten DEF Release, storeVars
  <2>3. QED
    BY <1>1, <1>12, <2>1, <2>2, LocalStep DEF Release
<1>13. CASE FailBefore(r)
  <2>1. locks' \subseteq Keys
    <3>1. pc[r] = "acquire" => req[r].key \in Keys
      BY <1>1
    <3>2. QED
      BY <1>1, <1>13, <3>1 DEF FailBefore
  <2>2. QED
    BY <1>1, <1>13, <2>1, LocalStep, TrackKept DEF FailBefore
<1>14. CASE FailRelease(r)
  <2>1. pc[r] = "release" /\ held[r] = {} /\ UNCHANGED <<storeVars, req>>
    BY <1>14 DEF FailRelease, DotnetInv, RowDiscipline
  <2>2. Tracking' /\ \A q \in Requests : q # r => tracked'[q] = tracked[q]
    BY <1>14, <2>1, TrackForgotten DEF FailRelease, storeVars
  <2>3. QED
    BY <1>1, <1>14, <2>1, <2>2, LocalStep DEF FailRelease
<1>15. QED
  BY <1>2, <1>3, <1>4, <1>5, <1>6, <1>7, <1>8, <1>9, <1>10, <1>11, <1>12,
     <1>13, <1>14

\* The funds check under the locks.
LEMMA AcceptStep ==
  ASSUME DotnetInv, NEW r \in Requests, Accept(r)
  PROVE  DotnetInv'
<1>1. /\ held[r] = Rows(req[r])
      /\ req[r].type # "DEPOSIT" => ~(tracked[r][req[r].from] < req[r].amount)
  BY DEF Accept, Refused
<1>2. WellFormed(req[r]) /\ req[r].key \in Keys /\ req[r] \in Payload
  BY ReqType DEF Accept, DotnetInv, Validated, InTxn
<1>3. tracked[r][req[r].from] \in Int /\ req[r].amount \in Int
  <2>1. req[r].from \in DOMAIN tracked[r]
    BY <1>1 DEF DotnetInv, Tracking, Rows
  <2>2. QED
    BY <1>2, <2>1, StoreAssumption DEF DotnetInv, Tracking, Payload
<1>4. req[r].type # "DEPOSIT" => tracked[r][req[r].from] >= req[r].amount
  BY <1>1, <1>3
<1>5. QED
  BY <1>1, <1>2, <1>4, LocalStep, TrackKept
     DEF Accept, Goto, Steps, InTxn, DotnetInv, TypeOK

\* The ways a transaction ends without posting.
LEMMA RollbackSteps ==
  ASSUME DotnetInv, NEW r \in Requests,
         Refuse(r) \/ DuplicateHeader(r) \/ Overflow(r) \/ FailInside(r) \/ Crash(r)
  PROVE  DotnetInv'
<1> USE DEF Goto, Answer, Responses
<1>1. /\ resp \in [Requests -> Responses] /\ locks \subseteq Keys
      /\ pc[r] \notin {"lookup", "done"} => req[r].key \in Keys
  BY DEF DotnetInv, TypeOK, Validated
<1>2. CASE Refuse(r)
  BY <1>1, <1>2, RollbackStep DEF Refuse
<1>3. CASE DuplicateHeader(r)
  BY <1>1, <1>3, RollbackStep DEF DuplicateHeader
<1>4. CASE Overflow(r)
  BY <1>1, <1>4, RollbackStep DEF Overflow
<1>5. CASE FailInside(r)
  BY <1>1, <1>5, RollbackStep DEF FailInside
<1>6. CASE Crash(r)
  BY <1>1, <1>6, RollbackStep DEF Crash
<1>7. QED
  BY <1>2, <1>3, <1>4, <1>5, <1>6

\* Steps that change none of the variables of the invariant but the locks.
LEMMA FrameStep ==
  ASSUME DotnetInv, UNCHANGED <<storeVars, req, pc, resp, tracked>>,
         locks' \subseteq Keys
  PROVE  DotnetInv'
<1> USE DEF storeVars
<1>1. TypeOK' /\ NonNegative'
  BY DEF DotnetInv, TypeOK, StoreTypeOK, NonNegative
<1>2. RowDiscipline' /\ Tracking' /\ Funded'
  BY DEF DotnetInv, RowDiscipline, Tracking, Funded, Rows
<1>3. Validated' /\ PendingDiscipline'
  BY DEF DotnetInv, Validated, WellFormed, PendingDiscipline, Committed
<1>4. QED
  BY <1>1, <1>2, <1>3 DEF DotnetInv

LEMMA NextInv == DotnetInv /\ [Next]_vars => DotnetInv'
<1> SUFFICES ASSUME DotnetInv, [Next]_vars PROVE DotnetInv'
  OBVIOUS
<1>1. ASSUME NEW r \in Requests, Step(r) PROVE DotnetInv'
  BY <1>1, HandlerSteps, LockRowStep, AcceptStep, InsertHeaderStep, PostStep,
     RollbackSteps
     DEF Step
<1>2. ASSUME NEW r \in Requests, Fail(r) PROVE DotnetInv'
  BY <1>2, HandlerSteps, RollbackSteps DEF Fail
<1>3. locks \subseteq Keys
  BY DEF DotnetInv, TypeOK
<1>4. ASSUME NEW k \in Keys, Expire(k) PROVE DotnetInv'
  BY <1>3, <1>4, FrameStep DEF Expire
<1>5. CASE UNCHANGED vars
  BY <1>3, <1>5, FrameStep DEF vars, storeVars
<1>6. QED
  BY <1>1, <1>2, <1>4, <1>5 DEF Next, Quiescent

LEMMA InvariantHolds == Spec => []DotnetInv
BY InitInv, NextInv, PTL DEF Spec

\* Every variable keeps its type, and balances are whole units.
THEOREM DotnetTypes == Spec => []TypeOK
BY InvariantHolds, PTL DEF DotnetInv

\* Stale balances and rounding lose money, but nothing overdraws a wallet: the
\* funds check and the write use the same balance.
THEOREM DotnetNeverOverdrawn == Spec => []NonNegative
BY InvariantHolds, PTL DEF DotnetInv

-----------------------------------------------------------------------------
(* Headers, entries and chains.                                            *)

\* Only postings change the tables.
LEMMA OtherStepsKeepTables ==
  ASSUME [Next]_vars, ~\E r \in Requests : Post(r)
  PROVE  UNCHANGED <<balance, txn, ledger>>
<1> USE DEF storeVars, Rollback
<1>1. ASSUME NEW r \in Requests, Step(r)
      PROVE  UNCHANGED <<balance, txn, ledger>>
  BY <1>1
     DEF Step, MissingKey, Hit, Miss, AcquireLock, Conflict, PassValidation,
         TrackSource, FailValidation, TrackDestination, FailTransfer, LockRow,
         Refuse, Accept, InsertHeader, DuplicateHeader, Overflow, Release
<1>2. ASSUME NEW r \in Requests, Fail(r)
      PROVE  UNCHANGED <<balance, txn, ledger>>
  BY <1>2 DEF Fail, FailBefore, FailInside, FailRelease, Crash
<1>3. ASSUME NEW k \in Keys, Expire(k)
      PROVE  UNCHANGED <<balance, txn, ledger>>
  BY <1>3 DEF Expire
<1>4. QED
  BY <1>1, <1>2, <1>3 DEF Next, Quiescent, vars

LEMMA MatchesStep ==
  ASSUME DotnetInv, LedgerMatchesTxns, [Next]_vars
  PROVE  LedgerMatchesTxns'
<1>1. CASE ~\E r \in Requests : Post(r)
  BY <1>1, OtherStepsKeepTables, KeepsBooks
<1>2. ASSUME NEW r \in Requests, Post(r)
      PROVE  LedgerMatchesTxns'
  BY <1>2, PostFits, CommitBooks
<1>3. QED
  BY <1>1, <1>2

\* Double entry, in the numbers the columns hold.
THEOREM DotnetDoubleEntry == Spec => []LedgerMatchesTxns
<1>1. Init => LedgerMatchesTxns
  BY EmptyBooks DEF Init
<1>2. DotnetInv /\ LedgerMatchesTxns /\ [Next]_vars => LedgerMatchesTxns'
  BY MatchesStep
<1>3. QED
  BY <1>1, <1>2, InvariantHolds, PTL DEF Spec

WholeWithdrawals ==
  \A p \in Payloads : p.type = "WITHDRAWAL" => p.amount % 2 = 0

\* A deposit, or a withdrawal of whole units, reads the balance under the lock.
LEMMA FreshNumbers ==
  ASSUME WholeWithdrawals, DotnetInv, NEW r \in Requests, pc[r] = "post",
         ~Overflows(req[r], tracked[r]), NEW w \in Rows(req[r]),
         req[r].type # "TRANSFER"
  PROVE  Result(req[r], tracked[r])[w] = balance[w] + Amounts(req[r])[w]
<1> DEFINE p == req[r]
           after == Result(p, tracked[r])[w]
<1>1. /\ p \in Payload /\ p \in Payloads /\ WellFormed(p) /\ held[r] = Rows(p)
  BY ReqType DEF DotnetInv, RowDiscipline, Validated, InTxn
<1>2. /\ tracked[r][w] = balance[w] /\ w \in Wallets
      /\ balance[w] % 2 = 0 /\ p.amount \in 1 .. MaxBalance /\ MaxBalance \in Nat
  BY <1>1, LegsOfPayload, StoreAssumption DEF DotnetInv, Tracking, TypeOK
<1>3. /\ tracked[r][w] \in 0 .. MaxBalance
      /\ \/ /\ Amounts(p)[w] = RoundToColumn(p.amount)
            /\ after = RoundToColumn(tracked[r][w] + p.amount)
         \/ /\ Amounts(p)[w] = RoundToColumn(-p.amount)
            /\ after = RoundToColumn(tracked[r][w] - p.amount)
            /\ p.amount <= tracked[r][w]
            /\ p.type # "DEPOSIT"
  BY PostedNumbers
<1>4. p.type # "DEPOSIT" => p.amount % 2 = 0
  BY <1>1 DEF WholeWithdrawals, Payload, Types
<1> HIDE DEF after, p
<1>5. ASSUME NEW b, b = balance[w], NEW x, x = p.amount
      PROVE  after = b + Amounts(p)[w]
  <2>1. b \in Nat /\ b % 2 = 0 /\ x \in Nat /\ tracked[r][w] = b
    BY <1>2, <1>3, <1>5
  <2>2. CASE Amounts(p)[w] = RoundToColumn(x) /\ after = RoundToColumn(b + x)
    BY <2>1, <2>2, RoundingAdds
  <2>3. CASE /\ Amounts(p)[w] = RoundToColumn(-x)
             /\ after = RoundToColumn(b - x)
             /\ x <= b /\ x % 2 = 0
    BY <2>1, <2>3, RoundingAdds
  <2>4. QED
    BY <1>3, <1>4, <1>5, <2>1, <2>2, <2>3
<1>6. QED
  BY <1>5 DEF after, p

LEMMA ChainStep ==
  ASSUME WholeWithdrawals, DotnetInv, LedgerMatchesTxns, FreshPostingsChain,
         [Next]_vars
  PROVE  FreshPostingsChain'
<1>1. CASE ~\E r \in Requests : Post(r)
  BY <1>1, OtherStepsKeepTables DEF FreshPostingsChain, PreviousAfter
<1>2. ASSUME NEW r \in Requests, Post(r), NEW w \in Wallets
      PROVE  /\ \A i \in 1 .. Len(ledger'[w]) :
                  txn'[ledger'[w][i].ref].type # "TRANSFER" =>
                    ledger'[w][i].after
                      = PreviousAfter(w, i)' + ledger'[w][i].amount
             /\ balance'[w] = PreviousAfter(w, Len(ledger[w]) + 1)'
  <2> DEFINE p == req[r]
  <2>1. PICK n : n = Len(ledger[w])
    OBVIOUS
  <2>2. /\ p.key \in Keys /\ ~Committed(p.key) /\ DOMAIN Amounts(p) = Rows(p)
        /\ Commit(r, p.key, HeaderOf(p), Amounts(p), Result(p, tracked[r]))
        /\ ledger \in [Wallets -> Seq(Entry)]
        /\ txn \in [Keys -> Header \cup {NoTxn}]
    BY <1>2, PostFits, StoreTypes DEF DotnetInv
  <2>3. /\ n \in Nat
        /\ \A i \in 1 .. n : ledger'[w][i] = ledger[w][i]
        /\ w \notin Rows(p) => Len(ledger'[w]) = n
        /\ w \in Rows(p) =>
             /\ Len(ledger'[w]) = n + 1
             /\ ledger'[w][n + 1].ref = p.key
             /\ ledger'[w][n + 1].amount = Amounts(p)[w]
             /\ ledger'[w][n + 1].after = Result(p, tracked[r])[w]
    BY <2>1, <2>2, CommitEntries
  <2>4. /\ balance'[w] = IF w \in Rows(p) THEN Result(p, tracked[r])[w] ELSE balance[w]
        /\ \A k \in Keys : k # p.key => txn'[k] = txn[k]
        /\ txn'[p.key].type = p.type
    BY <2>2 DEF Commit, HeaderOf
  <2>5. \A i \in 1 .. n + 1 : PreviousAfter(w, i)' = PreviousAfter(w, i)
    BY <2>3 DEF PreviousAfter
  <2>6. /\ \A i \in 1 .. n :
             txn[ledger[w][i].ref].type # "TRANSFER" =>
               ledger[w][i].after = PreviousAfter(w, i) + ledger[w][i].amount
        /\ balance[w] = PreviousAfter(w, n + 1)
    BY <2>1 DEF FreshPostingsChain
  <2>7. ASSUME NEW i \in 1 .. n
        PROVE  txn'[ledger'[w][i].ref] = txn[ledger[w][i].ref]
    <3>1. ledger[w] \in Seq(Entry) /\ ledger[w][i] \in Entry
      BY <2>1, <2>2
    <3>2. <<w, i>> \in EntriesOf(ledger[w][i].ref)
      BY <2>1, <2>2, EntriesOfKey
    <3>3. EntriesOf(p.key) = {}
      BY <2>2 DEF LedgerMatchesTxns, Booked
    <3>4. ledger[w][i].ref \in Keys /\ ledger[w][i].ref # p.key
      BY <3>1, <3>2, <3>3 DEF Entry
    <3>5. QED
      BY <2>3, <2>4, <3>4
  <2>8. (w \in Rows(p) /\ p.type # "TRANSFER")
          => Result(p, tracked[r])[w] = balance[w] + Amounts(p)[w]
    BY <1>2, FreshNumbers DEF Post
  <2> HIDE DEF p
  <2>9. ASSUME NEW i \in 1 .. Len(ledger'[w]),
               txn'[ledger'[w][i].ref].type # "TRANSFER"
        PROVE  ledger'[w][i].after = PreviousAfter(w, i)' + ledger'[w][i].amount
    <3>1. CASE i \in 1 .. n
      <4>1. i \in 1 .. n + 1 /\ ledger'[w][i] = ledger[w][i]
        BY <2>3, <3>1
      <4>2. QED
        BY <2>5, <2>6, <2>7, <2>9, <3>1, <4>1
    <3>2. CASE i \notin 1 .. n
      <4>1. w \in Rows(p) /\ i = n + 1
        BY <2>3, <2>9, <3>2
      <4>2. n + 1 \in 1 .. n + 1
        BY <2>3
      <4>3. QED
        BY <2>3, <2>4, <2>5, <2>6, <2>8, <2>9, <4>1, <4>2
    <3>3. QED
      BY <3>1, <3>2
  <2>10. balance'[w] = PreviousAfter(w, Len(ledger[w]) + 1)'
    <3>1. CASE w \in Rows(p)
      BY <2>3, <2>4, <3>1 DEF PreviousAfter
    <3>2. CASE w \notin Rows(p)
      <4>1. n + 1 \in 1 .. n + 1
        BY <2>3
      <4>2. PreviousAfter(w, Len(ledger[w]) + 1)' = PreviousAfter(w, n + 1)'
        BY <2>3, <3>2
      <4>3. QED
        BY <2>4, <2>5, <2>6, <3>2, <4>1, <4>2
    <3>3. QED
      BY <3>1, <3>2
  <2>11. QED
    BY <2>9, <2>10
<1>3. QED
  BY <1>1, <1>2 DEF FreshPostingsChain

\* While clients withdraw whole units only, the entries of deposits and
\* withdrawals continue from the entry before them, however stale the transfers
\* between them are, and the balance is what the last entry says.
THEOREM FreshPostingsStayFresh ==
  ASSUME WholeWithdrawals PROVE Spec => []FreshPostingsChain
<1>1. Init => FreshPostingsChain
  BY DEF Init, StoreInit, FreshPostingsChain, PreviousAfter
<1>2. DotnetInv /\ LedgerMatchesTxns /\ FreshPostingsChain /\ [Next]_vars
        => FreshPostingsChain'
  BY ChainStep
<1>3. QED
  BY <1>1, <1>2, DotnetDoubleEntry, InvariantHolds, PTL DEF Spec

-----------------------------------------------------------------------------
(* Waiting.                                                                *)

\* Rows are locked in the order of their ids.
LockOrder ==
  \A r \in Requests : \A h \in held[r], m \in Missing(r) : h < m

\* Row locks are taken one by one and given up together.
LEMMA HeldChanges ==
  ASSUME [Next]_vars
  PROVE  /\ req' = req
         /\ \/ held' = held
            \/ \E r \in Requests : held' = [held EXCEPT ![r] = {}]
            \/ \E r \in Requests, w \in Wallets : LockRow(r, w)
<1> USE DEF storeVars, Rollback, EndTransaction
<1>1. ASSUME NEW r \in Requests, Step(r)
      PROVE  /\ req' = req
             /\ \/ held' = held
                \/ held' = [held EXCEPT ![r] = {}]
                \/ \E w \in Wallets : LockRow(r, w)
  <2>1. CASE \E w \in Wallets : LockRow(r, w)
    BY <2>1 DEF LockRow
  <2>2. CASE Refuse(r) \/ DuplicateHeader(r) \/ Post(r) \/ Overflow(r)
    BY <2>2 DEF Refuse, DuplicateHeader, Post, Commit, Overflow
  <2>3. CASE \/ MissingKey(r) \/ Hit(r) \/ Miss(r)
             \/ AcquireLock(r) \/ Conflict(r)
             \/ PassValidation(r) \/ TrackSource(r) \/ FailValidation(r)
             \/ TrackDestination(r) \/ FailTransfer(r)
             \/ Accept(r) \/ InsertHeader(r) \/ Release(r)
    BY <2>3
       DEF MissingKey, Hit, Miss, AcquireLock, Conflict, PassValidation,
           TrackSource, FailValidation, TrackDestination, FailTransfer,
           Accept, InsertHeader, Release
  <2>4. QED
    BY <1>1, <2>1, <2>2, <2>3 DEF Step
<1>2. ASSUME NEW r \in Requests, Fail(r)
      PROVE  req' = req /\ (held' = held \/ held' = [held EXCEPT ![r] = {}])
  BY <1>2 DEF Fail, FailBefore, FailInside, FailRelease, Crash
<1>3. ASSUME NEW k \in Keys, Expire(k)
      PROVE  req' = req /\ held' = held
  BY <1>3 DEF Expire
<1>4. QED
  BY <1>1, <1>2, <1>3 DEF Next, Quiescent, vars

LEMMA LockOrderStep ==
  ASSUME DotnetInv, LockOrder, [Next]_vars
  PROVE  LockOrder'
<1>1. /\ held \in [Sessions -> SUBSET Wallets]
      /\ Requests \subseteq Sessions
      /\ Wallets \subseteq Nat
  BY ApiAssumption, StoreAssumption DEF DotnetInv, TypeOK, StoreTypeOK
<1>2. req' = req
  BY HeldChanges
<1>3. CASE held' = held
  BY <1>2, <1>3 DEF LockOrder, Missing
<1>4. ASSUME NEW r \in Requests, held' = [held EXCEPT ![r] = {}]
      PROVE  LockOrder'
  BY <1>1, <1>2, <1>4 DEF LockOrder, Missing
<1>5. ASSUME NEW r \in Requests, NEW w \in Wallets, LockRow(r, w)
      PROVE  LockOrder'
  <2>1. /\ held' = [held EXCEPT ![r] = @ \cup {w}]
        /\ w \in Missing(r) /\ \A v \in Missing(r) : w <= v
    BY <1>5 DEF LockRow, TakeRow, NextRow
  <2>2. ASSUME NEW q \in Requests, NEW h \in held'[q], NEW m \in Missing(q)'
        PROVE  h < m
    <3>1. CASE q # r
      BY <1>1, <1>2, <2>1, <2>2, <3>1 DEF LockOrder, Missing
    <3>2. CASE q = r
      <4>1. m \in Missing(r) /\ m # w /\ m \in Nat /\ w \in Nat
        BY <1>1, <1>2, <2>1, <2>2, <3>2 DEF Missing
      <4>2. h = w \/ h \in held[r]
        BY <1>1, <2>1, <2>2, <3>2
      <4>3. QED
        BY <2>1, <4>1, <4>2 DEF LockOrder
    <3>3. QED
      BY <3>1, <3>2
  <2>3. QED
    BY <2>2 DEF LockOrder
<1>6. QED
  BY <1>3, <1>4, <1>5, HeldChanges

\* Whoever waits for a reference holds all its rows and waits for a request
\* that waits for nothing; and around a circle of row waits the ids of the
\* rows would increase for ever.
LEMMA OrderPreventsCycles ==
  ASSUME DotnetInv, LockOrder
  PROVE  NoWaitCycle
<1> SUFFICES ASSUME NEW S \in SUBSET Requests, S # {},
                    \A r \in S : \E s \in S : WaitsFor(r, s)
             PROVE  FALSE
  BY DEF NoWaitCycle
<1>1. ASSUME NEW r \in S
      PROVE  \E s \in S : \E w \in held[s] : NextRow(r, w)
  <2>1. PICK s \in S : WaitsFor(r, s)
    OBVIOUS
  <2>2. PICK t \in S : WaitsFor(s, t)
    OBVIOUS
  <2>3. pc[s] # "post"
    BY <2>2 DEF WaitsFor
  <2>4. pending[s] = {}
    BY <2>3 DEF DotnetInv, PendingDiscipline
  <2>5. QED
    BY <2>1, <2>4 DEF WaitsFor
<1> DEFINE W == {w \in Wallets : \E r, s \in S : w \in held[s] /\ NextRow(r, w)}
<1>2. W # {} /\ W \subseteq Nat /\ IsFiniteSet(W)
  <2>1. W # {}
    BY <1>1 DEF NextRow, Missing
  <2>2. W \subseteq Wallets
    OBVIOUS
  <2> HIDE DEF W
  <2>3. QED
    BY <2>1, <2>2, StoreAssumption, FS_Subset
<1>3. PICK m \in W : \A x \in W : x <= m
  <2> HIDE DEF W
  <2>1. QED
    BY <1>2, GreatestElement
<1>4. PICK s \in S : m \in held[s]
  BY <1>3
<1>5. PICK t \in S : \E w \in held[t] : NextRow(s, w)
  BY <1>1
<1>6. PICK w \in held[t] : NextRow(s, w)
  BY <1>5
<1>7. w \in W /\ m < w
  BY <1>4, <1>6 DEF NextRow, Missing, LockOrder
<1>8. QED
  BY <1>2, <1>3, <1>7

\* A transfer reads its wallets before it locks them, but it locks them in the
\* order of their ids: no requests wait for each other in a circle.
THEOREM DotnetNoDeadlock == Spec => []NoWaitCycle
<1>1. Init => LockOrder
  BY ApiAssumption DEF Init, StoreInit, LockOrder
<1>2. DotnetInv /\ LockOrder /\ [Next]_vars => LockOrder'
  BY LockOrderStep
<1>3. DotnetInv /\ LockOrder => NoWaitCycle
  BY OrderPreventsCycles
<1>4. QED
  BY <1>1, <1>2, <1>3, InvariantHolds, PTL DEF Spec

-----------------------------------------------------------------------------
(* Answers.                                                                *)

Settled(r) == req[r].key \in Keys /\ Committed(req[r].key)

\* A request is answered once, at the end, and 201 comes with the COMMIT.
AnswerDiscipline ==
  \A r \in Requests :
    /\ pc[r] \notin {"release", "done"} => resp[r] = "none"
    /\ resp[r] \in {"created", "hit"} => Settled(r)

\* How a step that posts nothing changes the answer of a request.
LEMMA OtherAnswers ==
  ASSUME DotnetInv, AnswerDiscipline, [Next]_vars, ~\E r \in Requests : Post(r),
         NEW q \in Requests
  PROVE  /\ \/ resp'[q] = resp[q]
            \/ resp[q] = "none" /\ resp'[q] \in {"rejected", "conflict", "error"}
            \/ resp[q] = "none" /\ resp'[q] = "hit" /\ Settled(q)
            \/ resp'[q] \in {"error", "lost"}
         /\ pc'[q] \notin {"release", "done"} => resp'[q] = "none"
<1> DEFINE Answered(r, s) ==
      /\ pc' = [pc EXCEPT ![r] = s]
      /\ \/ resp' = resp /\ (s \notin {"release", "done"} => resp[r] = "none")
         \/ /\ s \in {"release", "done"} /\ resp[r] = "none"
            /\ \/ \E a \in {"rejected", "conflict", "error"} :
                    resp' = [resp EXCEPT ![r] = a]
               \/ resp' = [resp EXCEPT ![r] = "hit"] /\ Settled(r)
         \/ /\ s = "done"
            /\ \E a \in {"error", "lost"} : resp' = [resp EXCEPT ![r] = a]
<1> USE DEF Goto, Answer
<1>1. /\ pc \in [Requests -> Steps] /\ resp \in [Requests -> Responses]
  BY DEF DotnetInv, TypeOK
<1>2. ASSUME NEW r \in Requests, Step(r)
      PROVE  (pc' = pc /\ resp' = resp) \/ \E s : Answered(r, s)
  <2>1. pc[r] \notin {"release", "done"} => resp[r] = "none"
    BY DEF AnswerDiscipline
  <2>2. CASE MissingKey(r) \/ Hit(r) \/ Conflict(r)
    BY <2>1, <2>2 DEF MissingKey, Hit, Conflict, Settled
  <2>3. CASE FailValidation(r) \/ Refuse(r) \/ DuplicateHeader(r) \/ Overflow(r)
    BY <2>1, <2>3 DEF FailValidation, Refuse, DuplicateHeader, Overflow
  <2>4. CASE \/ Miss(r) \/ AcquireLock(r) \/ PassValidation(r) \/ TrackSource(r)
             \/ TrackDestination(r) \/ FailTransfer(r)
             \/ Accept(r) \/ InsertHeader(r)
    BY <2>1, <2>4 DEF Miss, AcquireLock, PassValidation, TrackSource,
                      TrackDestination, FailTransfer, Accept, InsertHeader
  <2>5. CASE Release(r) \/ \E w \in Wallets : LockRow(r, w)
    BY <2>1, <2>5 DEF Release, LockRow
  <2>6. QED
    BY <1>2, <2>2, <2>3, <2>4, <2>5 DEF Step
<1>3. ASSUME NEW r \in Requests, Fail(r)
      PROVE  \E s : Answered(r, s)
  <2>1. pc[r] \notin {"release", "done"} => resp[r] = "none"
    BY DEF AnswerDiscipline
  <2>2. CASE FailInside(r)
    BY <2>1, <2>2 DEF FailInside
  <2>3. CASE FailBefore(r) \/ FailRelease(r) \/ Crash(r)
    BY <2>3 DEF FailBefore, FailRelease, Crash
  <2>4. QED
    BY <1>3, <2>2, <2>3 DEF Fail
<1>4. CASE pc' = pc /\ resp' = resp
  BY <1>4 DEF AnswerDiscipline
<1>5. ASSUME NEW r \in Requests, NEW s, Answered(r, s)
      PROVE  /\ \/ resp'[q] = resp[q]
                \/ /\ resp[q] = "none"
                   /\ resp'[q] \in {"rejected", "conflict", "error"}
                \/ resp[q] = "none" /\ resp'[q] = "hit" /\ Settled(q)
                \/ resp'[q] \in {"error", "lost"}
             /\ pc'[q] \notin {"release", "done"} => resp'[q] = "none"
  BY <1>1, <1>5 DEF AnswerDiscipline
<1> HIDE DEF Answered
<1>6. (pc' = pc /\ resp' = resp) \/ \E r \in Requests : \E s : Answered(r, s)
  BY <1>2, <1>3 DEF Next, Expire, Quiescent, vars
<1>7. QED
  BY <1>4, <1>5, <1>6

\* What a posting does to the answers: its request is told 201 or, if the COMMIT
\* is not confirmed, 500; the header is the request's, and so are the entries.
LEMMA PostAnswers ==
  ASSUME DotnetInv, LedgerMatchesTxns, NEW r \in Requests, Post(r)
  PROVE  /\ req' = req
         /\ pc' = [pc EXCEPT ![r] = "release"]
         /\ \E answer \in {"created", "error"} :
              resp' = [resp EXCEPT ![r] = answer]
         /\ req[r].key \in Keys /\ ~Committed(req[r].key)
         /\ Committed(req[r].key)'
         /\ (txn[req[r].key] = HeaderOf(req[r]))'
         /\ \A k \in Keys : k # req[r].key =>
              txn'[k] = txn[k] /\ PostedBy(k)' = PostedBy(k)
<1>1. /\ HeaderOf(req[r]) \in Header /\ req[r].key \in Keys
      /\ ~Committed(req[r].key) /\ txn \in [Keys -> Header \cup {NoTxn}]
  BY PostFits, StoreTypes DEF DotnetInv
<1>2. /\ req' = req
      /\ pc' = [pc EXCEPT ![r] = "release"]
      /\ \E answer \in {"created", "error"} :
           resp' = [resp EXCEPT ![r] = answer]
      /\ txn' = [txn EXCEPT ![req[r].key] = HeaderOf(req[r])]
  BY DEF Post, Commit, Answer, Goto
<1>3. (txn[req[r].key] = HeaderOf(req[r]))'
  BY <1>1, <1>2
<1>4. Committed(req[r].key)'
  BY <1>1, <1>2, StoreAssumption DEF Committed
<1>5. ASSUME NEW k \in Keys, k # req[r].key
      PROVE  txn'[k] = txn[k] /\ PostedBy(k)' = PostedBy(k)
  <2>1. PICK key, amounts, header, after :
               /\ key = req[r].key /\ DOMAIN amounts \subseteq Wallets
               /\ Commit(r, key, header, amounts, after)
    BY PostFits
  <2>2. /\ ledger \in [Wallets -> Seq(Entry)]
        /\ ledger' \in [Wallets -> Seq(Entry)]
    BY PostFits DEF StoreTypeOK
  <2>3. /\ EntriesOf(k)' = EntriesOf(k)
        /\ \A e \in EntriesOf(k) : AmountOf(e)' = AmountOf(e)
    BY <1>5, <2>1, <2>2, CommitEntriesOfKeys
  <2>4. QED
    BY <1>1, <1>2, <1>5, <2>3 DEF PostedBy
<1>6. QED
  BY <1>1, <1>2, <1>3, <1>4, <1>5

LEMMA PostedEntries ==
  ASSUME DotnetInv, LedgerMatchesTxns, NEW r \in Requests, Post(r),
         NEW key, key = req[r].key
  PROVE  PostedBy(key)' = LegsOf(req[r])
<1>1. LegsOf(req[r]) = PairsOf(Amounts(req[r]))
  BY DEF LegsOf, PairsOf, Amounts
<1>2. PostedBy(key)' = PairsOf(Amounts(req[r]))
  BY PostFits, CommitPairs DEF PostedBy
<1>3. QED
  BY <1>1, <1>2

LEMMA AnswersStep ==
  ASSUME DotnetInv, LedgerMatchesTxns, AnswerDiscipline, AnswersMatchStore,
         [Next]_vars
  PROVE  AnswerDiscipline' /\ AnswersMatchStore'
<1>1. req' = req
  BY HeldChanges
<1>2. \A r \in Requests : /\ HeaderOf(req[r])' = HeaderOf(req[r])
                          /\ LegsOf(req[r])' = LegsOf(req[r])
  BY <1>1
<1> USE DEF Settled
<1>3. CASE ~\E r \in Requests : Post(r)
  <2>1. UNCHANGED <<balance, txn, ledger>>
    BY <1>3, OtherStepsKeepTables
  <2>2. \A k : /\ Committed(k)' <=> Committed(k)
               /\ PostedBy(k)' = PostedBy(k) /\ txn'[k] = txn[k]
    BY <2>1 DEF Committed, PostedBy, EntriesOf, EntryIds, AmountOf
  <2>3. ASSUME NEW q \in Requests
        PROVE  /\ pc'[q] \notin {"release", "done"} => resp'[q] = "none"
               /\ resp'[q] = "created" => resp[q] = "created"
               /\ resp'[q] = "hit" => resp[q] = "hit" \/ Settled(q)
               /\ resp[q] \in {"created", "error", "lost"}
                    => resp'[q] \in {resp[q], "error", "lost"}
    BY <1>3, OtherAnswers
  <2>4. AnswerDiscipline'
    BY <1>1, <2>2, <2>3 DEF AnswerDiscipline
  <2>5. ASSUME NEW k \in Keys, Committed(k)'
        PROVE  (\E r \in Requests : /\ req[r].key = k
                                    /\ resp[r] \in {"created", "error", "lost"}
                                    /\ txn[k] = HeaderOf(req[r])
                                    /\ PostedBy(k) = LegsOf(req[r]))'
    <3>1. PICK r \in Requests : /\ req[r].key = k
                                /\ resp[r] \in {"created", "error", "lost"}
                                /\ txn[k] = HeaderOf(req[r])
                                /\ PostedBy(k) = LegsOf(req[r])
      BY <2>2, <2>5 DEF AnswersMatchStore
    <3>2. resp'[r] \in {"created", "error", "lost"}
      BY <2>3, <3>1
    <3>3. QED
      BY <1>1, <1>2, <2>2, <3>1, <3>2
  <2>6. AnswersMatchStore'
    BY <1>1, <1>2, <2>2, <2>3, <2>5 DEF AnswersMatchStore
  <2>7. QED
    BY <2>4, <2>6
<1>4. ASSUME NEW r \in Requests, Post(r)
      PROVE  AnswerDiscipline' /\ AnswersMatchStore'
  <2>1. PICK key : key = req[r].key
    OBVIOUS
  <2> PICK answer \in {"created", "error"} :
             resp' = [resp EXCEPT ![r] = answer]
    BY <1>4, PostAnswers
  <2>2. /\ pc' = [pc EXCEPT ![r] = "release"]
        /\ resp' = [resp EXCEPT ![r] = answer]
        /\ key \in Keys /\ ~Committed(key)
        /\ Committed(key)' /\ txn'[key] = HeaderOf(req[r])
        /\ PostedBy(key)' = LegsOf(req[r])
        /\ \A k \in Keys : k # key =>
             txn'[k] = txn[k] /\ PostedBy(k)' = PostedBy(k)
    BY <1>1, <1>2, <1>4, <2>1, PostAnswers, PostedEntries
       DEF Committed
  <2>3. \A k \in Keys : k # key => (Committed(k)' <=> Committed(k))
    BY <2>2 DEF Committed
  <2>4. resp \in [Requests -> Responses] /\ pc \in [Requests -> Steps]
    BY DEF DotnetInv, TypeOK
  <2>5. \A q \in Requests : resp[q] \in {"created", "hit"} => req[q].key # key
    BY <2>2 DEF AnswerDiscipline
  <2>6. AnswerDiscipline'
    BY <1>1, <2>1, <2>2, <2>3, <2>4 DEF AnswerDiscipline
  <2>7. ASSUME NEW q \in Requests
        PROVE  /\ resp'[q] = "created" => /\ txn'[req[q].key] = HeaderOf(req[q])
                                          /\ PostedBy(req[q].key)' = LegsOf(req[q])
               /\ resp'[q] = "hit" => Committed(req[q].key)'
    <3>1. CASE q = r
      BY <1>1, <2>1, <2>2, <2>4, <3>1
    <3>2. CASE q # r
      <4>1. resp'[q] = resp[q]
        BY <2>2, <2>4, <3>2
      <4>2. PICK k : k = req[q].key
        OBVIOUS
      <4>3. resp[q] \in {"created", "hit"} => k \in Keys /\ k # key
        BY <2>5, <4>2 DEF AnswerDiscipline
      <4>4. QED
        BY <1>1, <2>2, <2>3, <4>1, <4>2, <4>3 DEF AnswersMatchStore
    <3>3. QED
      BY <3>1, <3>2
  <2>8. ASSUME NEW k \in Keys, Committed(k)'
        PROVE  (\E q \in Requests : /\ req[q].key = k
                                    /\ resp[q] \in {"created", "error", "lost"}
                                    /\ txn[k] = HeaderOf(req[q])
                                    /\ PostedBy(k) = LegsOf(req[q]))'
    <3>1. CASE k = key
      BY <1>1, <1>2, <2>1, <2>2, <2>4, <3>1
    <3>2. CASE k # key
      <4>1. PICK q \in Requests : /\ req[q].key = k
                                  /\ resp[q] \in {"created", "error", "lost"}
                                  /\ txn[k] = HeaderOf(req[q])
                                  /\ PostedBy(k) = LegsOf(req[q])
        BY <2>3, <2>8, <3>2 DEF AnswersMatchStore
      <4>2. q # r
        BY <2>1, <3>2, <4>1
      <4>3. QED
        BY <1>1, <1>2, <2>2, <2>4, <3>2, <4>1, <4>2
    <3>3. QED
      BY <3>1, <3>2
  <2>9. ASSUME NEW q \in Requests, NEW s \in Requests, q # s,
               resp'[q] = "created", resp'[s] = "created"
        PROVE  req[q].key # req[s].key
    BY <2>1, <2>2, <2>4, <2>5, <2>9 DEF AnswersMatchStore
  <2>10. AnswersMatchStore'
    BY <1>1, <1>2, <2>7, <2>8, <2>9 DEF AnswersMatchStore
  <2>11. QED
    BY <2>6, <2>10
<1>5. QED
  BY <1>3, <1>4

\* A client of the .NET API is told the truth as well: 201 and HIT agree with
\* the tables, two requests with one key never both get 201, and a posting
\* belongs to a request that is told 201, 500 (CommitAsync or KeyDeleteAsync
\* failed after it) or nothing.
THEOREM DotnetAnswersAreTrue == Spec => []AnswersMatchStore
<1>1. Init => AnswerDiscipline /\ AnswersMatchStore
  BY DEF Init, StoreInit, AnswerDiscipline, AnswersMatchStore, Committed
<1>2. DotnetInv /\ LedgerMatchesTxns /\ AnswerDiscipline /\ AnswersMatchStore
        /\ [Next]_vars => AnswerDiscipline' /\ AnswersMatchStore'
  BY AnswersStep
<1>3. QED
  BY <1>1, <1>2, DotnetDoubleEntry, InvariantHolds, PTL DEF Spec

=============================================================================
