----------------------- MODULE DjangoWalletApiProofs -----------------------
(***************************************************************************)
(* Proofs about DjangoWalletApi for every set of wallets, keys, requests    *)
(* and payloads.  The invariant that carries them says what the row locks   *)
(* protect: while a request holds a row, the balance it has loaded is the    *)
(* balance in the table (LockInv).  With it: the safety of the tables, the  *)
(* refinement of Ledger, no circular waiting, double entry, true answers.   *)
(***************************************************************************)
EXTENDS DjangoWalletApi, WalletStoreProofs

IInv == TypeOK /\ LockInv /\ NonNegative /\ LedgerChains

-----------------------------------------------------------------------------
(* Facts about payloads and their legs.                                    *)

LEMMA ReqType ==
  ASSUME TypeOK, NEW r \in Requests
  PROVE  /\ req[r] \in Payload
         /\ req[r] \in Payloads
         /\ r \in Sessions
BY ApiAssumption DEF TypeOK

\* The legs of a well-formed payload touch exactly its rows, with the signed
\* amount, and only a debit makes a balance smaller.
LEMMA LegsOfPayload ==
  ASSUME NEW p \in Payload, WellFormed(p)
  PROVE  /\ DOMAIN Legs(p) = Rows(p)
         /\ Rows(p) \subseteq Wallets
         /\ \A w \in Rows(p) : /\ Legs(p)[w] \in Int
                               /\ Legs(p)[w] \in {p.amount, -p.amount}
                               /\ Legs(p)[w] < 0 => /\ p.type # "DEPOSIT"
                                                    /\ w = p.from
<1>1. p.amount \in 0 .. MaxBalance /\ p.amount > 0 /\ MaxBalance \in Nat
  BY StoreAssumption DEF Payload, WellFormed
<1>2. CASE p.type = "DEPOSIT"
  BY <1>1, <1>2 DEF WellFormed, Legs, DepositLegs, Rows
<1>3. CASE p.type = "WITHDRAWAL"
  BY <1>1, <1>3 DEF WellFormed, Legs, WithdrawLegs, Rows
<1>4. CASE p.type = "TRANSFER"
  BY <1>1, <1>4 DEF WellFormed, Legs, TransferLegs, Rows
<1>5. QED
  BY <1>2, <1>3, <1>4 DEF Payload, Types

-----------------------------------------------------------------------------
(* The initial states.                                                     *)

LEMMA InitInv == Init => IInv
<1> SUFFICES ASSUME Init PROVE IInv
  OBVIOUS
<1> USE StoreAssumption, ApiAssumption DEF Init, StoreInit
<1>1. TypeOK
  <2>1. balance \in [Wallets -> Column]
    BY DEF Column
  <2>2. ledger \in [Wallets -> Seq(Entry)]
    OBVIOUS
  <2>3. Unread \in [Wallets -> Column]
    BY DEF Unread, Column
  <2>4. QED
    BY <2>1, <2>2, <2>3 DEF TypeOK, StoreTypeOK, Steps, Responses
<1>2. LockInv
  BY DEF LockInv, RowDiscipline, Fresh, Validated, Funded, PendingDiscipline,
         InTxn, Committed
<1>3. NonNegative
  BY DEF NonNegative
<1>4. LedgerChains
  BY DEF LedgerChains, PreviousAfter
<1>5. QED
  BY <1>1, <1>2, <1>3, <1>4 DEF IInv

-----------------------------------------------------------------------------
(* Steps that leave the tables alone.                                      *)

\* A step outside a transaction, or the funds check inside one: nothing but
\* pc, resp and the Redis locks changes, and what pc promises is established.
LEMMA LocalStep ==
  ASSUME IInv, UNCHANGED <<storeVars, req, loaded>>,
         NEW r \in Requests, NEW step \in Steps,
         pc' = [pc EXCEPT ![r] = step],
         resp' \in [Requests -> Responses], locks' \subseteq Keys,
         pc[r] # "post",
         pc[r] \notin InTxn => step \notin {"insert", "post"},
         pc[r] \in InTxn => step = "insert" /\ held[r] = Rows(req[r]),
         step \notin {"lookup", "done"} => req[r].key \in Keys,
         step \in InTxn => WellFormed(req[r]),
         (step = "insert" /\ req[r].type # "DEPOSIT")
           => loaded[r][req[r].from] >= req[r].amount
  PROVE  IInv'
<1> USE DEF storeVars
<1>1. TypeOK'
  BY DEF IInv, TypeOK, StoreTypeOK
<1>2. pc \in [Requests -> Steps]
  BY DEF IInv, TypeOK
<1>3. RowDiscipline'
  BY <1>2 DEF IInv, LockInv, RowDiscipline, Rows, InTxn
<1>4. Fresh'
  BY DEF IInv, LockInv, Fresh
<1>5. Validated'
  BY <1>2 DEF IInv, LockInv, Validated, WellFormed, InTxn
<1>6. Funded'
  BY <1>2 DEF IInv, LockInv, Funded, InTxn
<1>7. PendingDiscipline'
  <2>1. step # "post"
    BY DEF InTxn
  <2>2. QED
    BY <1>2, <2>1 DEF IInv, LockInv, PendingDiscipline, Committed
<1>8. NonNegative' /\ LedgerChains'
  BY DEF IInv, NonNegative, LedgerChains, PreviousAfter
<1>9. QED
  BY <1>1, <1>3, <1>4, <1>5, <1>6, <1>7, <1>8 DEF IInv, LockInv

\* The end of a transaction without a COMMIT.
LEMMA RollbackStep ==
  ASSUME IInv, NEW r \in Requests, NEW step \in {"release", "done"},
         Rollback(r), Forget(r), UNCHANGED req,
         pc' = [pc EXCEPT ![r] = step],
         step = "release" => req[r].key \in Keys,
         resp' \in [Requests -> Responses], locks' \subseteq Keys
  PROVE  IInv'
<1> USE DEF Rollback, EndTransaction, Forget
<1>1. pc \in [Requests -> Steps] /\ r \in Sessions
  BY ReqType DEF IInv, TypeOK
<1>2. /\ held \in [Sessions -> SUBSET Wallets]
      /\ pending \in [Sessions -> SUBSET Keys]
      /\ loaded \in [Requests -> [Wallets -> Column]]
      /\ Requests \subseteq Sessions
  BY ApiAssumption DEF IInv, TypeOK, StoreTypeOK
<1>3. Unread \in [Wallets -> Column]
  BY StoreAssumption DEF Unread, Column
<1>4. TypeOK'
  <2>1. pc' \in [Requests -> Steps]
    BY <1>1 DEF Steps
  <2>2. StoreTypeOK'
    BY <1>2 DEF IInv, TypeOK, StoreTypeOK
  <2>3. loaded' \in [Requests -> [Wallets -> Column]]
    BY <1>2, <1>3
  <2>4. QED
    BY <2>1, <2>2, <2>3 DEF IInv, TypeOK
<1>5. RowDiscipline'
  BY <1>1, <1>2 DEF IInv, LockInv, RowDiscipline, Rows, InTxn
<1>6. Fresh'
  BY <1>1, <1>2 DEF IInv, LockInv, Fresh
<1>7. Validated'
  BY <1>1 DEF IInv, LockInv, Validated, WellFormed, InTxn
<1>8. Funded'
  BY <1>1, <1>2 DEF IInv, LockInv, Funded
<1>9. PendingDiscipline'
  BY <1>1, <1>2 DEF IInv, LockInv, PendingDiscipline, Committed
<1>10. NonNegative' /\ LedgerChains'
  BY DEF IInv, NonNegative, LedgerChains, PreviousAfter
<1>11. QED
  BY <1>4, <1>5, <1>6, <1>7, <1>8, <1>9, <1>10 DEF IInv, LockInv

-----------------------------------------------------------------------------
(* The statements of the transaction.                                      *)

\* SELECT ... FOR UPDATE: the row was free, and what is loaded is current.
LEMMA LockRowStep ==
  ASSUME IInv, NEW r \in Requests, NEW w \in Wallets, LockRow(r, w)
  PROVE  IInv'
<1> USE DEF LockRow, TakeRow
<1>1. pc[r] = "lock" /\ w \in Rows(req[r]) /\ r \in Sessions
  BY ReqType DEF NextRow, Missing, IInv
<1>2. /\ held \in [Sessions -> SUBSET Wallets]
      /\ balance \in [Wallets -> Column]
      /\ loaded \in [Requests -> [Wallets -> Column]]
      /\ Requests \subseteq Sessions
  BY ApiAssumption DEF IInv, TypeOK, StoreTypeOK
<1>3. TypeOK'
  BY <1>1, <1>2 DEF IInv, TypeOK, StoreTypeOK
<1>4. RowDiscipline'
  <2>1. ASSUME NEW q \in Requests
        PROVE  /\ held'[q] \subseteq Rows(req'[q])
               /\ pc'[q] \notin InTxn => held'[q] = {}
               /\ pc'[q] \in {"insert", "post"} => held'[q] = Rows(req'[q])
    BY <1>1, <1>2 DEF IInv, LockInv, RowDiscipline, Rows, InTxn
  <2>2. ASSUME NEW s \in Sessions, NEW t \in Sessions, s # t
        PROVE  held'[s] \cap held'[t] = {}
    BY <1>1, <1>2, <2>2 DEF IInv, LockInv, RowDiscipline, RowFree
  <2>3. QED
    BY <2>1, <2>2 DEF RowDiscipline
<1>5. Fresh'
  BY <1>1, <1>2 DEF IInv, LockInv, Fresh
<1>6. Validated'
  BY DEF IInv, LockInv, Validated, WellFormed
<1>7. Funded'
  BY <1>1, <1>2 DEF IInv, LockInv, Funded
<1>8. PendingDiscipline'
  BY DEF IInv, LockInv, PendingDiscipline, Committed
<1>9. NonNegative' /\ LedgerChains'
  BY DEF IInv, NonNegative, LedgerChains, PreviousAfter
<1>10. QED
  BY <1>3, <1>4, <1>5, <1>6, <1>7, <1>8, <1>9 DEF IInv, LockInv

\* INSERT of the header: the reference was neither committed nor in flight.
LEMMA InsertHeaderStep ==
  ASSUME IInv, NEW r \in Requests, InsertHeader(r)
  PROVE  IInv'
<1> USE DEF InsertHeader, InsertReference, Goto
<1>1. pc[r] = "insert" /\ r \in Sessions /\ req[r].key \in Keys
  BY ReqType DEF IInv, LockInv, Validated
<1>2. /\ pending \in [Sessions -> SUBSET Keys]
      /\ pc \in [Requests -> Steps]
      /\ Requests \subseteq Sessions
  BY ApiAssumption DEF IInv, TypeOK, StoreTypeOK
<1>3. TypeOK'
  BY <1>1, <1>2 DEF IInv, TypeOK, StoreTypeOK, Steps
<1>4. RowDiscipline'
  BY <1>1, <1>2 DEF IInv, LockInv, RowDiscipline, Rows, InTxn
<1>5. Fresh'
  BY DEF IInv, LockInv, Fresh
<1>6. Validated'
  BY <1>1, <1>2 DEF IInv, LockInv, Validated, WellFormed, InTxn
<1>7. Funded'
  BY <1>1, <1>2 DEF IInv, LockInv, Funded
<1>8. PendingDiscipline'
  <2>1. ASSUME NEW q \in Requests
        PROVE  pending'[q] = IF pc'[q] = "post" THEN {req'[q].key} ELSE {}
    BY <1>1, <1>2 DEF IInv, LockInv, PendingDiscipline
  <2>2. ASSUME NEW s \in Sessions, NEW t \in Sessions, s # t
        PROVE  pending'[s] \cap pending'[t] = {}
    BY <1>1, <1>2, <2>2 DEF IInv, LockInv, PendingDiscipline, ReferenceFree
  <2>3. ASSUME NEW s \in Sessions, NEW k \in pending'[s]
        PROVE  ~Committed(k)'
    BY <1>1, <1>2, <2>3 DEF IInv, LockInv, PendingDiscipline, ReferenceFree,
                            Committed
  <2>4. QED
    BY <2>1, <2>2, <2>3 DEF PendingDiscipline
<1>9. NonNegative' /\ LedgerChains'
  BY DEF IInv, NonNegative, LedgerChains, PreviousAfter
<1>10. QED
  BY <1>3, <1>4, <1>5, <1>6, <1>7, <1>8, <1>9 DEF IInv, LockInv

\* What a request about to post computes: for each of its rows, the balance in
\* the table plus the leg, within the column and not negative.
LEMMA PostedBalances ==
  ASSUME IInv, NEW r \in Requests, pc[r] = "post",
         ~Overflows(Legs(req[r]), loaded[r])
  PROVE  LET legs  == Legs(req[r])
             after == Result(legs, loaded[r])
         IN  /\ DOMAIN legs = Rows(req[r])
             /\ held[r] = Rows(req[r])
             /\ Rows(req[r]) \subseteq Wallets
             /\ \A w \in Rows(req[r]) : /\ legs[w] \in Column
                                        /\ after[w] = balance[w] + legs[w]
                                        /\ after[w] \in 0 .. MaxBalance
<1> DEFINE p == req[r]
           legs == Legs(p)
           after == Result(legs, loaded[r])
<1>1. p \in Payload /\ WellFormed(p) /\ held[r] = Rows(p)
  BY ReqType DEF IInv, LockInv, RowDiscipline, Validated, InTxn
<1>2. /\ DOMAIN legs = Rows(p)
      /\ Rows(p) \subseteq Wallets
      /\ \A w \in Rows(p) : /\ legs[w] \in Int
                            /\ legs[w] \in {p.amount, -p.amount}
                            /\ legs[w] < 0 => /\ p.type # "DEPOSIT"
                                              /\ w = p.from
  BY <1>1, LegsOfPayload
<1>3. p.amount \in 0 .. MaxBalance /\ MaxBalance \in Nat
  BY <1>1, StoreAssumption DEF Payload
<1>4. balance \in [Wallets -> Column] /\ \A w \in Wallets : balance[w] >= 0
  BY DEF IInv, TypeOK, StoreTypeOK, NonNegative
<1>5. ASSUME NEW w \in Rows(p)
      PROVE  /\ legs[w] \in Column
             /\ after[w] = balance[w] + legs[w]
             /\ after[w] \in 0 .. MaxBalance
  <2>1. legs[w] \in Column /\ legs[w] \in Int
    BY <1>2, <1>3 DEF Column
  <2>2. loaded[r][w] = balance[w]
    BY <1>1 DEF IInv, LockInv, Fresh
  <2>3. after[w] = balance[w] + legs[w]
    BY <1>2, <2>2 DEF Result
  <2>4. after[w] <= MaxBalance
    <3>1. ~(after[w] > MaxBalance)
      BY <1>2 DEF Overflows
    <3>2. balance[w] \in Int
      BY <1>2, <1>4, <1>3 DEF Column
    <3>3. QED
      BY <3>1, <3>2, <2>1, <2>3, <1>3
  <2>5. after[w] >= 0
    <3>1. CASE legs[w] < 0
      <4>1. p.type # "DEPOSIT" /\ w = p.from /\ legs[w] = -p.amount
        BY <1>2, <1>3, <3>1
      <4>2. loaded[r][p.from] >= p.amount
        BY <4>1 DEF IInv, LockInv, Funded
      <4>3. QED
        BY <4>1, <4>2, <2>2, <2>3, <1>2, <1>3, <1>4 DEF Column
    <3>2. CASE legs[w] >= 0
      BY <3>2, <2>1, <2>3, <1>2, <1>3, <1>4 DEF Column
    <3>3. QED
      BY <3>1, <3>2, <2>1
  <2>6. QED
    BY <2>1, <2>3, <2>4, <2>5, <1>2, <1>3, <1>4 DEF Column
<1>6. QED
  BY <1>1, <1>2, <1>5

\* It continues every chain it touches.
LEMMA PostChains ==
  ASSUME IInv, NEW r \in Requests, Post(r)
  PROVE  LedgerChains'
<1> DEFINE p == req[r]
           legs == Legs(p)
           after == Result(legs, loaded[r])
           header == [type |-> p.type, amount |-> p.amount]
<1>1. Commit(r, p.key, header, legs, after)
  BY DEF Post
<1>2. ledger \in [Wallets -> Seq(Entry)] /\ LedgerChains
  BY DEF IInv, TypeOK, StoreTypeOK
<1>3. \A w \in DOMAIN legs : after[w] = balance[w] + legs[w]
  BY PostedBalances DEF Post
<1> HIDE DEF p, legs, after, header
<1>4. QED
  BY <1>1, <1>2, <1>3, CommitChains

\* The COMMIT of a posting.
LEMMA PostStep ==
  ASSUME IInv, NEW r \in Requests, Post(r)
  PROVE  IInv'
<1> DEFINE p == req[r]
           legs == Legs(p)
           after == Result(legs, loaded[r])
<1> USE DEF Post, Commit, EndTransaction, Answer, Goto, Forget
<1>1. /\ pc[r] = "post" /\ r \in Sessions /\ p.key \in Keys
      /\ p \in Payload /\ WellFormed(p)
  BY ReqType DEF IInv, LockInv, Validated, InTxn
<1>2. /\ DOMAIN legs = Rows(p)
      /\ held[r] = Rows(p)
      /\ Rows(p) \subseteq Wallets
      /\ \A w \in Rows(p) : /\ legs[w] \in Column
                            /\ after[w] = balance[w] + legs[w]
                            /\ after[w] \in 0 .. MaxBalance
  BY <1>1, PostedBalances
<1>3. /\ held \in [Sessions -> SUBSET Wallets]
      /\ pending \in [Sessions -> SUBSET Keys]
      /\ balance \in [Wallets -> Column]
      /\ ledger \in [Wallets -> Seq(Entry)]
      /\ txn \in [Keys -> Header \cup {NoTxn}]
      /\ loaded \in [Requests -> [Wallets -> Column]]
      /\ pc \in [Requests -> Steps]
      /\ Requests \subseteq Sessions
  BY ApiAssumption DEF IInv, TypeOK, StoreTypeOK
<1>4. Unread \in [Wallets -> Column] /\ MaxBalance \in Nat
  BY StoreAssumption DEF Unread, Column
<1>5. /\ balance' = [w \in Wallets |->
                       IF w \in Rows(p) THEN after[w] ELSE balance[w]]
      /\ ledger' = [w \in Wallets |->
                      IF w \in Rows(p)
                      THEN Append(ledger[w], [ref    |-> p.key,
                                              amount |-> legs[w],
                                              after  |-> after[w]])
                      ELSE ledger[w]]
  BY <1>2
<1>6. StoreTypeOK'
  <2>1. balance' \in [Wallets -> Column]
    BY <1>2, <1>3, <1>4, <1>5 DEF Column
  <2>2. ledger' \in [Wallets -> Seq(Entry)]
    <3>1. ASSUME NEW w \in Rows(p)
          PROVE  [ref |-> p.key, amount |-> legs[w], after |-> after[w]]
                   \in Entry
      BY <1>1, <1>2, <1>4 DEF Entry, Column
    <3>2. QED
      BY <3>1, <1>3, <1>5
  <2>3. txn' \in [Keys -> Header \cup {NoTxn}]
    BY <1>1, <1>3 DEF Header, Payload, WellFormed
  <2>4. QED
    BY <2>1, <2>2, <2>3, <1>3 DEF StoreTypeOK
<1>7. TypeOK'
  <2>1. pc' \in [Requests -> Steps] /\ resp' \in [Requests -> Responses]
    BY <1>3 DEF IInv, TypeOK, Steps, Responses
  <2>2. QED
    BY <2>1, <1>3, <1>4, <1>6 DEF IInv, TypeOK
<1>8. RowDiscipline'
  BY <1>1, <1>3 DEF IInv, LockInv, RowDiscipline, Rows, InTxn
<1>9. Fresh'
  <2>1. ASSUME NEW q \in Requests, NEW w \in held'[q]
        PROVE  loaded'[q][w] = balance'[w]
    <3>1. q # r /\ w \in held[q] /\ w \notin Rows(p)
      BY <1>1, <1>2, <1>3, <2>1 DEF IInv, LockInv, RowDiscipline
    <3>2. QED
      BY <3>1, <1>3, <1>5 DEF IInv, LockInv, Fresh
  <2>2. QED
    BY <2>1 DEF Fresh
<1>10. Validated'
  BY <1>1, <1>3 DEF IInv, LockInv, Validated, WellFormed, InTxn
<1>11. Funded'
  BY <1>3 DEF IInv, LockInv, Funded
<1>12. PendingDiscipline'
  <2>1. ASSUME NEW q \in Requests
        PROVE  pending'[q] = IF pc'[q] = "post" THEN {req'[q].key} ELSE {}
    BY <1>1, <1>3 DEF IInv, LockInv, PendingDiscipline
  <2>2. ASSUME NEW s \in Sessions, NEW t \in Sessions, s # t
        PROVE  pending'[s] \cap pending'[t] = {}
    BY <1>3, <2>2 DEF IInv, LockInv, PendingDiscipline
  <2>3. ASSUME NEW s \in Sessions, NEW k \in pending'[s]
        PROVE  ~Committed(k)'
    <3>1. s # r /\ k \in pending[s] /\ k # p.key
      BY <1>1, <1>3, <2>3 DEF IInv, LockInv, PendingDiscipline
    <3>2. QED
      BY <3>1, <1>3 DEF IInv, LockInv, PendingDiscipline, Committed
  <2>4. QED
    BY <2>1, <2>2, <2>3 DEF PendingDiscipline
<1>13. NonNegative'
  BY <1>2, <1>3, <1>4, <1>5 DEF IInv, NonNegative, Column
<1>14. LedgerChains'
  BY PostChains
<1>15. QED
  BY <1>7, <1>8, <1>9, <1>10, <1>11, <1>12, <1>13, <1>14 DEF IInv, LockInv

-----------------------------------------------------------------------------
(* Every step preserves the invariant.                                     *)

\* The statements before the transaction, the end of the request, and what
\* fails there.
LEMMA HandlerSteps ==
  ASSUME IInv, NEW r \in Requests,
         \/ MissingKey(r) \/ Hit(r) \/ Miss(r)
         \/ AcquireLock(r) \/ Conflict(r)
         \/ PassValidation(r) \/ FailValidation(r)
         \/ Release(r) \/ FailBefore(r) \/ FailRelease(r)
  PROVE  IInv'
<1> USE DEF Goto, Answer, InTxn, Steps, Responses
<1>1. /\ resp \in [Requests -> Responses] /\ locks \subseteq Keys
      /\ pc[r] \notin {"lookup", "done"} => req[r].key \in Keys
  BY DEF IInv, TypeOK, LockInv, Validated
<1>2. CASE MissingKey(r)
  BY <1>1, <1>2, LocalStep DEF MissingKey
<1>3. CASE Hit(r)
  BY <1>1, <1>3, LocalStep DEF Hit
<1>4. CASE Miss(r)
  BY <1>1, <1>4, LocalStep DEF Miss
<1>5. CASE AcquireLock(r)
  BY <1>1, <1>5, LocalStep DEF AcquireLock
<1>6. CASE Conflict(r)
  BY <1>1, <1>6, LocalStep DEF Conflict
<1>7. CASE PassValidation(r)
  <2>1. WellFormed(req[r])
    BY <1>7, ReqType, ApiAssumption
       DEF PassValidation, Valid, ValidTransfer, OwnWallet, WellFormed, IInv
  <2>2. QED
    BY <1>1, <1>7, <2>1, LocalStep DEF PassValidation
<1>8. CASE FailValidation(r)
  BY <1>1, <1>8, LocalStep DEF FailValidation
<1>9. CASE Release(r)
  BY <1>1, <1>9, LocalStep DEF Release
<1>10. CASE FailBefore(r)
  <2>1. locks' \subseteq Keys
    <3>1. pc[r] = "acquire" => req[r].key \in Keys
      BY <1>1
    <3>2. QED
      BY <1>1, <1>10, <3>1 DEF FailBefore
  <2>2. QED
    BY <1>1, <1>10, <2>1, LocalStep DEF FailBefore
<1>11. CASE FailRelease(r)
  BY <1>1, <1>11, LocalStep DEF FailRelease
<1>12. QED
  BY <1>2, <1>3, <1>4, <1>5, <1>6, <1>7, <1>8, <1>9, <1>10, <1>11

\* The funds check under the locks.
LEMMA AcceptStep ==
  ASSUME IInv, NEW r \in Requests, Accept(r)
  PROVE  IInv'
<1>1. /\ held[r] = Rows(req[r])
      /\ req[r].type # "DEPOSIT" => ~(loaded[r][req[r].from] < req[r].amount)
  BY DEF Accept, Refused
<1>2. WellFormed(req[r]) /\ req[r].key \in Keys /\ req[r] \in Payload
  BY ReqType DEF Accept, IInv, LockInv, Validated, InTxn
<1>3. loaded[r][req[r].from] \in Int /\ req[r].amount \in Int
  <2>1. loaded[r] \in [Wallets -> Column] /\ req[r].from \in Wallets
    BY <1>2 DEF IInv, TypeOK, WellFormed
  <2>2. Column \subseteq Int /\ req[r].amount \in Int
    BY <1>2, StoreAssumption DEF Column, Payload
  <2>3. QED
    BY <2>1, <2>2
<1>4. req[r].type # "DEPOSIT" => loaded[r][req[r].from] >= req[r].amount
  BY <1>1, <1>3
<1>5. QED
  BY <1>1, <1>2, <1>4, LocalStep
     DEF Accept, Goto, Steps, InTxn, IInv, TypeOK

\* The ways a transaction ends without posting.
LEMMA RollbackSteps ==
  ASSUME IInv, NEW r \in Requests,
         Refuse(r) \/ DuplicateHeader(r) \/ Overflow(r) \/ FailInside(r) \/ Crash(r)
  PROVE  IInv'
<1> USE DEF Goto, Answer, Responses
<1>1. /\ resp \in [Requests -> Responses] /\ locks \subseteq Keys
      /\ pc[r] \notin {"lookup", "done"} => req[r].key \in Keys
  BY DEF IInv, TypeOK, LockInv, Validated
<1>2. CASE Refuse(r)
  BY <1>1, <1>2, RollbackStep DEF Refuse
<1>3. CASE DuplicateHeader(r)
  BY <1>1, <1>3, RollbackStep DEF DuplicateHeader
<1>4. CASE Overflow(r)
  BY <1>1, <1>4, RollbackStep DEF Overflow
<1>5. CASE FailInside(r)
  BY <1>1, <1>5, RollbackStep DEF FailInside
<1>6. CASE Crash(r)
  BY <1>1, <1>6, RollbackStep DEF Crash
<1>7. QED
  BY <1>2, <1>3, <1>4, <1>5, <1>6

\* Steps that change none of the variables of the invariant but the locks.
LEMMA FrameStep ==
  ASSUME IInv, UNCHANGED <<storeVars, req, pc, resp, loaded>>,
         locks' \subseteq Keys
  PROVE  IInv'
<1> USE DEF storeVars
<1>1. TypeOK' /\ NonNegative' /\ LedgerChains'
  BY DEF IInv, TypeOK, StoreTypeOK, NonNegative, LedgerChains, PreviousAfter
<1>2. RowDiscipline' /\ Fresh' /\ Funded'
  BY DEF IInv, LockInv, RowDiscipline, Fresh, Funded, Rows
<1>3. Validated' /\ PendingDiscipline'
  BY DEF IInv, LockInv, Validated, WellFormed, PendingDiscipline, Committed
<1>4. QED
  BY <1>1, <1>2, <1>3 DEF IInv, LockInv

LEMMA NextInv == IInv /\ [Next]_vars => IInv'
<1> SUFFICES ASSUME IInv, [Next]_vars PROVE IInv'
  OBVIOUS
<1>1. ASSUME NEW r \in Requests, Step(r) PROVE IInv'
  BY <1>1, HandlerSteps, LockRowStep, AcceptStep, InsertHeaderStep, PostStep,
     RollbackSteps
     DEF Step
<1>2. ASSUME NEW r \in Requests, Fail(r) PROVE IInv'
  BY <1>2, HandlerSteps, RollbackSteps DEF Fail
<1>3. locks \subseteq Keys
  BY DEF IInv, TypeOK
<1>4. ASSUME NEW k \in Keys, Expire(k) PROVE IInv'
  BY <1>3, <1>4, FrameStep DEF Expire
<1>5. CASE Quiescent
  BY <1>3, <1>5, FrameStep DEF Quiescent, vars, storeVars
<1>6. CASE UNCHANGED vars
  BY <1>3, <1>6, FrameStep DEF vars, storeVars
<1>7. QED
  BY <1>1, <1>2, <1>4, <1>5, <1>6 DEF Next

LEMMA InvariantHolds == Spec => []IInv
<1>1. QED
  BY InitInv, NextInv, PTL DEF Spec

-----------------------------------------------------------------------------
(* The theorems.                                                           *)

\* Every variable keeps its type; in particular no balance leaves its column.
THEOREM TypeCorrect == Spec => []TypeOK
BY InvariantHolds, PTL DEF IInv

\* The row locks do their work: what a transaction has read stays true, and
\* its reference stays its own, until it ends.
THEOREM LocksProtect == Spec => []LockInv
BY InvariantHolds, PTL DEF IInv

\* No interleaving of deposits, withdrawals and transfers, with crashes and
\* expiring locks, overdraws a wallet.
THEOREM NeverOverdrawn == Spec => []NonNegative
BY InvariantHolds, PTL DEF IInv

\* No update of a balance is lost: each ledger entry continues from the one
\* before it and the balance is where the last one ends.
THEOREM LedgerIsChain == Spec => []LedgerChains
BY InvariantHolds, PTL DEF IInv

\* The README's promise: the entries of every wallet sum up to its balance,
\* since the amounts of a chain telescope.
THEOREM LedgerReconciles == Spec => []Reconciled
<1>1. IInv => Reconciled
  <2> SUFFICES ASSUME IInv, NEW w \in Wallets
               PROVE  balance[w] = EntrySum(Opening[w], ledger[w])
    BY DEF Reconciled
  <2>1. ledger[w] \in Seq(Entry)
    BY DEF IInv, TypeOK, StoreTypeOK
  <2>2. \A i \in 1 .. Len(ledger[w]) :
          ledger[w][i].after
            = (IF i = 1 THEN Opening[w] ELSE ledger[w][i - 1].after)
              + ledger[w][i].amount
    BY DEF IInv, LedgerChains, PreviousAfter
  <2>3. EntrySum(Opening[w], ledger[w])
          = IF Len(ledger[w]) = 0 THEN Opening[w]
                                  ELSE ledger[w][Len(ledger[w])].after
    BY <2>1, <2>2, SumOfChain
  <2>4. balance[w] = PreviousAfter(w, Len(ledger[w]) + 1)
    BY DEF IInv, LedgerChains
  <2>5. QED
    BY <2>1, <2>3, <2>4 DEF PreviousAfter
<1>2. QED
  BY <1>1, InvariantHolds, PTL

-----------------------------------------------------------------------------
(* Steps and histories.                                                    *)

\* A posting uses a reference nobody has committed.
LEMMA PostUsesNewKey ==
  ASSUME IInv, NEW r \in Requests, pc[r] = "post"
  PROVE  req[r].key \in Keys /\ ~Committed(req[r].key)
BY ReqType DEF IInv, LockInv, Validated, PendingDiscipline

\* Only postings change the tables.
LEMMA OtherStepsKeepTables ==
  ASSUME [Next]_vars, ~\E r \in Requests : Post(r)
  PROVE  UNCHANGED <<balance, txn, ledger>>
<1> USE DEF storeVars, Rollback
<1>1. ASSUME NEW r \in Requests, Step(r)
      PROVE  UNCHANGED <<balance, txn, ledger>>
  BY <1>1
     DEF Step, MissingKey, Hit, Miss, AcquireLock, Conflict, PassValidation,
         FailValidation, LockRow, Refuse, Accept, InsertHeader,
         DuplicateHeader, Overflow, Release
<1>2. ASSUME NEW r \in Requests, Fail(r)
      PROVE  UNCHANGED <<balance, txn, ledger>>
  BY <1>2 DEF Fail, FailBefore, FailInside, FailRelease, Crash
<1>3. ASSUME NEW k \in Keys, Expire(k)
      PROVE  UNCHANGED <<balance, txn, ledger>>
  BY <1>3 DEF Expire
<1>4. QED
  BY <1>1, <1>2, <1>3 DEF Next, Quiescent, vars

LEMMA PostAppendsOnly ==
  ASSUME IInv, NEW r \in Requests, Post(r)
  PROVE  AppendsOnly
<1>1. req[r].key \in Keys /\ ~Committed(req[r].key) /\ StoreTypeOK
  BY PostUsesNewKey DEF Post, IInv, TypeOK
<1>2. QED
  BY <1>1, CommitAppends DEF Post

\* A committed reference keeps its header for good, and a wallet's entries are
\* never rewritten or removed.
THEOREM HistoryIsAppendOnly == Spec => HistoryAppendOnly
<1>1. IInv /\ [Next]_vars => [AppendsOnly]_storeVars
  <2> SUFFICES ASSUME IInv, [Next]_vars, storeVars' # storeVars
               PROVE  AppendsOnly
    OBVIOUS
  <2>1. CASE \E r \in Requests : Post(r)
    BY <2>1, PostAppendsOnly
  <2>2. CASE ~\E r \in Requests : Post(r)
    <3>1. UNCHANGED <<balance, txn, ledger>>
      BY <2>2, OtherStepsKeepTables
    <3>2. \A w \in Wallets : Len(ledger[w]) \in Nat
      BY DEF IInv, TypeOK, StoreTypeOK
    <3>3. QED
      BY <3>1, <3>2 DEF AppendsOnly
  <2>3. QED
    BY <2>1, <2>2
<1>2. QED
  BY <1>1, InvariantHolds, PTL DEF Spec, HistoryAppendOnly

-----------------------------------------------------------------------------
(* Refinement: the requests implement the atomic ledger.                    *)

\* A posting is a step of the ledger: one deposit, withdrawal or transfer on
\* the balances in the table, under an unused key.
LEMMA PostIsLedgerStep ==
  ASSUME IInv, NEW r \in Requests, Post(r)
  PROVE  Promise!Next
<1> DEFINE p == req[r]
           legs == Legs(p)
           after == Result(legs, loaded[r])
<1>1. /\ p \in Payload /\ WellFormed(p) /\ p.key \in Keys
      /\ txn[p.key] = NoTxn
  BY ReqType, PostUsesNewKey
     DEF Post, IInv, LockInv, Validated, InTxn, Committed
<1>2. /\ DOMAIN legs = Rows(p)
      /\ Rows(p) \subseteq Wallets
      /\ \A w \in Rows(p) : /\ after[w] = balance[w] + legs[w]
                            /\ after[w] \in 0 .. MaxBalance
  BY PostedBalances DEF Post
<1>3. p.amount \in 1 .. MaxBalance /\ p.from \in Wallets /\ p.to \in Wallets
  BY <1>1, StoreAssumption DEF Payload, WellFormed
<1>4. Promise!Post(p.key, p.type, p.amount, legs)
  <2>1. txn' = [txn EXCEPT ![p.key] = [type |-> p.type, amount |-> p.amount]]
    BY DEF Post, Commit
  <2>2. balance' = [w \in Wallets |->
                      IF w \in DOMAIN legs THEN balance[w] + legs[w]
                                           ELSE balance[w]]
    BY <1>2 DEF Post, Commit
  <2>3. ledger' = [w \in Wallets |->
                     IF w \in DOMAIN legs
                     THEN Append(ledger[w], [ref |-> p.key, amount |-> legs[w],
                                             after |-> balance[w] + legs[w]])
                     ELSE ledger[w]]
    BY <1>2 DEF Post, Commit
  <2>4. \A w \in DOMAIN legs : balance[w] + legs[w] \in 0 .. MaxBalance
    BY <1>2
  <2>5. QED
    BY <1>1, <2>1, <2>2, <2>3, <2>4 DEF Promise!Post
<1>5. CASE p.type = "DEPOSIT"
  <2>1. legs = [w \in {p.to} |-> p.amount]
    BY <1>5 DEF Legs, DepositLegs
  <2>2. Promise!Deposit(p.key, p.to, p.amount)
    BY <1>4, <1>5, <2>1 DEF Promise!Deposit
  <2>3. QED
    BY <1>1, <1>3, <2>2 DEF Promise!Next
<1>6. CASE p.type = "WITHDRAWAL"
  <2>1. legs = [w \in {p.from} |-> -p.amount]
    BY <1>6 DEF Legs, WithdrawLegs
  <2>2. Promise!Withdraw(p.key, p.from, p.amount)
    BY <1>4, <1>6, <2>1 DEF Promise!Withdraw
  <2>3. QED
    BY <1>1, <1>3, <2>2 DEF Promise!Next
<1>7. CASE p.type = "TRANSFER"
  <2>1. legs = [w \in {p.from, p.to} |->
                  IF w = p.from THEN -p.amount ELSE p.amount]
    BY <1>7 DEF Legs, TransferLegs
  <2>2. Promise!Transfer(p.key, p.from, p.to, p.amount)
    BY <1>1, <1>4, <1>7, <2>1 DEF Promise!Transfer, WellFormed
  <2>3. QED
    BY <1>1, <1>3, <2>2 DEF Promise!Next
<1>8. QED
  BY <1>1, <1>5, <1>6, <1>7 DEF Payload, Types

\* The API implements the ledger it promises: balances, headers and entries
\* behave as if every posting were one atomic step.
THEOREM ImplementsLedger == Spec => KeepsPromise
<1>1. Init => Promise!Init
  BY DEF Init, StoreInit, Promise!Init
<1>2. IInv /\ [Next]_vars => [Promise!Next]_Promise!vars
  <2> SUFFICES ASSUME IInv, [Next]_vars PROVE [Promise!Next]_Promise!vars
    OBVIOUS
  <2>1. CASE \E r \in Requests : Post(r)
    BY <2>1, PostIsLedgerStep
  <2>2. CASE ~\E r \in Requests : Post(r)
    BY <2>2, OtherStepsKeepTables DEF Promise!vars
  <2>3. QED
    BY <2>1, <2>2
<1>3. QED
  BY <1>1, <1>2, InvariantHolds, PTL DEF Spec, KeepsPromise, Promise!Spec

-----------------------------------------------------------------------------
(* Waiting.                                                                *)

\* Rows are locked in the order of their ids.
LockOrder ==
  \A r \in Requests : \A h \in held[r], m \in Missing(r) : h < m

\* Row locks are taken one by one and given up together.
LEMMA HeldChanges ==
  ASSUME [Next]_vars
  PROVE  /\ req' = req
         /\ \/ held' = held
            \/ \E r \in Requests : held' = [held EXCEPT ![r] = {}]
            \/ \E r \in Requests, w \in Wallets : LockRow(r, w)
<1> USE DEF storeVars, Rollback, EndTransaction
<1>1. ASSUME NEW r \in Requests, Step(r)
      PROVE  /\ req' = req
             /\ \/ held' = held
                \/ held' = [held EXCEPT ![r] = {}]
                \/ \E w \in Wallets : LockRow(r, w)
  <2>1. CASE \E w \in Wallets : LockRow(r, w)
    BY <2>1 DEF LockRow
  <2>2. CASE Refuse(r) \/ DuplicateHeader(r) \/ Post(r) \/ Overflow(r)
    BY <2>2 DEF Refuse, DuplicateHeader, Post, Commit, Overflow
  <2>3. CASE \/ MissingKey(r) \/ Hit(r) \/ Miss(r)
             \/ AcquireLock(r) \/ Conflict(r)
             \/ PassValidation(r) \/ FailValidation(r)
             \/ Accept(r) \/ InsertHeader(r) \/ Release(r)
    BY <2>3
       DEF MissingKey, Hit, Miss, AcquireLock, Conflict, PassValidation,
           FailValidation, Accept, InsertHeader, Release
  <2>4. QED
    BY <1>1, <2>1, <2>2, <2>3 DEF Step
<1>2. ASSUME NEW r \in Requests, Fail(r)
      PROVE  req' = req /\ (held' = held \/ held' = [held EXCEPT ![r] = {}])
  BY <1>2 DEF Fail, FailBefore, FailInside, FailRelease, Crash
<1>3. ASSUME NEW k \in Keys, Expire(k)
      PROVE  req' = req /\ held' = held
  BY <1>3 DEF Expire
<1>4. QED
  BY <1>1, <1>2, <1>3 DEF Next, Quiescent, vars

LEMMA LockOrderStep ==
  ASSUME IInv, LockOrder, [Next]_vars
  PROVE  LockOrder'
<1>1. /\ held \in [Sessions -> SUBSET Wallets]
      /\ Requests \subseteq Sessions
      /\ Wallets \subseteq Nat
  BY ApiAssumption, StoreAssumption DEF IInv, TypeOK, StoreTypeOK
<1>2. req' = req
  BY HeldChanges
<1>3. CASE held' = held
  BY <1>2, <1>3 DEF LockOrder, Missing
<1>4. ASSUME NEW r \in Requests, held' = [held EXCEPT ![r] = {}]
      PROVE  LockOrder'
  BY <1>1, <1>2, <1>4 DEF LockOrder, Missing
<1>5. ASSUME NEW r \in Requests, NEW w \in Wallets, LockRow(r, w)
      PROVE  LockOrder'
  <2>1. /\ held' = [held EXCEPT ![r] = @ \cup {w}]
        /\ w \in Missing(r) /\ \A v \in Missing(r) : w <= v
    BY <1>5 DEF LockRow, TakeRow, NextRow
  <2>2. ASSUME NEW q \in Requests, NEW h \in held'[q], NEW m \in Missing(q)'
        PROVE  h < m
    <3>1. CASE q # r
      BY <1>1, <1>2, <2>1, <2>2, <3>1 DEF LockOrder, Missing
    <3>2. CASE q = r
      <4>1. m \in Missing(r) /\ m # w /\ m \in Nat /\ w \in Nat
        BY <1>1, <1>2, <2>1, <2>2, <3>2 DEF Missing
      <4>2. h = w \/ h \in held[r]
        BY <1>1, <2>1, <2>2, <3>2
      <4>3. QED
        BY <2>1, <4>1, <4>2 DEF LockOrder
    <3>3. QED
      BY <3>1, <3>2
  <2>3. QED
    BY <2>2 DEF LockOrder
<1>6. QED
  BY <1>3, <1>4, <1>5, HeldChanges

\* Whoever waits for a reference holds all its rows and waits for a request
\* that waits for nothing; and around a circle of row waits the ids of the
\* rows would increase for ever.
LEMMA OrderPreventsCycles ==
  ASSUME IInv, LockOrder
  PROVE  NoWaitCycle
<1> SUFFICES ASSUME NEW S \in SUBSET Requests, S # {},
                    \A r \in S : \E s \in S : WaitsFor(r, s)
             PROVE  FALSE
  BY DEF NoWaitCycle
<1>1. ASSUME NEW r \in S
      PROVE  \E s \in S : \E w \in held[s] : NextRow(r, w)
  <2>1. PICK s \in S : WaitsFor(r, s)
    OBVIOUS
  <2>2. PICK t \in S : WaitsFor(s, t)
    OBVIOUS
  <2>3. pc[s] # "post"
    BY <2>2 DEF WaitsFor
  <2>4. pending[s] = {}
    BY <2>3 DEF IInv, LockInv, PendingDiscipline
  <2>5. QED
    BY <2>1, <2>4 DEF WaitsFor
<1> DEFINE W == {w \in Wallets : \E r, s \in S : w \in held[s] /\ NextRow(r, w)}
<1>2. W # {} /\ W \subseteq Nat /\ IsFiniteSet(W)
  <2>1. W # {}
    BY <1>1 DEF NextRow, Missing
  <2>2. W \subseteq Wallets
    OBVIOUS
  <2> HIDE DEF W
  <2>3. QED
    BY <2>1, <2>2, StoreAssumption, FS_Subset
<1>3. PICK m \in W : \A x \in W : x <= m
  <2> HIDE DEF W
  <2>1. QED
    BY <1>2, GreatestElement
<1>4. PICK s \in S : m \in held[s]
  BY <1>3
<1>5. PICK t \in S : \E w \in held[t] : NextRow(s, w)
  BY <1>1
<1>6. PICK w \in held[t] : NextRow(s, w)
  BY <1>5
<1>7. w \in W /\ m < w
  BY <1>4, <1>6 DEF NextRow, Missing, LockOrder
<1>8. QED
  BY <1>2, <1>3, <1>7

\* README line 7: no requests wait for each other in a circle, whatever rows
\* and references they wait for.
THEOREM NoDeadlock == Spec => []NoWaitCycle
<1>1. Init => LockOrder
  BY ApiAssumption DEF Init, StoreInit, LockOrder
<1>2. IInv /\ LockOrder /\ [Next]_vars => LockOrder'
  BY LockOrderStep
<1>3. IInv /\ LockOrder => NoWaitCycle
  BY OrderPreventsCycles
<1>4. QED
  BY <1>1, <1>2, <1>3, InvariantHolds, PTL DEF Spec

-----------------------------------------------------------------------------
(* Headers and entries.                                                    *)

\* A posting of a well-formed payload commits the entries its header calls for.
LEMMA PostFits ==
  ASSUME IInv, NEW r \in Requests, Post(r)
  PROVE  LET p == req[r]
             legs == Legs(p)
         IN  /\ p.key \in Keys /\ ~Committed(p.key)
             /\ HeaderOf(r) \in Header
             /\ DOMAIN legs = Rows(p) /\ Rows(p) \subseteq Wallets
             /\ LegsFit(HeaderOf(r), legs)
             /\ Commit(r, p.key, HeaderOf(r), legs, Result(legs, loaded[r]))
             /\ StoreTypeOK /\ StoreTypeOK'
<1> DEFINE p == req[r]
           legs == Legs(p)
<1>1. /\ p \in Payload /\ WellFormed(p) /\ p.key \in Keys /\ ~Committed(p.key)
  BY ReqType, PostUsesNewKey DEF Post, IInv, LockInv, Validated, InTxn
<1>2. HeaderOf(r) \in Header
  BY <1>1, StoreAssumption DEF HeaderOf, Header, Payload, WellFormed
<1>3. DOMAIN legs = Rows(p) /\ Rows(p) \subseteq Wallets
  BY PostedBalances DEF Post
<1>4. LegsFit(HeaderOf(r), legs)
  <2> USE DEF LegsFit, HeaderOf, Legs, WellFormed
  <2>1. CASE p.type = "DEPOSIT"
    BY <1>1, <2>1 DEF DepositLegs
  <2>2. CASE p.type = "WITHDRAWAL"
    BY <1>1, <2>2 DEF WithdrawLegs
  <2>3. CASE p.type = "TRANSFER"
    BY <1>1, <2>3 DEF TransferLegs
  <2>4. QED
    BY <1>1, <2>1, <2>2, <2>3 DEF Payload, Types
<1>5. Commit(r, p.key, HeaderOf(r), legs, Result(legs, loaded[r]))
  BY DEF Post, HeaderOf
<1>6. StoreTypeOK /\ StoreTypeOK'
  BY PostStep DEF IInv, TypeOK
<1>7. QED
  BY <1>1, <1>2, <1>3, <1>4, <1>5, <1>6

LEMMA MatchesStep ==
  ASSUME IInv, LedgerMatchesTxns, [Next]_vars
  PROVE  LedgerMatchesTxns'
<1>1. CASE ~\E r \in Requests : Post(r)
  BY <1>1, OtherStepsKeepTables, KeepsBooks
<1>2. ASSUME NEW r \in Requests, Post(r)
      PROVE  LedgerMatchesTxns'
  BY <1>2, PostFits, CommitBooks
<1>3. QED
  BY <1>1, <1>2

LEMMA InitMatches == Init => LedgerMatchesTxns
BY EmptyBooks DEF Init

\* Double entry: every committed header has exactly its entries, and no entry
\* exists without a header - no posting is ever half done.
THEOREM DoubleEntry == Spec => []LedgerMatchesTxns
<1>1. IInv /\ LedgerMatchesTxns /\ [Next]_vars => LedgerMatchesTxns'
  BY MatchesStep
<1>2. QED
  BY <1>1, InitMatches, InvariantHolds, PTL DEF Spec

-----------------------------------------------------------------------------
(* Answers.                                                                *)

Settled(r) == req[r].key \in Keys /\ Committed(req[r].key)

\* A request is answered once, at the end, and 201 comes with the COMMIT.
AnswerDiscipline ==
  \A r \in Requests :
    /\ pc[r] \notin {"release", "done"} => resp[r] = "none"
    /\ resp[r] \in {"created", "hit"} => Settled(r)

\* How a step that posts nothing changes the answer of a request.
LEMMA OtherAnswers ==
  ASSUME IInv, AnswerDiscipline, [Next]_vars, ~\E r \in Requests : Post(r),
         NEW q \in Requests
  PROVE  /\ \/ resp'[q] = resp[q]
            \/ resp[q] = "none" /\ resp'[q] \in {"rejected", "conflict", "error"}
            \/ resp[q] = "none" /\ resp'[q] = "hit" /\ Settled(q)
            \/ resp'[q] \in {"error", "lost"}
         /\ pc'[q] \notin {"release", "done"} => resp'[q] = "none"
<1> DEFINE Answered(r, s) ==
      /\ pc' = [pc EXCEPT ![r] = s]
      /\ \/ resp' = resp /\ (s \notin {"release", "done"} => resp[r] = "none")
         \/ /\ s \in {"release", "done"} /\ resp[r] = "none"
            /\ \/ \E a \in {"rejected", "conflict", "error"} :
                    resp' = [resp EXCEPT ![r] = a]
               \/ resp' = [resp EXCEPT ![r] = "hit"] /\ Settled(r)
         \/ /\ s = "done"
            /\ \E a \in {"error", "lost"} : resp' = [resp EXCEPT ![r] = a]
<1> USE DEF Goto, Answer
<1>1. /\ pc \in [Requests -> Steps] /\ resp \in [Requests -> Responses]
  BY DEF IInv, TypeOK
<1>2. ASSUME NEW r \in Requests, Step(r)
      PROVE  (pc' = pc /\ resp' = resp) \/ \E s : Answered(r, s)
  <2>1. pc[r] \notin {"release", "done"} => resp[r] = "none"
    BY DEF AnswerDiscipline
  <2>2. CASE MissingKey(r) \/ Hit(r) \/ Conflict(r)
    BY <2>1, <2>2 DEF MissingKey, Hit, Conflict, Settled
  <2>3. CASE FailValidation(r) \/ Refuse(r) \/ DuplicateHeader(r) \/ Overflow(r)
    BY <2>1, <2>3 DEF FailValidation, Refuse, DuplicateHeader, Overflow
  <2>4. CASE Miss(r) \/ AcquireLock(r) \/ PassValidation(r) \/ Accept(r) \/ InsertHeader(r)
    BY <2>1, <2>4 DEF Miss, AcquireLock, PassValidation, Accept, InsertHeader
  <2>5. CASE Release(r) \/ \E w \in Wallets : LockRow(r, w)
    BY <2>1, <2>5 DEF Release, LockRow
  <2>6. QED
    BY <1>2, <2>2, <2>3, <2>4, <2>5 DEF Step
<1>3. ASSUME NEW r \in Requests, Fail(r)
      PROVE  \E s : Answered(r, s)
  <2>1. pc[r] \notin {"release", "done"} => resp[r] = "none"
    BY DEF AnswerDiscipline
  <2>2. CASE FailInside(r)
    BY <2>1, <2>2 DEF FailInside
  <2>3. CASE FailBefore(r) \/ FailRelease(r) \/ Crash(r)
    BY <2>3 DEF FailBefore, FailRelease, Crash
  <2>4. QED
    BY <1>3, <2>2, <2>3 DEF Fail
<1>4. CASE pc' = pc /\ resp' = resp
  BY <1>4 DEF AnswerDiscipline
<1>5. ASSUME NEW r \in Requests, NEW s, Answered(r, s)
      PROVE  /\ \/ resp'[q] = resp[q]
                \/ /\ resp[q] = "none"
                   /\ resp'[q] \in {"rejected", "conflict", "error"}
                \/ resp[q] = "none" /\ resp'[q] = "hit" /\ Settled(q)
                \/ resp'[q] \in {"error", "lost"}
             /\ pc'[q] \notin {"release", "done"} => resp'[q] = "none"
  BY <1>1, <1>5 DEF AnswerDiscipline
<1> HIDE DEF Answered
<1>6. (pc' = pc /\ resp' = resp) \/ \E r \in Requests : \E s : Answered(r, s)
  BY <1>2, <1>3 DEF Next, Expire, Quiescent, vars
<1>7. QED
  BY <1>4, <1>5, <1>6

\* What a posting does to the answers: its request is told 201 or, if the COMMIT
\* is not confirmed, 500; the header is the request's, and so are the entries.
LEMMA PostAnswers ==
  ASSUME IInv, LedgerMatchesTxns, NEW r \in Requests, Post(r)
  PROVE  /\ req' = req
         /\ pc' = [pc EXCEPT ![r] = "release"]
         /\ \E answer \in {"created", "error"} :
              resp' = [resp EXCEPT ![r] = answer]
         /\ req[r].key \in Keys /\ ~Committed(req[r].key)
         /\ Committed(req[r].key)'
         /\ (txn[req[r].key] = HeaderOf(r))'
         /\ \A k \in Keys : k # req[r].key =>
              txn'[k] = txn[k] /\ PostedBy(k)' = PostedBy(k)
<1>1. /\ req[r] \in Payload /\ WellFormed(req[r]) /\ req[r].key \in Keys
      /\ ~Committed(req[r].key) /\ txn \in [Keys -> Header \cup {NoTxn}]
  BY ReqType, PostUsesNewKey
     DEF Post, IInv, LockInv, Validated, InTxn, TypeOK, StoreTypeOK
<1>2. /\ req' = req
      /\ pc' = [pc EXCEPT ![r] = "release"]
      /\ \E answer \in {"created", "error"} :
           resp' = [resp EXCEPT ![r] = answer]
      /\ txn' = [txn EXCEPT ![req[r].key] =
                   [type |-> req[r].type, amount |-> req[r].amount]]
  BY DEF Post, Commit, Answer, Goto
<1>3. (txn[req[r].key] = HeaderOf(r))'
  BY <1>1, <1>2 DEF HeaderOf
<1>4. Committed(req[r].key)'
  BY <1>1, <1>2, StoreAssumption DEF Committed, Header, Payload, WellFormed
<1>5. ASSUME NEW k \in Keys, k # req[r].key
      PROVE  txn'[k] = txn[k] /\ PostedBy(k)' = PostedBy(k)
  <2>1. /\ EntriesOf(k)' = EntriesOf(k)
        /\ \A e \in EntriesOf(k) : AmountOf(e)' = AmountOf(e)
    BY <1>5, PostFits, CommitEntriesOfKeys DEF StoreTypeOK
  <2>2. QED
    BY <1>1, <1>2, <1>5, <2>1 DEF PostedBy
<1>6. QED
  BY <1>1, <1>2, <1>3, <1>4, <1>5

LEMMA PostedEntries ==
  ASSUME IInv, LedgerMatchesTxns, NEW r \in Requests, Post(r),
         NEW key, key = req[r].key
  PROVE  PostedBy(key)' = LegsOf(r)
<1>1. LegsOf(r) = PairsOf(Legs(req[r]))
  BY DEF LegsOf, PairsOf
<1>2. PostedBy(key)' = PairsOf(Legs(req[r]))
  BY PostFits, CommitPairs DEF PostedBy
<1>3. QED
  BY <1>1, <1>2

LEMMA AnswersStep ==
  ASSUME IInv, LedgerMatchesTxns, AnswerDiscipline, AnswersMatchStore,
         [Next]_vars
  PROVE  AnswerDiscipline' /\ AnswersMatchStore'
<1> USE DEF HeaderOf, LegsOf, Legs, DepositLegs, WithdrawLegs, TransferLegs
<1>1. req' = req
  BY HeldChanges
<1>2. \A r \in Requests : HeaderOf(r)' = HeaderOf(r) /\ LegsOf(r)' = LegsOf(r)
  BY <1>1
<1> USE DEF Settled
<1> HIDE DEF HeaderOf, LegsOf, Legs
<1>3. CASE ~\E r \in Requests : Post(r)
  <2>1. UNCHANGED <<balance, txn, ledger>>
    BY <1>3, OtherStepsKeepTables
  <2>2. \A k : /\ Committed(k)' <=> Committed(k)
               /\ PostedBy(k)' = PostedBy(k) /\ txn'[k] = txn[k]
    BY <2>1 DEF Committed, PostedBy, EntriesOf, EntryIds, AmountOf
  <2>3. ASSUME NEW q \in Requests
        PROVE  /\ pc'[q] \notin {"release", "done"} => resp'[q] = "none"
               /\ resp'[q] = "created" => resp[q] = "created"
               /\ resp'[q] = "hit" => resp[q] = "hit" \/ Settled(q)
               /\ resp[q] \in {"created", "error", "lost"}
                    => resp'[q] \in {resp[q], "error", "lost"}
    BY <1>3, OtherAnswers
  <2>4. AnswerDiscipline'
    BY <1>1, <2>2, <2>3 DEF AnswerDiscipline
  <2>5. ASSUME NEW k \in Keys, Committed(k)'
        PROVE  (\E r \in Requests : /\ req[r].key = k
                                    /\ resp[r] \in {"created", "error", "lost"}
                                    /\ txn[k] = HeaderOf(r)
                                    /\ PostedBy(k) = LegsOf(r))'
    <3>1. PICK r \in Requests : /\ req[r].key = k
                                /\ resp[r] \in {"created", "error", "lost"}
                                /\ txn[k] = HeaderOf(r)
                                /\ PostedBy(k) = LegsOf(r)
      BY <2>2, <2>5 DEF AnswersMatchStore
    <3>2. resp'[r] \in {"created", "error", "lost"}
      BY <2>3, <3>1
    <3>3. QED
      BY <1>1, <1>2, <2>2, <3>1, <3>2
  <2>6. AnswersMatchStore'
    BY <1>1, <1>2, <2>2, <2>3, <2>5 DEF AnswersMatchStore
  <2>7. QED
    BY <2>4, <2>6
<1>4. ASSUME NEW r \in Requests, Post(r)
      PROVE  AnswerDiscipline' /\ AnswersMatchStore'
  <2>1. PICK key : key = req[r].key
    OBVIOUS
  <2> PICK answer \in {"created", "error"} :
             resp' = [resp EXCEPT ![r] = answer]
    BY <1>4, PostAnswers
  <2>2. /\ pc' = [pc EXCEPT ![r] = "release"]
        /\ resp' = [resp EXCEPT ![r] = answer]
        /\ key \in Keys /\ ~Committed(key)
        /\ Committed(key)' /\ txn'[key] = HeaderOf(r)
        /\ PostedBy(key)' = LegsOf(r)
        /\ \A k \in Keys : k # key =>
             txn'[k] = txn[k] /\ PostedBy(k)' = PostedBy(k)
    BY <1>1, <1>2, <1>4, <2>1, PostAnswers, PostedEntries
       DEF Committed, HeaderOf
  <2>3. \A k \in Keys : k # key => (Committed(k)' <=> Committed(k))
    BY <2>2 DEF Committed
  <2>4. resp \in [Requests -> Responses] /\ pc \in [Requests -> Steps]
    BY DEF IInv, TypeOK
  <2>5. \A q \in Requests : resp[q] \in {"created", "hit"} => req[q].key # key
    BY <2>2 DEF AnswerDiscipline
  <2>6. AnswerDiscipline'
    BY <1>1, <2>1, <2>2, <2>3, <2>4 DEF AnswerDiscipline
  <2>7. ASSUME NEW q \in Requests
        PROVE  /\ resp'[q] = "created" => /\ txn'[req[q].key] = HeaderOf(q)
                                          /\ PostedBy(req[q].key)' = LegsOf(q)
               /\ resp'[q] = "hit" => Committed(req[q].key)'
    <3>1. CASE q = r
      BY <1>1, <2>1, <2>2, <2>4, <3>1
    <3>2. CASE q # r
      <4>1. resp'[q] = resp[q]
        BY <2>2, <2>4, <3>2
      <4>2. PICK k : k = req[q].key
        OBVIOUS
      <4>3. resp[q] \in {"created", "hit"} => k \in Keys /\ k # key
        BY <2>5, <4>2 DEF AnswerDiscipline
      <4>4. QED
        BY <1>1, <2>2, <2>3, <4>1, <4>2, <4>3 DEF AnswersMatchStore
    <3>3. QED
      BY <3>1, <3>2
  <2>8. ASSUME NEW k \in Keys, Committed(k)'
        PROVE  (\E q \in Requests : /\ req[q].key = k
                                    /\ resp[q] \in {"created", "error", "lost"}
                                    /\ txn[k] = HeaderOf(q)
                                    /\ PostedBy(k) = LegsOf(q))'
    <3>1. CASE k = key
      BY <1>1, <1>2, <2>1, <2>2, <2>4, <3>1
    <3>2. CASE k # key
      <4>1. PICK q \in Requests : /\ req[q].key = k
                                  /\ resp[q] \in {"created", "error", "lost"}
                                  /\ txn[k] = HeaderOf(q)
                                  /\ PostedBy(k) = LegsOf(q)
        BY <2>3, <2>8, <3>2 DEF AnswersMatchStore
      <4>2. q # r
        BY <2>1, <3>2, <4>1
      <4>3. QED
        BY <1>1, <1>2, <2>2, <2>4, <3>2, <4>1, <4>2
    <3>3. QED
      BY <3>1, <3>2
  <2>9. ASSUME NEW q \in Requests, NEW s \in Requests, q # s,
               resp'[q] = "created", resp'[s] = "created"
        PROVE  req[q].key # req[s].key
    BY <2>1, <2>2, <2>4, <2>5, <2>9 DEF AnswersMatchStore
  <2>10. AnswersMatchStore'
    BY <1>1, <1>2, <2>7, <2>8, <2>9 DEF AnswersMatchStore
  <2>11. QED
    BY <2>6, <2>10
<1>5. QED
  BY <1>3, <1>4

\* Idempotency as a client sees it: an answer 201 or HIT is true of the tables,
\* two requests with one key never both get 201, and what is committed was
\* posted by a request that was told 201, or 500 (the COMMIT was not confirmed,
\* or finally raised), or nothing: never by one that was told 400 or 409.
THEOREM AnswersAreTrue == Spec => []AnswersMatchStore
<1>1. Init => AnswerDiscipline /\ AnswersMatchStore
  BY DEF Init, StoreInit, AnswerDiscipline, AnswersMatchStore, Committed
<1>2. IInv /\ LedgerMatchesTxns /\ AnswerDiscipline /\ AnswersMatchStore
        /\ [Next]_vars => AnswerDiscipline' /\ AnswersMatchStore'
  BY AnswersStep
<1>3. QED
  BY <1>1, <1>2, DoubleEntry, InvariantHolds, PTL DEF Spec

=============================================================================
