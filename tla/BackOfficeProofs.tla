--------------------------- MODULE BackOfficeProofs ---------------------------
(***************************************************************************)
(* Proofs about the readers of the ledger, for every number of wallets,     *)
(* postings, drifts and calls, and pages of any size: the audit's verdict   *)
(* is exact where nobody wrote since it read; the settled tab shows its      *)
(* count and its page; turning the pages one by one misses no old row; and   *)
(* the statistics are totals of moments in order.                          *)
(***************************************************************************)
EXTENDS BackOffice, FiniteSetTheorems, SequenceTheorems, WellFoundedInduction,
        TLAPS

-----------------------------------------------------------------------------
(* The audit.                                                              *)

\* The sum of no entries is the opening balance.
LEMMA SumOfNothing ==
  ASSUME NEW o
  PROVE  EntrySum(o, <<>>) = o
<1> DEFINE Is(f) == f = [i \in 0 .. Len(<<>>) |->
                          IF i = 0 THEN o ELSE f[i - 1] + <<>>[i].amount]
<1>1. Is([i \in 0 .. Len(<<>>) |-> o])
  OBVIOUS
<1>2. Is(RunningSum(o, <<>>))
  BY <1>1 DEF RunningSum
<1>3. QED
  BY <1>2 DEF EntrySum

\* What the audit has read is still in the table, unless the wallet has been
\* written since.
ReadsCurrent == \A w \in Wallets \ disturbed : snapshot[w] = balance[w]

AuditInv == AuditTypeOK /\ ReadsCurrent /\ VerdictExactWhenQuiet

LEMMA InitAudit == AuditInit => AuditInv
<1> SUFFICES ASSUME AuditInit PROVE AuditInv
  OBVIOUS
<1>1. \A w \in Wallets : Drifted(w) = FALSE
  BY SumOfNothing DEF AuditInit, Init, Drifted, LedgerSum
<1>2. QED
  BY <1>1, AuditAssumption
     DEF AuditInit, Init, AuditInv, AuditTypeOK, ReadsCurrent,
         VerdictExactWhenQuiet

\* A posting keeps balances within their column, and whose ledger it extends
\* gets another balance: its amounts are not zero.
LEMMA PostingStep ==
  ASSUME balance \in [Wallets -> 0 .. MaxBalance], Next
  PROVE  /\ balance' \in [Wallets -> 0 .. MaxBalance]
         /\ \A w \in Wallets :
              balance'[w] = balance[w] => ledger'[w] = ledger[w]
<1>1. ASSUME NEW k, NEW type, NEW amount, NEW legs, Post(k, type, amount, legs),
             \A w \in DOMAIN legs : legs[w] \in Int /\ legs[w] # 0
      PROVE  /\ balance' \in [Wallets -> 0 .. MaxBalance]
             /\ \A w \in Wallets :
                  balance'[w] = balance[w] => ledger'[w] = ledger[w]
  BY <1>1, AuditAssumption DEF Post
<1>2. PICK k \in Keys, amount \in 1 .. MaxBalance, v \in Wallets, w \in Wallets :
             Deposit(k, w, amount) \/ Withdraw(k, w, amount)
               \/ Transfer(k, v, w, amount)
  BY DEF Next
<1>3. amount \in Int /\ amount # 0 /\ -amount \in Int /\ -amount # 0
  BY AuditAssumption
<1>4. CASE Deposit(k, w, amount)
  BY <1>1, <1>3, <1>4 DEF Deposit
<1>5. CASE Withdraw(k, w, amount)
  BY <1>1, <1>3, <1>5 DEF Withdraw
<1>6. CASE Transfer(k, v, w, amount)
  BY <1>1, <1>3, <1>6 DEF Transfer
<1>7. QED
  BY <1>2, <1>4, <1>5, <1>6

\* Writes of others disturb what they write.
LEMMA WriteStep ==
  ASSUME AuditInv, Disturb, UNCHANGED auditVars,
         balance' \in [Wallets -> 0 .. MaxBalance], drifts' \in 0 .. MaxDrifts,
         \A w \in Wallets : balance'[w] = balance[w] => ledger'[w] = ledger[w]
  PROVE  AuditInv'
<1> USE DEF AuditInv, auditVars, Disturb
<1>1. AuditTypeOK'
  BY DEF AuditTypeOK
<1>2. ReadsCurrent'
  BY DEF ReadsCurrent
<1>3. \A w \in Wallets \ disturbed' : Drifted(w)' <=> Drifted(w)
  BY DEF Drifted, LedgerSum
<1>4. VerdictExactWhenQuiet'
  BY <1>3 DEF VerdictExactWhenQuiet
<1>5. QED
  BY <1>1, <1>2, <1>4

LEMMA AuditStepInv ==
  ASSUME AuditInv, [AuditNext]_allVars
  PROVE  AuditInv'
<1> USE DEF AuditInv
<1>1. CASE StartAudit
  BY <1>1 DEF StartAudit, AuditTypeOK, ReadsCurrent, VerdictExactWhenQuiet
<1>2. ASSUME NEW w \in Wallets, AuditWallet(w)
      PROVE  AuditInv'
  <2> USE <1>2 DEF AuditWallet
  <2>1. AuditTypeOK'
    BY DEF AuditTypeOK
  <2>2. ReadsCurrent'
    BY DEF ReadsCurrent
  <2>3. \A v \in Wallets : Drifted(v)' <=> Drifted(v)
    BY DEF Drifted, LedgerSum
  <2>4. ASSUME NEW v \in Wallets \ (todo' \cup disturbed')
        PROVE  v \in mismatches' <=> Drifted(v)
    <3>1. CASE v = w
      <4>1. Discrepancy(w) <=> Drifted(w)
        BY <2>4, <3>1 DEF Discrepancy, Drifted, ReadsCurrent
      <4>2. w \notin mismatches
        BY DEF AuditTypeOK
      <4>3. QED
        BY <3>1, <4>1, <4>2
    <3>2. CASE v # w
      BY <2>4, <3>2 DEF VerdictExactWhenQuiet
    <3>3. QED
      BY <3>1, <3>2
  <2>5. VerdictExactWhenQuiet'
    BY <2>3, <2>4 DEF VerdictExactWhenQuiet
  <2>6. QED
    BY <2>1, <2>2, <2>5
<1>3. CASE Posting
  BY <1>3, PostingStep, WriteStep DEF Posting, AuditTypeOK
<1>4. ASSUME NEW w \in Wallets, NEW b \in 0 .. MaxBalance, Drift(w, b)
      PROVE  AuditInv'
  <2>1. /\ balance' \in [Wallets -> 0 .. MaxBalance]
        /\ drifts' \in 0 .. MaxDrifts
    BY <1>4, AuditAssumption DEF Drift, AuditTypeOK
  <2>2. QED
    BY <1>4, <2>1, WriteStep DEF Drift, auditVars
<1>5. CASE UNCHANGED allVars
  BY <1>5 DEF allVars, AuditTypeOK, ReadsCurrent, VerdictExactWhenQuiet,
              Drifted, LedgerSum
<1>6. QED
  BY <1>1, <1>2, <1>3, <1>4, <1>5 DEF AuditNext, AuditStep

LEMMA AuditInvHolds == AuditSpec => []AuditInv
BY InitAudit, AuditStepInv, PTL DEF AuditSpec

\* Balances stay within their column, and what the audit keeps names wallets.
THEOREM AuditTypes == AuditSpec => []AuditTypeOK
BY AuditInvHolds, PTL DEF AuditInv

\* The audit reads the balances in one query and the ledgers in others: its
\* verdict on a wallet is exact unless the wallet was written in between.
THEOREM VerdictIsExact == AuditSpec => []VerdictExactWhenQuiet
BY AuditInvHolds, PTL DEF AuditInv

LEMMA OfficeAudits == OfficeInit => AuditInit
BY DEF OfficeInit

LEMMA OfficeStepAudits == [OfficeNext]_officeVars => [AuditNext]_allVars
<1> SUFFICES ASSUME [OfficeNext]_officeVars PROVE [AuditNext]_allVars
  OBVIOUS
<1>1. CASE PostAndList
  BY <1>1 DEF PostAndList, AuditNext
<1>2. CASE Auditing
  BY <1>2 DEF Auditing, AuditNext
<1>3. CASE Listing \/ Summing
  BY <1>3 DEF Listing, Summing
<1>4. CASE UNCHANGED officeVars
  BY <1>4 DEF officeVars
<1>5. QED
  BY <1>1, <1>2, <1>3, <1>4 DEF OfficeNext

\* Beside the admin panel, too, the audit is right about wallets that nobody
\* wrote since it read them: the other readers change nothing it sees.
THEOREM VerdictIsExactInOffice ==
  OfficeSpec => [](AuditTypeOK /\ VerdictExactWhenQuiet)
<1>1. OfficeInit => AuditInv
  BY OfficeAudits, InitAudit
<1>2. AuditInv /\ [OfficeNext]_officeVars => AuditInv'
  BY OfficeStepAudits, AuditStepInv
<1>3. AuditInv => AuditTypeOK /\ VerdictExactWhenQuiet
  BY DEF AuditInv
<1>4. QED
  BY <1>1, <1>2, <1>3, PTL DEF OfficeSpec

-----------------------------------------------------------------------------
(* Induction over the length of a sequence, as a least counterexample.      *)

LessThan == {pair \in Nat \X Nat : pair[1] < pair[2]}

LEMMA LeastElement ==
  ASSUME NEW T, T \subseteq Nat, T # {}
  PROVE  \E x \in T : \A y \in T : x <= y
<1>1. IsWellFoundedOn(LessThan, Nat)
  BY NatLessThanWellFounded DEF OpToRel, LessThan
<1>2. PICK x \in T : \A y \in T : ~(<<y, x>> \in LessThan)
  BY <1>1, WFMin
<1>3. ASSUME NEW y \in T PROVE x <= y
  <2>1. ~(y < x)
    BY <1>2 DEF LessThan
  <2>2. QED
    BY <2>1
<1>4. QED
  BY <1>3

\* A set with 0 that goes on up to n has all numbers up to n.
LEMMA UpTo ==
  ASSUME NEW n \in Nat, NEW T, 0 \in T,
         \A i \in 0 .. n : (i # n /\ i \in T) => i + 1 \in T
  PROVE  \A i \in 0 .. n : i \in T
<1> DEFINE Missing == {i \in 0 .. n : i \notin T}
<1>1. SUFFICES ASSUME Missing # {} PROVE FALSE
  OBVIOUS
<1>2. Missing \subseteq Nat
  OBVIOUS
<1>3. PICK x \in Missing : \A y \in Missing : x <= y
  <2> HIDE DEF Missing
  <2>1. QED
    BY <1>1, <1>2, LeastElement
<1>4. x \in 0 .. n /\ x \notin T /\ x # 0
  OBVIOUS
<1>5. x - 1 \in 0 .. n /\ x - 1 # n /\ x - 1 + 1 = x
  BY <1>4
<1>6. x - 1 \in T
  BY <1>3, <1>5
<1>7. QED
  BY <1>4, <1>5, <1>6

-----------------------------------------------------------------------------
(* The kept rows of a list.                                                *)

\* f[i] is what is kept of the first i rows, for i up to n.
IsKept(list, keep, n, f) ==
  f = [i \in 0 .. n |->
         IF i = 0 THEN <<>>
         ELSE IF list[i] \in keep THEN Append(f[i - 1], list[i]) ELSE f[i - 1]]

KeptSteps(list, keep, n, f) ==
  /\ DOMAIN f = 0 .. n
  /\ f[0] = <<>>
  /\ \A i \in 1 .. n :
       f[i] = IF list[i] \in keep THEN Append(f[i - 1], list[i]) ELSE f[i - 1]

LEMMA KeptStepsSame ==
  ASSUME NEW list, NEW keep, NEW n \in Nat, NEW f
  PROVE  (\E g : f = [i \in 0 .. n |-> g[i]]) =>
           (KeptSteps(list, keep, n, f) <=> IsKept(list, keep, n, f))
<1> SUFFICES ASSUME NEW g, f = [i \in 0 .. n |-> g[i]]
             PROVE  KeptSteps(list, keep, n, f) <=> IsKept(list, keep, n, f)
  OBVIOUS
<1> DEFINE h == [i \in 0 .. n |->
         IF i = 0 THEN <<>>
         ELSE IF list[i] \in keep THEN Append(f[i - 1], list[i]) ELSE f[i - 1]]
<1>1. IsKept(list, keep, n, f) <=> f = h
  BY DEF IsKept
<1>2. f = h <=> \A i \in 0 .. n : f[i] = h[i]
  OBVIOUS
<1>3. \A i \in 0 .. n : h[i] = IF i = 0 THEN <<>>
         ELSE IF list[i] \in keep THEN Append(f[i - 1], list[i]) ELSE f[i - 1]
  OBVIOUS
<1> HIDE DEF h
<1>4. 0 \in 0 .. n /\ \A i \in 0 .. n : i # 0 <=> i \in 1 .. n
  OBVIOUS
<1>5. QED
  BY <1>1, <1>2, <1>3, <1>4 DEF KeptSteps

LEMMA KeptExists ==
  ASSUME NEW list, NEW keep, NEW n \in Nat
  PROVE  \E f : IsKept(list, keep, n, f)
<1> DEFINE T == {i \in 0 .. n : \E f : KeptSteps(list, keep, i, f)}
<1>1. 0 \in T
  <2>1. KeptSteps(list, keep, 0, [i \in 0 .. 0 |-> <<>>])
    BY DEF KeptSteps
  <2>2. QED
    BY <2>1
<1>2. ASSUME NEW i \in 0 .. n, i # n, i \in T
      PROVE  i + 1 \in T
  <2>1. PICK f : KeptSteps(list, keep, i, f)
    BY <1>2
  <2> DEFINE next == IF list[i + 1] \in keep THEN Append(f[i], list[i + 1]) ELSE f[i]
             g == [j \in 0 .. i + 1 |-> IF j = i + 1 THEN next ELSE f[j]]
  <2>2. /\ DOMAIN g = 0 .. i + 1 /\ g[i + 1] = next
        /\ \A j \in 0 .. i : g[j] = f[j]
    OBVIOUS
  <2>3. next = IF list[i + 1] \in keep THEN Append(f[i], list[i + 1]) ELSE f[i]
    OBVIOUS
  <2> HIDE DEF next, g
  <2>4. /\ 0 \in 0 .. i /\ i \in 0 .. i /\ i + 1 - 1 = i
        /\ \A j \in 1 .. i + 1 : j # i + 1 => j \in 1 .. i /\ j \in 0 .. i /\ j - 1 \in 0 .. i
    OBVIOUS
  <2>5. KeptSteps(list, keep, i + 1, g)
    BY <2>1, <2>2, <2>3, <2>4 DEF KeptSteps
  <2>6. i + 1 \in 0 .. n
    BY <1>2
  <2>7. QED
    BY <2>5, <2>6
<1> HIDE DEF T
<1>3. n \in T
  <2>1. n \in 0 .. n
    OBVIOUS
  <2>2. QED
    BY <1>1, <1>2, <2>1, UpTo
<1>4. PICK f : KeptSteps(list, keep, n, f)
  BY <1>3 DEF T
<1> DEFINE g == [i \in 0 .. n |-> f[i]]
<1>5. KeptSteps(list, keep, n, g)
  <2>1. DOMAIN g = 0 .. n /\ \A i \in 0 .. n : g[i] = f[i]
    OBVIOUS
  <2> HIDE DEF g
  <2>2. 0 \in 0 .. n /\ \A i \in 1 .. n : i \in 0 .. n /\ i - 1 \in 0 .. n
    OBVIOUS
  <2>3. QED
    BY <1>4, <2>1, <2>2 DEF KeptSteps
<1>6. IsKept(list, keep, n, g)
  BY <1>5, KeptStepsSame
<1>7. QED
  BY <1>6

\* Kept is computed row by row.
LEMMA KeptByRow ==
  ASSUME NEW S, NEW list \in Seq(S), NEW keep
  PROVE  \E f : /\ KeptSteps(list, keep, Len(list), f)
                /\ Kept(list, keep) = f[Len(list)]
<1> DEFINE g == CHOOSE f : IsKept(list, keep, Len(list), f)
<1>1. Len(list) \in Nat
  OBVIOUS
<1>2. IsKept(list, keep, Len(list), g)
  BY <1>1, KeptExists
<1>3. Kept(list, keep) = g[Len(list)]
  BY DEF Kept, IsKept
<1> HIDE DEF g
<1>4. g = [i \in 0 .. Len(list) |-> g[i]]
  BY <1>2, Zenon DEF IsKept
<1>5. KeptSteps(list, keep, Len(list), g)
  BY <1>1, <1>2, <1>4, KeptStepsSame
<1>6. QED
  BY <1>3, <1>5

LEMMA KeptNext ==
  ASSUME NEW list, NEW keep, NEW n \in Nat, NEW f, KeptSteps(list, keep, n, f),
         NEW i \in 0 .. n, i # n
  PROVE  f[i + 1] = IF list[i + 1] \in keep THEN Append(f[i], list[i + 1])
                                             ELSE f[i]
<1>1. PICK k \in 1 .. n : k = i + 1 /\ k - 1 = i
  OBVIOUS
<1>2. f[k] = IF list[k] \in keep THEN Append(f[k - 1], list[k]) ELSE f[k - 1]
  BY DEF KeptSteps
<1>3. f[k - 1] = f[i] /\ f[k] = f[i + 1] /\ list[k] = list[i + 1]
  BY <1>1
<1>4. QED
  BY <1>2, <1>3

LEMMA ToSetAppend ==
  ASSUME NEW S, NEW s \in Seq(S), NEW x \in S
  PROVE  ToSet(Append(s, x)) = ToSet(s) \cup {x}
<1> DEFINE t == Append(s, x)
<1>1. /\ t \in Seq(S) /\ Len(t) = Len(s) + 1
      /\ \A i \in 1 .. Len(s) : t[i] = s[i]
      /\ t[Len(s) + 1] = x
  BY AppendProperties
<1>2. DOMAIN t = 1 .. Len(s) + 1 /\ DOMAIN s = 1 .. Len(s) /\ Len(s) \in Nat
  BY <1>1, LenProperties
<1> HIDE DEF t
<1>3. \A i \in 1 .. Len(s) + 1 : i \in 1 .. Len(s) \/ i = Len(s) + 1
  BY <1>2
<1>4. 1 .. Len(s) \subseteq 1 .. Len(s) + 1 /\ Len(s) + 1 \in 1 .. Len(s) + 1
  BY <1>2
<1>5. ToSet(t) = ToSet(s) \cup {x}
  BY <1>1, <1>2, <1>3, <1>4 DEF ToSet
<1>6. QED
  BY <1>5 DEF t

LEMMA KeptElements ==
  ASSUME NEW S, NEW list \in Seq(S), NEW keep
  PROVE  /\ Kept(list, keep) \in Seq(S)
         /\ Len(Kept(list, keep)) <= Len(list)
         /\ ToSet(Kept(list, keep)) = ToSet(list) \cap keep
<1>0. PICK n \in Nat : n = Len(list)
  BY LenProperties
<1>1. PICK f : KeptSteps(list, keep, n, f) /\ Kept(list, keep) = f[n]
  BY <1>0, KeptByRow, Zenon
<1> DEFINE Of(i) == {list[j] : j \in 1 .. i}
           T == {i \in 0 .. n : /\ f[i] \in Seq(S) /\ Len(f[i]) <= i
                                /\ ToSet(f[i]) = Of(i) \cap keep}
<1>2. n \in Nat /\ DOMAIN list = 1 .. n /\ \A i \in 1 .. n : list[i] \in S
  BY <1>0, LenProperties, ElementOfSeq
<1>3. f[0] = <<>> /\ \A i \in 1 .. n : f[i] = IF list[i] \in keep
                        THEN Append(f[i - 1], list[i]) ELSE f[i - 1]
  BY <1>0, <1>1 DEF KeptSteps
<1>4. 0 \in T
  <2>1. <<>> \in Seq(S) /\ Len(<<>>) = 0 /\ ToSet(<<>>) = {} /\ Of(0) = {}
    BY DEF ToSet
  <2>2. /\ f[0] \in Seq(S) /\ Len(f[0]) <= 0 /\ ToSet(f[0]) = Of(0) \cap keep
        /\ 0 \in 0 .. n
    <3> HIDE DEF Of
    <3>1. QED
      BY <1>2, <1>3, <2>1
  <2>3. QED
    BY <2>2
<1>5. ASSUME NEW i \in 0 .. n, i # n, i \in T
      PROVE  i + 1 \in T
  <2>1. i + 1 \in 1 .. n /\ i + 1 - 1 = i /\ list[i + 1] \in S /\ i \in Nat
    <3> HIDE DEF T
    <3>1. i + 1 \in 1 .. n /\ i + 1 - 1 = i /\ i \in Nat
      BY <1>2, <1>5
    <3>2. QED
      BY <1>2, <3>1
  <2>2. Of(i + 1) = Of(i) \cup {list[i + 1]}
    <3>1. \A j \in 1 .. i + 1 : j \in 1 .. i \/ j = i + 1
      BY <2>1
    <3>2. 1 .. i \subseteq 1 .. i + 1 /\ i + 1 \in 1 .. i + 1
      BY <2>1
    <3>3. QED
      BY <3>1, <3>2
  <2>3. f[i] \in Seq(S) /\ Len(f[i]) <= i /\ Len(f[i]) \in Nat
        /\ ToSet(f[i]) = Of(i) \cap keep
    <3>1. f[i] \in Seq(S) /\ Len(f[i]) <= i /\ ToSet(f[i]) = Of(i) \cap keep
      BY <1>5
    <3>2. QED
      BY <3>1, LenProperties
  <2> HIDE DEF Of
  <2>4. CASE list[i + 1] \in keep
    <3>1. f[i + 1] = Append(f[i], list[i + 1])
      <4> HIDE DEF T
      <4>1. KeptSteps(list, keep, n, f)
        BY <1>1
      <4>2. n \in Nat /\ i \in 0 .. n /\ i # n
        BY <1>2, <1>5
      <4>3. f[i + 1] = IF list[i + 1] \in keep THEN Append(f[i], list[i + 1]) ELSE f[i]
        BY <4>1, <4>2, KeptNext
      <4>4. QED
        BY <2>4, <4>3
    <3>2. /\ f[i + 1] \in Seq(S) /\ Len(f[i + 1]) = Len(f[i]) + 1
          /\ ToSet(f[i + 1]) = ToSet(f[i]) \cup {list[i + 1]}
      BY <2>1, <2>3, <3>1, AppendProperties, ToSetAppend
    <3>3. Of(i + 1) \cap keep = (Of(i) \cap keep) \cup {list[i + 1]}
      BY <2>2, <2>4
    <3>4. Len(f[i + 1]) <= i + 1
      BY <2>1, <2>3, <3>2
    <3>5. QED
      BY <2>1, <2>3, <3>2, <3>3, <3>4
  <2>5. CASE list[i + 1] \notin keep
    <3>1. f[i + 1] = f[i]
      BY <1>3, <2>1, <2>5
    <3>2. Of(i + 1) \cap keep = Of(i) \cap keep
      BY <2>2, <2>5
    <3>3. Len(f[i + 1]) <= i + 1
      BY <2>1, <2>3, <3>1
    <3>4. QED
      BY <2>1, <2>3, <3>1, <3>2, <3>3
  <2>6. QED
    BY <2>4, <2>5
<1>6. n \in T
  <2> HIDE DEF T
  <2>1. n \in 0 .. n
    BY <1>2
  <2>2. QED
    BY <1>2, <1>4, <1>5, <2>1, UpTo
<1>7. Of(n) = ToSet(list)
  BY <1>2 DEF ToSet
<1>8. QED
  BY <1>0, <1>1, <1>6, <1>7

\* Two ways to choose that agree on the rows of the list keep the same.
LEMMA KeptSame ==
  ASSUME NEW S, NEW list \in Seq(S), NEW keep, NEW also,
         ToSet(list) \cap keep = ToSet(list) \cap also
  PROVE  Kept(list, keep) = Kept(list, also)
<1>0. PICK n \in Nat : n = Len(list)
  BY LenProperties
<1>1. PICK f : KeptSteps(list, keep, n, f) /\ Kept(list, keep) = f[n]
  BY <1>0, KeptByRow, Zenon
<1>2. PICK g : KeptSteps(list, also, n, g) /\ Kept(list, also) = g[n]
  BY <1>0, KeptByRow, Zenon
<1> DEFINE T == {i \in 0 .. n : f[i] = g[i]}
<1>3. n \in Nat /\ DOMAIN list = 1 .. n
  BY <1>0, LenProperties
<1>4. 0 \in T
  BY <1>0, <1>1, <1>2, <1>3 DEF KeptSteps
<1>5. ASSUME NEW i \in 0 .. n, i # n, i \in T
      PROVE  i + 1 \in T
  <2>1. i + 1 \in 1 .. n /\ i + 1 \in 0 .. n /\ i + 1 - 1 = i
    BY <1>3, <1>5
  <2>2. list[i + 1] \in keep <=> list[i + 1] \in also
    BY <1>3, <2>1 DEF ToSet
  <2>3. f[i + 1] = g[i + 1]
    BY <1>0, <1>1, <1>2, <1>5, <2>1, <2>2 DEF KeptSteps
  <2>4. QED
    BY <2>1, <2>3
<1>6. n \in T
  <2> HIDE DEF T
  <2>1. n \in 0 .. n
    BY <1>3
  <2>2. QED
    BY <1>3, <1>4, <1>5, <2>1, UpTo
<1>7. QED
  BY <1>0, <1>1, <1>2, <1>6

\* Nothing is left out if everything is to be kept.
LEMMA KeptAll ==
  ASSUME NEW S, NEW list \in Seq(S), NEW keep, ToSet(list) \subseteq keep
  PROVE  Kept(list, keep) = list
<1>0. PICK n \in Nat : n = Len(list)
  BY LenProperties
<1>1. PICK f : KeptSteps(list, keep, n, f) /\ Kept(list, keep) = f[n]
  BY <1>0, KeptByRow, Zenon
<1> DEFINE T == {i \in 0 .. n : /\ f[i] \in Seq(S) /\ Len(f[i]) = i
                                /\ \A j \in 1 .. i : f[i][j] = list[j]}
<1>2. n \in Nat /\ DOMAIN list = 1 .. n /\ \A i \in 1 .. n : list[i] \in S
  BY <1>0, LenProperties, ElementOfSeq
<1>3. \A i \in 1 .. n : list[i] \in keep
  BY <1>2 DEF ToSet
<1>4. 0 \in T
  <2>1. f[0] = <<>> /\ <<>> \in Seq(S) /\ Len(<<>>) = 0
    BY <1>0, <1>1 DEF KeptSteps
  <2>2. f[0] \in Seq(S) /\ Len(f[0]) = 0 /\ 0 \in 0 .. n
    BY <1>2, <2>1
  <2>3. QED
    BY <2>2
<1>5. ASSUME NEW i \in 0 .. n, i # n, i \in T
      PROVE  i + 1 \in T
  <2>1. i + 1 \in 1 .. n /\ i + 1 - 1 = i /\ list[i + 1] \in S /\ i \in Nat
    <3> HIDE DEF T
    <3>1. i + 1 \in 1 .. n /\ i + 1 - 1 = i /\ i \in Nat
      BY <1>2, <1>5
    <3>2. QED
      BY <1>2, <3>1
  <2>2. f[i + 1] = Append(f[i], list[i + 1])
    <3> HIDE DEF T
    <3>1. KeptSteps(list, keep, n, f)
      BY <1>1
    <3>2. n \in Nat /\ i \in 0 .. n /\ i # n
      BY <1>2, <1>5
    <3>3. f[i + 1] = IF list[i + 1] \in keep THEN Append(f[i], list[i + 1]) ELSE f[i]
      BY <3>1, <3>2, KeptNext
    <3>4. list[i + 1] \in keep
      BY <1>3, <2>1
    <3>5. QED
      BY <3>3, <3>4
  <2>3. f[i] \in Seq(S) /\ Len(f[i]) = i /\ \A j \in 1 .. i : f[i][j] = list[j]
    BY <1>5
  <2>4. /\ f[i + 1] \in Seq(S) /\ Len(f[i + 1]) = i + 1
        /\ \A j \in 1 .. i : f[i + 1][j] = f[i][j]
        /\ f[i + 1][i + 1] = list[i + 1]
    BY <2>1, <2>2, <2>3, AppendProperties
  <2>5. \A j \in 1 .. i + 1 : j \in 1 .. i \/ j = i + 1
    BY <2>1
  <2>6. i + 1 \in 0 .. n
    BY <2>1
  <2>7. QED
    BY <2>3, <2>4, <2>5, <2>6
<1>6. n \in T
  <2> HIDE DEF T
  <2>1. n \in 0 .. n
    BY <1>2
  <2>2. QED
    BY <1>2, <1>4, <1>5, <2>1, UpTo
<1>7. f[n] \in Seq(S) /\ Len(f[n]) = Len(list) /\ \A j \in 1 .. Len(list) : f[n][j] = list[j]
  BY <1>0, <1>6
<1>8. f[n] = list
  BY <1>7, SeqEqual
<1>9. QED
  BY <1>0, <1>1, <1>8

\* One list and then another: a name of ours, that the provers take as it is.
Then(s, t) == s \o t

LEMMA ThenAppend ==
  ASSUME NEW S, NEW s \in Seq(S), NEW t \in Seq(S), NEW x \in S
  PROVE  Append(Then(s, t), x) = Then(s, Append(t, x))
<1>1. <<x>> \in Seq(S)
  OBVIOUS
<1>2. s \o t \in Seq(S)
  BY ConcatProperties
<1>3. Append(s \o t, x) = (s \o t) \o <<x>> /\ Append(t, x) = t \o <<x>>
  BY <1>2, AppendIsConcat
<1>4. (s \o t) \o <<x>> = s \o (t \o <<x>>)
  BY <1>1, ConcatAssociative
<1>5. QED
  BY <1>3, <1>4 DEF Then

\* What is kept of two lists one after the other.
LEMMA KeptThen ==
  ASSUME NEW S, NEW s \in Seq(S), NEW t \in Seq(S), NEW keep
  PROVE  Kept(Then(s, t), keep) = Then(Kept(s, keep), Kept(t, keep))
<1>0. PICK m \in Nat, n \in Nat : m = Len(s) /\ n = Len(t)
  BY LenProperties
<1>1. /\ s \o t \in Seq(S) /\ Len(s \o t) = m + n
      /\ \A i \in 1 .. m + n : (s \o t)[i] = IF i <= m THEN s[i] ELSE t[i - m]
  BY <1>0, ConcatProperties
<1>2. \A j \in 1 .. n : t[j] \in S
  BY <1>0, ElementOfSeq
<1>3. PICK f : KeptSteps(s, keep, m, f) /\ Kept(s, keep) = f[m]
  BY <1>0, KeptByRow, Zenon
<1>4. PICK g : KeptSteps(t, keep, n, g) /\ Kept(t, keep) = g[n]
  BY <1>0, KeptByRow, Zenon
<1>5. PICK st : st = s \o t
  OBVIOUS
<1>6. PICK h : KeptSteps(st, keep, m + n, h) /\ Kept(st, keep) = h[m + n]
  BY <1>1, <1>5, KeptByRow, Zenon
<1>7. /\ \A i \in 0 .. m : i # m => st[i + 1] = s[i + 1]
      /\ \A j \in 0 .. n : j # n => st[m + j + 1] = t[j + 1]
  BY <1>0, <1>1, <1>5
<1>8. Kept(s, keep) \in Seq(S)
  BY KeptElements
<1> DEFINE A == {i \in 0 .. m : h[i] = f[i]}
           B == {j \in 0 .. n : g[j] \in Seq(S) /\ h[m + j] = f[m] \o g[j]}
<1>10. 0 \in A
  BY <1>3, <1>6 DEF KeptSteps
<1>11. ASSUME NEW i \in 0 .. m, i # m, i \in A
       PROVE  i + 1 \in A
  <2>1. i + 1 \in 0 .. m /\ h[i] = f[i]
    BY <1>0, <1>11
  <2>2. i \in 0 .. m + n /\ i # m + n /\ m + n \in Nat
    BY <1>0, <1>11
  <2>3. h[i + 1] = IF st[i + 1] \in keep THEN Append(h[i], st[i + 1]) ELSE h[i]
    <3> HIDE DEF A, B
    <3>1. KeptSteps(st, keep, m + n, h)
      BY <1>6
    <3>2. QED
      BY <2>2, <3>1, KeptNext
  <2>4. f[i + 1] = IF s[i + 1] \in keep THEN Append(f[i], s[i + 1]) ELSE f[i]
    <3> HIDE DEF A, B
    <3>1. KeptSteps(s, keep, m, f) /\ m \in Nat
      BY <1>0, <1>3
    <3>2. QED
      BY <1>11, <3>1, KeptNext
  <2>5. st[i + 1] = s[i + 1]
    BY <1>7, <1>11
  <2>6. h[i + 1] = f[i + 1]
    BY <2>1, <2>3, <2>4, <2>5
  <2>7. QED
    BY <2>1, <2>6
<1>12. h[m] = f[m]
  <2> HIDE DEF A
  <2>1. m \in 0 .. m
    BY <1>0
  <2>2. m \in A
    BY <1>0, <1>10, <1>11, <2>1, UpTo
  <2>3. QED
    BY <2>2 DEF A
<1>13. 0 \in B
  <2>1. g[0] = <<>> /\ <<>> \in Seq(S) /\ f[m] \o <<>> = f[m]
    BY <1>3, <1>4, <1>8, ConcatEmptySeq DEF KeptSteps
  <2>2. g[0] \in Seq(S) /\ h[m + 0] = f[m] \o g[0] /\ 0 \in 0 .. n
    BY <1>0, <1>12, <2>1
  <2>3. QED
    BY <2>2
<1>14. ASSUME NEW j \in 0 .. n, j # n, j \in B
       PROVE  j + 1 \in B
  <2>1. g[j] \in Seq(S) /\ h[m + j] = f[m] \o g[j]
    BY <1>14
  <2> HIDE DEF A, B
  <2>2. PICK k \in 0 .. m + n : k = m + j /\ k # m + n /\ m + n \in Nat
    BY <1>0, <1>14
  <2>3. h[k + 1] = IF st[k + 1] \in keep THEN Append(h[k], st[k + 1]) ELSE h[k]
    <3>1. PICK both \in Nat : both = m + n
      BY <2>2
    <3>2. KeptSteps(st, keep, both, h)
      BY <1>6, <3>1, Zenon
    <3>3. k \in 0 .. both /\ k # both
      BY <2>2, <3>1
    <3>4. QED
      BY <3>2, <3>3, KeptNext
  <2>4. g[j + 1] = IF t[j + 1] \in keep THEN Append(g[j], t[j + 1]) ELSE g[j]
    <3>1. KeptSteps(t, keep, n, g) /\ n \in Nat
      BY <1>0, <1>4
    <3>2. QED
      BY <1>14, <3>1, KeptNext
  <2>5. st[k + 1] = t[j + 1] /\ t[j + 1] \in S
    <3>1. m + j + 1 = k + 1 /\ j + 1 \in 1 .. n
      BY <1>0, <1>14, <2>2
    <3>2. st[m + j + 1] = t[j + 1]
      BY <1>7, <1>14
    <3>3. QED
      BY <1>2, <3>1, <3>2
  <2>6. Append(f[m] \o g[j], t[j + 1]) = f[m] \o Append(g[j], t[j + 1])
        /\ Append(g[j], t[j + 1]) \in Seq(S)
    <3>1. f[m] \in Seq(S)
      BY <1>3, <1>8
    <3>2. PICK a \in Seq(S), b \in Seq(S), x \in S :
             a = f[m] /\ b = g[j] /\ x = t[j + 1]
      BY <2>1, <2>5, <3>1
    <3>3. Append(a \o b, x) = a \o Append(b, x) /\ Append(b, x) \in Seq(S)
      <4>1. a \in Seq(S) /\ b \in Seq(S) /\ x \in S
        BY <3>2
      <4>2. Append(b, x) \in Seq(S)
        BY <4>1, AppendProperties
      <4>3. Append(Then(a, b), x) = Then(a, Append(b, x))
        BY <4>1, ThenAppend
      <4>4. QED
        BY <4>2, <4>3 DEF Then
    <3>4. QED
      BY <3>2, <3>3
  <2>7. h[k + 1] = f[m] \o g[j + 1] /\ g[j + 1] \in Seq(S)
    <3>1. h[k] = f[m] \o g[j]
      BY <2>1, <2>2
    <3>2. CASE t[j + 1] \in keep
      BY <2>3, <2>4, <2>5, <2>6, <3>1, <3>2
    <3>3. CASE t[j + 1] \notin keep
      BY <2>1, <2>3, <2>4, <2>5, <3>1, <3>3
    <3>4. QED
      BY <3>2, <3>3
  <2>8. k + 1 = m + (j + 1) /\ j + 1 \in 0 .. n
    BY <1>0, <1>14, <2>2
  <2>9. QED
    BY <2>7, <2>8 DEF B
<1>15. n \in B
  <2> HIDE DEF A, B
  <2>1. n \in 0 .. n
    BY <1>0
  <2>2. QED
    BY <1>0, <1>13, <1>14, <2>1, UpTo
<1>16. QED
  BY <1>3, <1>4, <1>5, <1>6, <1>15 DEF Then

\* One sequence is another with x put in at position p.
Inserted(t, s, p, x) ==
  /\ Len(t) = Len(s) + 1
  /\ p \in 1 .. Len(s) + 1
  /\ \A j \in 1 .. Len(s) + 1 :
       t[j] = IF j < p THEN s[j] ELSE IF j = p THEN x ELSE s[j - 1]

LEMMA ThenInserts ==
  ASSUME NEW S, NEW a \in Seq(S), NEW b \in Seq(S), NEW x \in S
  PROVE  /\ Then(Then(a, <<x>>), b) \in Seq(S)
         /\ Inserted(Then(Then(a, <<x>>), b), Then(a, b), Len(a) + 1, x)
<1> DEFINE c == a \o <<x>>
<1>1. /\ <<x>> \in Seq(S) /\ Len(<<x>>) = 1 /\ <<x>>[1] = x
  OBVIOUS
<1>2. /\ c \in Seq(S) /\ Len(c) = Len(a) + 1
      /\ \A i \in 1 .. Len(a) + 1 : c[i] = IF i <= Len(a) THEN a[i] ELSE x
  <2>1. /\ c \in Seq(S) /\ Len(c) = Len(a) + Len(<<x>>)
        /\ \A i \in 1 .. Len(a) + Len(<<x>>) :
             c[i] = IF i <= Len(a) THEN a[i] ELSE <<x>>[i - Len(a)]
    BY <1>1, ConcatProperties
  <2>2. Len(a) \in Nat
    BY LenProperties
  <2>3. \A i \in 1 .. Len(a) + 1 : ~(i <= Len(a)) => i - Len(a) = 1
    BY <2>2
  <2> HIDE DEF c
  <2>4. QED
    BY <1>1, <2>1, <2>3
<1> HIDE DEF c
<1>3. /\ c \o b \in Seq(S) /\ Len(c \o b) = Len(c) + Len(b)
      /\ \A i \in 1 .. Len(c) + Len(b) :
           (c \o b)[i] = IF i <= Len(c) THEN c[i] ELSE b[i - Len(c)]
  BY <1>2, ConcatProperties
<1>4. /\ Len(a \o b) = Len(a) + Len(b)
      /\ \A i \in 1 .. Len(a) + Len(b) :
           (a \o b)[i] = IF i <= Len(a) THEN a[i] ELSE b[i - Len(a)]
  BY ConcatProperties
<1>5. PICK m \in Nat, n \in Nat : m = Len(a) /\ n = Len(b)
  BY LenProperties
<1>6. PICK t, s : t = c \o b /\ s = a \o b
  OBVIOUS
<1>7. /\ Len(t) = m + n + 1 /\ Len(s) = m + n
      /\ \A i \in 1 .. m + n + 1 :
           t[i] = IF i <= m THEN a[i] ELSE IF i = m + 1 THEN x ELSE b[i - (m + 1)]
      /\ \A i \in 1 .. m + n : s[i] = IF i <= m THEN a[i] ELSE b[i - m]
  <2>1. Len(c) = m + 1 /\ Len(t) = m + 1 + n /\ Len(s) = m + n
    BY <1>2, <1>3, <1>4, <1>5, <1>6
  <2>2. ASSUME NEW i \in 1 .. m + n + 1
        PROVE  t[i] = IF i <= m THEN a[i] ELSE IF i = m + 1 THEN x ELSE b[i - (m + 1)]
    <3>1. t[i] = IF i <= m + 1 THEN c[i] ELSE b[i - (m + 1)]
      BY <1>3, <1>5, <1>6, <2>1
    <3>2. i <= m + 1 => c[i] = IF i <= m THEN a[i] ELSE x
      BY <1>2, <1>5
    <3>3. QED
      BY <1>5, <3>1, <3>2
  <2>3. \A i \in 1 .. m + n : s[i] = IF i <= m THEN a[i] ELSE b[i - m]
    BY <1>4, <1>5, <1>6
  <2>4. QED
    BY <1>5, <2>1, <2>2, <2>3
<1>8. ASSUME NEW j \in 1 .. m + n + 1
      PROVE  t[j] = IF j < m + 1 THEN s[j] ELSE IF j = m + 1 THEN x ELSE s[j - 1]
  <2>1. CASE j < m + 1
    <3>1. j \in 1 .. m + n /\ j <= m
      BY <1>5, <2>1
    <3>2. QED
      BY <1>7, <2>1, <3>1
  <2>2. CASE j = m + 1
    BY <1>5, <1>7, <2>2
  <2>3. CASE j > m + 1
    <3>1. j - 1 \in 1 .. m + n /\ ~(j - 1 <= m) /\ j - 1 - m = j - (m + 1)
      BY <1>5, <2>3
    <3>2. t[j] = b[j - (m + 1)] /\ s[j - 1] = b[j - 1 - m]
      BY <1>5, <1>7, <2>3, <3>1
    <3>3. QED
      BY <1>5, <2>3, <3>1, <3>2
  <2>4. QED
    BY <1>5, <2>1, <2>2, <2>3
<1>9. Inserted(t, s, m + 1, x)
  <2>1. m + 1 \in 1 .. m + n + 1
    BY <1>5
  <2>2. QED
    BY <1>7, <1>8, <2>1 DEF Inserted
<1>10. QED
  BY <1>3, <1>5, <1>6, <1>9 DEF c, Then

\* Where a list is cut to put x in.
Cut(S, list, i, x, a, b, one) ==
  /\ a \in Seq(S) /\ b \in Seq(S) /\ one \in Seq(S)
  /\ one = <<x>>
  /\ list = Then(a, b)
  /\ InsertAt(list, i, x) = Then(Then(a, one), b)

LEMMA InsertAtCuts ==
  ASSUME NEW S, NEW list \in Seq(S), NEW n \in Nat, n = Len(list),
         NEW i \in 1 .. n + 1, NEW x \in S
  PROVE  \E a, b, one : Cut(S, list, i, x, a, b, one)
<1>1. n \in Nat /\ n = Len(list)
  OBVIOUS
<1>2. \A j \in 1 .. n : list[j] \in S
  BY <1>1, ElementOfSeq
<1> DEFINE a == SubSeq(list, 1, i - 1)
           b == SubSeq(list, i, Len(list))
<1>3. a \in Seq(S) /\ Len(a) = i - 1
  <2>1. i - 1 \in Int /\ \A j \in 1 .. i - 1 : list[j] \in S
    BY <1>1, <1>2
  <2>2. a \in Seq(S) /\ Len(a) = IF 1 <= i - 1 THEN i - 1 - 1 + 1 ELSE 0
    BY <2>1, SubSeqProperties
  <2>3. QED
    BY <1>1, <2>2
<1>4. b \in Seq(S)
  <2>1. i \in Int /\ Len(list) \in Int /\ \A j \in i .. Len(list) : list[j] \in S
    BY <1>1, <1>2
  <2>2. QED
    BY <2>1, SubSeqProperties
<1>5. list = a \o b
  <2>1. CASE n = 0
    <3>1. list = <<>> /\ a \in Seq(S) /\ Len(a) = 0 /\ Len(b) = 0
      <4>1. list = <<>>
        BY <1>1, <2>1, EmptySeq
      <4>2. Len(list) < i /\ Len(list) \in Int /\ i \in Int
        BY <1>1, <2>1
      <4>3. b = <<>>
        BY <4>2, SubSeqEmpty
      <4>4. i = 1
        BY <1>1, <2>1
      <4>5. QED
        BY <1>3, <4>1, <4>3, <4>4
    <3>2. a = <<>> /\ b = <<>>
      BY <1>4, <3>1, EmptySeq
    <3>3. QED
      BY <3>1, <3>2
  <2>2. CASE n # 0
    <3>1. /\ 1 \in 1 .. Len(list) + 1 /\ i - 1 \in 1 - 1 .. Len(list)
          /\ Len(list) \in i - 1 .. Len(list)
      BY <1>1, <2>2
    <3>2. SubSeq(list, 1, i - 1) \o SubSeq(list, i - 1 + 1, Len(list))
            = SubSeq(list, 1, Len(list))
      BY <3>1, ConcatAdjacentSubSeq
    <3>3. i - 1 + 1 = i /\ SubSeq(list, 1, Len(list)) = list
      BY <1>1, SubSeqFull
    <3>4. QED
      BY <3>2, <3>3
  <2>3. QED
    BY <2>1, <2>2
<1>6. InsertAt(list, i, x) = a \o <<x>> \o b
  BY DEF InsertAt
<1>7. list = Then(a, b) /\ InsertAt(list, i, x) = Then(Then(a, <<x>>), b)
  BY <1>5, <1>6 DEF Then
<1>8. <<x>> \in Seq(S)
  OBVIOUS
<1> HIDE DEF a, b
<1>9. Cut(S, list, i, x, a, b, <<x>>)
  BY <1>3, <1>4, <1>7, <1>8 DEF Cut
<1>10. QED
  BY <1>9

\* A row that is added changes what is kept only if it is kept itself.
LEMMA KeptInsert ==
  ASSUME NEW S, NEW list \in Seq(S), NEW i \in 1 .. Len(list) + 1, NEW x \in S,
         NEW keep
  PROVE  /\ x \notin keep => Kept(InsertAt(list, i, x), keep) = Kept(list, keep)
         /\ x \in keep =>
              \E p : Inserted(Kept(InsertAt(list, i, x), keep), Kept(list, keep), p, x)
<1>0. PICK n \in Nat : n = Len(list) /\ i \in 1 .. n + 1
  BY LenProperties
<1>c. PICK a, b, one : Cut(S, list, i, x, a, b, one)
  BY <1>0, InsertAtCuts
<1>1. /\ a \in Seq(S) /\ b \in Seq(S) /\ one \in Seq(S)
      /\ one = <<x>>
      /\ list = Then(a, b)
      /\ InsertAt(list, i, x) = Then(Then(a, one), b)
  BY <1>c DEF Cut
<1>2. one = <<x>> /\ ToSet(one) = {x}
  BY <1>1 DEF ToSet
<1>3. PICK front \in Seq(S) : front = Then(a, one)
  BY <1>1, ConcatProperties DEF Then
<1>4. PICK k \in Seq(S), ka \in Seq(S), kb \in Seq(S) :
        /\ k = Kept(one, keep) /\ ka = Kept(a, keep) /\ kb = Kept(b, keep)
        /\ ToSet(k) = {x} \cap keep
  BY <1>1, <1>2, KeptElements
<1>5. Kept(list, keep) = Then(ka, kb)
  BY <1>1, <1>4, KeptThen
<1>6. Kept(InsertAt(list, i, x), keep) = Then(Then(ka, k), kb)
  <2>1. Kept(Then(front, b), keep) = Then(Kept(front, keep), kb)
    <3>1. front \in Seq(S) /\ b \in Seq(S) /\ kb = Kept(b, keep)
      BY <1>1, <1>3, <1>4
    <3>2. QED
      BY <3>1, KeptThen
  <2>2. Kept(front, keep) = Then(ka, k)
    <3>1. a \in Seq(S) /\ one \in Seq(S) /\ ka = Kept(a, keep) /\ k = Kept(one, keep)
      BY <1>1, <1>4
    <3>2. QED
      BY <1>3, <3>1, KeptThen
  <2>3. QED
    BY <1>1, <1>2, <1>3, <2>1, <2>2
<1>7. CASE x \in keep
  <2>1. k = <<x>>
    <3>1. k = one
      BY <1>1, <1>2, <1>4, <1>7, KeptAll
    <3>2. QED
      BY <1>2, <3>1
  <2>2. QED
    BY <1>4, <1>5, <1>6, <1>7, <2>1, ThenInserts
<1>8. CASE x \notin keep
  <2>1. ToSet(k) = {}
    BY <1>4, <1>8
  <2>2. k = <<>>
    <3>1. DOMAIN k = 1 .. Len(k) /\ Len(k) \in Nat
      BY <1>4, LenProperties
    <3>2. ASSUME Len(k) # 0 PROVE FALSE
      <4>1. 1 \in DOMAIN k
        BY <3>1, <3>2
      <4>2. QED
        BY <2>1, <4>1 DEF ToSet
    <3>3. QED
      BY <1>4, <3>2, EmptySeq
  <2>3. Then(ka, <<>>) = ka
    BY <1>4, ConcatEmptySeq DEF Then
  <2>4. QED
    BY <1>5, <1>6, <1>8, <2>2, <2>3
<1>9. QED
  BY <1>7, <1>8

-----------------------------------------------------------------------------
(* Sums of ledger entries.                                                 *)

\* f[i] is the sum after the first i entries of s, for i up to n.
IsSum(o, s, n, f) ==
  f = [i \in 0 .. n |-> IF i = 0 THEN o ELSE f[i - 1] + s[i].amount]

SumSteps(o, s, n, f) ==
  /\ DOMAIN f = 0 .. n
  /\ f[0] = o
  /\ \A i \in 1 .. n : f[i] = f[i - 1] + s[i].amount

LEMMA SumStepsSame ==
  ASSUME NEW o, NEW s, NEW n \in Nat, NEW f
  PROVE  (\E g : f = [i \in 0 .. n |-> g[i]]) =>
           (SumSteps(o, s, n, f) <=> IsSum(o, s, n, f))
<1> SUFFICES ASSUME NEW g, f = [i \in 0 .. n |-> g[i]]
             PROVE  SumSteps(o, s, n, f) <=> IsSum(o, s, n, f)
  OBVIOUS
<1> DEFINE h == [i \in 0 .. n |-> IF i = 0 THEN o ELSE f[i - 1] + s[i].amount]
<1>1. IsSum(o, s, n, f) <=> f = h
  BY DEF IsSum
<1>2. f = h <=> \A i \in 0 .. n : f[i] = h[i]
  OBVIOUS
<1>3. \A i \in 0 .. n : h[i] = IF i = 0 THEN o ELSE f[i - 1] + s[i].amount
  OBVIOUS
<1> HIDE DEF h
<1>4. 0 \in 0 .. n /\ \A i \in 0 .. n : i # 0 <=> i \in 1 .. n
  OBVIOUS
<1>5. QED
  BY <1>1, <1>2, <1>3, <1>4 DEF SumSteps

LEMMA SumExists ==
  ASSUME NEW o, NEW s, NEW n \in Nat
  PROVE  \E f : IsSum(o, s, n, f)
<1> DEFINE T == {i \in 0 .. n : \E f : SumSteps(o, s, i, f)}
<1>1. 0 \in T
  <2>1. SumSteps(o, s, 0, [i \in 0 .. 0 |-> o])
    BY DEF SumSteps
  <2>2. QED
    BY <2>1
<1>2. ASSUME NEW i \in 0 .. n, i # n, i \in T
      PROVE  i + 1 \in T
  <2>1. PICK f : SumSteps(o, s, i, f)
    BY <1>2
  <2> DEFINE next == f[i] + s[i + 1].amount
             g == [j \in 0 .. i + 1 |-> IF j = i + 1 THEN next ELSE f[j]]
  <2>2. /\ DOMAIN g = 0 .. i + 1 /\ g[i + 1] = next
        /\ \A j \in 0 .. i : g[j] = f[j]
    OBVIOUS
  <2>3. next = f[i] + s[i + 1].amount
    OBVIOUS
  <2> HIDE DEF next, g
  <2>4. /\ 0 \in 0 .. i /\ i \in 0 .. i /\ i + 1 - 1 = i
        /\ \A j \in 1 .. i + 1 : j # i + 1 => j \in 1 .. i /\ j \in 0 .. i /\ j - 1 \in 0 .. i
    OBVIOUS
  <2>5. SumSteps(o, s, i + 1, g)
    BY <2>1, <2>2, <2>3, <2>4 DEF SumSteps
  <2>6. i + 1 \in 0 .. n
    BY <1>2
  <2>7. QED
    BY <2>5, <2>6
<1> HIDE DEF T
<1>3. n \in T
  <2>1. n \in 0 .. n
    OBVIOUS
  <2>2. QED
    BY <1>1, <1>2, <2>1, UpTo
<1>4. PICK f : SumSteps(o, s, n, f)
  BY <1>3 DEF T
<1> DEFINE g == [i \in 0 .. n |-> f[i]]
<1>5. SumSteps(o, s, n, g)
  <2>1. DOMAIN g = 0 .. n /\ \A i \in 0 .. n : g[i] = f[i]
    OBVIOUS
  <2> HIDE DEF g
  <2>2. 0 \in 0 .. n /\ \A i \in 1 .. n : i \in 0 .. n /\ i - 1 \in 0 .. n
    OBVIOUS
  <2>3. QED
    BY <1>4, <2>1, <2>2 DEF SumSteps
<1>6. IsSum(o, s, n, g)
  BY <1>5, SumStepsSame
<1>7. QED
  BY <1>6

\* EntrySum is computed entry by entry.
LEMMA SumByEntry ==
  ASSUME NEW o, NEW s, NEW n \in Nat, n = Len(s)
  PROVE  \E f : SumSteps(o, s, n, f) /\ EntrySum(o, s) = f[n]
<1> DEFINE g == CHOOSE f : IsSum(o, s, n, f)
<1>1. IsSum(o, s, n, g)
  BY SumExists
<1>2. EntrySum(o, s) = g[n]
  BY DEF EntrySum, RunningSum, IsSum
<1> HIDE DEF g
<1>3. g = [i \in 0 .. n |-> g[i]]
  BY <1>1, Zenon DEF IsSum
<1>4. SumSteps(o, s, n, g)
  BY <1>1, <1>3, SumStepsSame
<1>5. QED
  BY <1>2, <1>4

\* Sums over the same amounts are the same, as far as both go.
LEMMA SumsAgree ==
  ASSUME NEW o, NEW s, NEW t, NEW m \in Nat, NEW n \in Nat, m <= n,
         NEW f, NEW g, SumSteps(o, s, m, f), SumSteps(o, t, n, g),
         \A i \in 1 .. m : s[i].amount = t[i].amount
  PROVE  f[m] = g[m]
<1> DEFINE T == {i \in 0 .. m : f[i] = g[i]}
<1>1. 0 \in T
  BY DEF SumSteps
<1>2. ASSUME NEW i \in 0 .. m, i # m, i \in T
      PROVE  i + 1 \in T
  <2>1. PICK k \in 1 .. m : k = i + 1 /\ k - 1 = i /\ k \in 1 .. n /\ k \in 0 .. m
    BY <1>2
  <2>2. f[k] = f[k - 1] + s[k].amount /\ g[k] = g[k - 1] + t[k].amount
    BY <2>1 DEF SumSteps
  <2>3. f[i] = g[i]
    BY <1>2
  <2> HIDE DEF T
  <2>4. f[k] = g[k]
    BY <2>1, <2>2, <2>3
  <2>5. QED
    BY <2>1, <2>4 DEF T
<1>3. m \in T
  <2> HIDE DEF T
  <2>1. m \in 0 .. m
    OBVIOUS
  <2>2. QED
    BY <1>1, <1>2, <2>1, UpTo
<1>4. QED
  BY <1>3

LEMMA SumSame ==
  ASSUME NEW o, NEW s, NEW t, NEW n \in Nat, n = Len(s), n = Len(t),
         \A i \in 1 .. n : s[i].amount = t[i].amount
  PROVE  EntrySum(o, s) = EntrySum(o, t)
<1>1. PICK f : SumSteps(o, s, n, f) /\ EntrySum(o, s) = f[n]
  BY SumByEntry
<1>2. PICK g : SumSteps(o, t, n, g) /\ EntrySum(o, t) = g[n]
  BY SumByEntry
<1>3. f[n] = g[n]
  BY <1>1, <1>2, SumsAgree
<1>4. QED
  BY <1>1, <1>2, <1>3

\* t goes on after s: its entry k is one more to add.
GoesOn(o, s, t, k) == EntrySum(o, t) = EntrySum(o, s) + t[k].amount

LEMMA SumNext ==
  ASSUME NEW o, NEW s, NEW t, NEW n \in Nat, NEW k \in Nat, k = n + 1,
         n = Len(s), k = Len(t), \A i \in 1 .. n : s[i].amount = t[i].amount
  PROVE  GoesOn(o, s, t, k)
<1>0. k - 1 = n /\ k \in 1 .. k /\ n <= k
  OBVIOUS
<1>1. PICK f : SumSteps(o, s, n, f) /\ EntrySum(o, s) = f[n]
  BY SumByEntry
<1>2. PICK g : SumSteps(o, t, k, g) /\ EntrySum(o, t) = g[k]
  BY <1>0, SumByEntry
<1>3. f[n] = g[n]
  BY <1>0, <1>1, <1>2, SumsAgree
<1>4. g[k] = g[k - 1] + t[k].amount
  BY <1>0, <1>2 DEF SumSteps
<1>5. QED
  BY <1>0, <1>1, <1>2, <1>3, <1>4 DEF GoesOn

\* A sum of whole numbers is one.
LEMMA SumType ==
  ASSUME NEW o \in Int, NEW s, NEW n \in Nat, n = Len(s),
         \A i \in 1 .. n : s[i].amount \in Int
  PROVE  EntrySum(o, s) \in Int
<1>1. PICK f : SumSteps(o, s, n, f) /\ EntrySum(o, s) = f[n]
  BY SumByEntry
<1> DEFINE T == {i \in 0 .. n : f[i] \in Int}
<1>2. 0 \in T
  BY <1>1 DEF SumSteps
<1>3. ASSUME NEW i \in 0 .. n, i # n, i \in T
      PROVE  i + 1 \in T
  <2>1. PICK k \in 1 .. n : k = i + 1 /\ k - 1 = i /\ k \in 0 .. n
    BY <1>3
  <2>2. f[k] = f[k - 1] + s[k].amount /\ s[k].amount \in Int
    BY <1>1, <2>1 DEF SumSteps
  <2>3. f[i] \in Int
    BY <1>3
  <2>4. QED
    BY <2>1, <2>2, <2>3
<1>4. n \in T
  <2> HIDE DEF T
  <2>1. n \in 0 .. n
    OBVIOUS
  <2>2. QED
    BY <1>2, <1>3, <2>1, UpTo
<1>5. QED
  BY <1>1, <1>4

-----------------------------------------------------------------------------
(* The list.                                                               *)

ListCalls == [page : Nat \ {0}, search : Searches,
              step : {"sent", "counted", "refused", "answered"},
              count : Nat, rows : Seq(Keys), shifted : BOOLEAN]

ListTypes ==
  /\ AdminTypeOK
  /\ stack \in Stacks /\ garbled \in BOOLEAN
  /\ tab \in [page : Nat \ {0}, search : Searches, shown : Seq(Keys), count : Nat]
  /\ calls \in Seq(ListCalls)
  /\ \A i \in DOMAIN calls : calls[i].count <= Len(rows)
  /\ walk \in [from : Nat, seen : SUBSET Keys, shifted : BOOLEAN, hasty : BOOLEAN]
  /\ walk.from <= Len(rows)
  /\ DOMAIN txn = Keys

\* The rows the tab asks for, as they are now, and what of the first n of them
\* was there when the search was typed and is in "seen".
Shown == Among(rows, tab.search)
Covered(n, seen) ==
  \A j \in DOMAIN Shown : (j <= n /\ Shown[j] <= walk.from) => Shown[j] \in seen

\* A page that is not beyond the end, and will not be.
Within(page) == page = 1 \/ (page - 1) * PageSize < Len(Shown)

CountedAt(n, count) == count = Len(Among(ListAfter(n), tab.search))
TakenAt(m, page, count, slice) ==
  slice = PageOf(Among(ListAfter(m), tab.search), page, count)

\* A reply with that page and count completes what it is read for: all pages up
\* to its own, and, if it is the last page, everything.
Completes(page, count, shifted, seen) ==
  /\ count > page * PageSize => Covered(page * PageSize, seen)
  /\ (count <= page * PageSize /\ ~shifted) => Covered(Len(Shown), seen)

\* A call that was sent since the search was typed.
Asked(c) ==
  /\ c.search = tab.search /\ c.step # "refused" /\ Within(c.page)
  /\ c.step # "sent" => c.count <= Len(Shown)
  /\ c.step = "counted" =>
       /\ \E n \in walk.from .. Len(rows) : CountedAt(n, c.count)
       /\ ~c.shifted => c.count = Len(Shown)
  /\ c.step = "answered" =>
       \E n \in walk.from .. Len(rows) :
         /\ CountedAt(n, c.count)
         /\ \E m \in n .. Len(rows) : TakenAt(m, c.page, c.count, c.rows)
  /\ ~walk.hasty =>
       /\ Covered((c.page - 1) * PageSize, walk.seen)
       /\ c.step = "answered" =>
            Completes(c.page, c.count, c.shifted, walk.seen \cup ToSet(c.rows))

\* The first page of the search is still to come ...
FirstPageComing ==
  /\ tab.page = 1
  /\ \E b \in DOMAIN calls :
       \A i \in DOMAIN calls : i >= b => Asked(calls[i]) /\ calls[i].page = 1

\* ... or it has arrived, and all that is in flight was sent since.
PagesComing ==
  /\ \A i \in DOMAIN calls : Asked(calls[i])
  /\ Within(tab.page) /\ tab.count <= Len(Shown)
  /\ ~walk.hasty => Covered((tab.page - 1) * PageSize, walk.seen)
  /\ calls = <<>> =>
       /\ \E n \in walk.from .. Len(rows) :
            /\ CountedAt(n, tab.count)
            /\ \E m \in n .. Len(rows) : TakenAt(m, tab.page, tab.count, tab.shown)
       /\ ~walk.hasty => Completes(tab.page, tab.count, walk.shifted, walk.seen)

ListInv ==
  ~garbled =>
    /\ calls # <<>> => calls[Len(calls)].page = tab.page
    /\ FirstPageComing \/ PagesComing

-----------------------------------------------------------------------------
(* The statistics.                                                         *)

Entries == [ref : Keys, amount : Int, after : Int]
LedgerTypes ==
  /\ balance \in [Wallets -> Int]
  /\ ledger \in [Wallets -> Seq(Entries)]
  /\ \A w \in Wallets : \A i \in DOMAIN ledger[w] : ledger[w][i].ref <= Len(rows)

\* Drifts happen beside the audit only.
Balanced ==
  reader # "audit" => \A w \in Wallets : balance[w] = BalanceAfter(Len(rows), w)

TotalsRead ==
  /\ DOMAIN stats = {"step", "ngn", "usd", "txns"}
  /\ stats.step \in {"usd", "count"} =>
       \E n \in 0 .. Len(rows) :
         /\ stats.ngn = TotalAfter(n, "NGN")
         /\ stats.step = "count" =>
              \E m \in n .. Len(rows) : stats.usd = TotalAfter(m, "USD")
  /\ stats.step = "answered" => stats.txns \in 0 .. Len(rows)
  /\ StatisticsInOrder

OfficeInv == ListTypes /\ ListInv /\ LedgerTypes /\ Balanced /\ TotalsRead

-----------------------------------------------------------------------------
(* Views of the list.                                                      *)

LEMMA SomePost ==
  ASSUME Next
  PROVE  \E k \in Keys : \E type, amount, legs :
           /\ Post(k, type, amount, legs)
           /\ \A w \in DOMAIN legs : legs[w] \in Int
<1>1. PICK k \in Keys, amount \in 1 .. MaxBalance, v \in Wallets, w \in Wallets :
             Deposit(k, w, amount) \/ Withdraw(k, w, amount)
               \/ Transfer(k, v, w, amount)
  BY DEF Next
<1>2. amount \in Int /\ -amount \in Int
  BY AuditAssumption
<1> DEFINE in == [x \in {w} |-> amount]
           out == [x \in {w} |-> -amount]
           both == [x \in {v, w} |-> IF x = v THEN -amount ELSE amount]
<1>3. /\ \A x \in DOMAIN in : in[x] \in Int
      /\ \A x \in DOMAIN out : out[x] \in Int
      /\ \A x \in DOMAIN both : both[x] \in Int
  BY <1>2
<1>4. \/ Post(k, "DEPOSIT", amount, in) \/ Post(k, "WITHDRAWAL", amount, out)
      \/ Post(k, "TRANSFER", amount, both)
  BY <1>1 DEF Deposit, Withdraw, Transfer
<1> HIDE DEF in, out, both
<1>5. QED
  BY <1>3, <1>4

LEMMA ViewTypes ==
  ASSUME NEW list \in Seq(Keys), NEW search
  PROVE  /\ Among(list, search) \in Seq(Keys)
         /\ Len(Among(list, search)) \in Nat
         /\ Len(Among(list, search)) <= Len(list)
         /\ ToSet(Among(list, search)) = ToSet(list) \cap Matching(search)
<1>1. PICK keep : keep = Matching(search)
  OBVIOUS
<1>2. PICK l : l = Kept(list, keep)
  OBVIOUS
<1>3. l \in Seq(Keys) /\ Len(l) <= Len(list) /\ ToSet(l) = ToSet(list) \cap keep
  BY <1>2, KeptElements
<1>4. Len(l) \in Nat
  BY <1>3, LenProperties
<1>5. QED
  BY <1>1, <1>2, <1>3, <1>4 DEF Among

LEMMA AfterTypes ==
  ASSUME rows \in Seq(Keys), NEW n
  PROVE  /\ ListAfter(n) \in Seq(Keys)
         /\ ToSet(ListAfter(n)) = ToSet(rows) \cap 1 .. n
<1>1. PICK keep : keep = 1 .. n
  OBVIOUS
<1>2. QED
  BY <1>1, KeptElements DEF ListAfter

LEMMA AfterAll ==
  ASSUME rows \in Seq(Keys), ToSet(rows) = 1 .. Len(rows)
  PROVE  ListAfter(Len(rows)) = rows
<1>1. PICK keep : keep = 1 .. Len(rows)
  OBVIOUS
<1>2. ToSet(rows) \subseteq keep
  BY <1>1
<1>3. Kept(rows, keep) = rows
  BY <1>2, KeptAll
<1>4. QED
  BY <1>1, <1>3 DEF ListAfter

LEMMA InsertAtInserted ==
  ASSUME NEW S, NEW list \in Seq(S), NEW n \in Nat, n = Len(list),
         NEW i \in 1 .. n + 1, NEW x \in S
  PROVE  /\ InsertAt(list, i, x) \in Seq(S)
         /\ \E p : Inserted(InsertAt(list, i, x), list, p, x)
<1>1. PICK a, b, one : Cut(S, list, i, x, a, b, one)
  BY InsertAtCuts
<1>2. /\ a \in Seq(S) /\ b \in Seq(S) /\ one = <<x>>
      /\ list = Then(a, b)
      /\ InsertAt(list, i, x) = Then(Then(a, one), b)
  BY <1>1 DEF Cut
<1>3. /\ Then(Then(a, <<x>>), b) \in Seq(S)
      /\ Inserted(Then(Then(a, <<x>>), b), Then(a, b), Len(a) + 1, x)
  BY <1>2, ThenInserts
<1>4. QED
  BY <1>2, <1>3

\* What is in a list after x was put in.
LEMMA InsertedElements ==
  ASSUME NEW S, NEW s \in Seq(S), NEW t \in Seq(S), NEW p, NEW x,
         Inserted(t, s, p, x)
  PROVE  /\ ToSet(t) = ToSet(s) \cup {x}
         /\ (IsInjective(s) /\ x \notin ToSet(s)) => IsInjective(t)
<1>1. PICK n \in Nat : n = Len(s)
  BY LenProperties
<1>2. /\ DOMAIN t = 1 .. n + 1 /\ DOMAIN s = 1 .. n /\ p \in 1 .. n + 1
      /\ \A j \in 1 .. n + 1 :
           t[j] = IF j < p THEN s[j] ELSE IF j = p THEN x ELSE s[j - 1]
  BY <1>1, LenProperties DEF Inserted
<1>3. \A j \in 1 .. n + 1 : /\ j < p => j \in 1 .. n
                            /\ j > p => j - 1 \in 1 .. n
                            /\ j < p \/ j = p \/ j > p
  BY <1>2
<1>4. ASSUME NEW j \in 1 .. n
      PROVE  \E i \in 1 .. n + 1 : t[i] = s[j]
  <2>1. CASE j < p
    <3>1. j \in 1 .. n + 1 /\ t[j] = s[j]
      BY <1>2, <2>1
    <3>2. QED
      BY <3>1
  <2>2. CASE ~(j < p)
    <3>1. j + 1 \in 1 .. n + 1 /\ ~(j + 1 < p) /\ j + 1 # p /\ j + 1 - 1 = j
      BY <1>2, <2>2
    <3>2. t[j + 1] = s[j + 1 - 1]
      BY <1>2, <3>1
    <3>3. t[j + 1] = s[j]
      BY <3>1, <3>2
    <3>4. QED
      BY <3>1, <3>3
  <2>3. QED
    BY <2>1, <2>2
<1>5. ToSet(t) = ToSet(s) \cup {x}
  <2>1. ASSUME NEW e \in ToSet(t) PROVE e \in ToSet(s) \cup {x}
    <3>1. PICK j \in 1 .. n + 1 : e = t[j]
      BY <1>2, <2>1 DEF ToSet
    <3>2. e = x \/ \E i \in 1 .. n : e = s[i]
      BY <1>2, <1>3, <3>1
    <3>3. QED
      BY <1>2, <3>2 DEF ToSet
  <2>2. t[p] = x /\ p \in DOMAIN t
    BY <1>2
  <2>3. x \in ToSet(t)
    BY <2>2 DEF ToSet
  <2>4. ToSet(s) \subseteq ToSet(t)
    BY <1>2, <1>4 DEF ToSet
  <2>5. QED
    BY <2>1, <2>3, <2>4
<1>6. ASSUME IsInjective(s), x \notin ToSet(s) PROVE IsInjective(t)
  <2>1. \A j \in 1 .. n : s[j] # x
    BY <1>2, <1>6 DEF ToSet
  <2>2. \A i, j \in 1 .. n : s[i] = s[j] => i = j
    BY <1>2, <1>6 DEF IsInjective
  <2>3. ASSUME NEW i \in 1 .. n + 1, NEW j \in 1 .. n + 1, t[i] = t[j], i < j
        PROVE  FALSE
    <3>1. CASE j < p
      <4>1. i < p /\ j < p
        BY <1>2, <2>3, <3>1
      <4>2. t[i] = s[i] /\ t[j] = s[j] /\ i \in 1 .. n /\ j \in 1 .. n
        BY <1>2, <1>3, <4>1
      <4>3. i = j
        BY <2>2, <2>3, <4>2
      <4>4. QED
        BY <2>3, <4>3
    <3>2. CASE j = p
      <4>1. t[i] = s[i] /\ t[j] = x /\ i \in 1 .. n
        BY <1>2, <1>3, <2>3, <3>2
      <4>2. QED
        BY <2>1, <2>3, <4>1
    <3>3. CASE j > p
      <4>1. t[j] = s[j - 1] /\ j - 1 \in 1 .. n
        BY <1>2, <1>3, <3>3
      <4>2. CASE i < p
        <5>1. t[i] = s[i] /\ i \in 1 .. n /\ i # j - 1
          BY <1>2, <1>3, <3>3, <4>2
        <5>2. QED
          BY <2>2, <2>3, <4>1, <5>1
      <4>3. CASE i = p
        <5>1. t[i] = x
          BY <1>2, <4>3
        <5>2. QED
          BY <2>1, <2>3, <4>1, <5>1
      <4>4. CASE i > p
        <5>1. t[i] = s[i - 1] /\ i - 1 \in 1 .. n /\ i - 1 # j - 1
          BY <1>2, <1>3, <2>3, <4>4
        <5>2. QED
          BY <2>2, <2>3, <4>1, <5>1
      <4>5. QED
        BY <1>2, <4>2, <4>3, <4>4
    <3>4. QED
      BY <1>2, <3>1, <3>2, <3>3
  <2>4. \A i, j \in 1 .. n + 1 : t[i] = t[j] => i = j
    <3>1. \A i, j \in 1 .. n + 1 : i = j \/ i < j \/ j < i
      BY <1>1
    <3>2. QED
      BY <2>3, <3>1
  <2>5. QED
    BY <1>2, <2>4 DEF IsInjective
<1>7. QED
  BY <1>5, <1>6

-----------------------------------------------------------------------------
(* A posting and the list.                                                 *)

\* The posting that commits has key x, and its row is put in.
NewRow(x) ==
  /\ x \in Keys /\ Len(rows) \in Nat /\ x = Len(rows) + 1
  /\ DOMAIN txn' = Keys /\ txn'[x] # NoTxn
  /\ \A k \in Keys : k # x => txn'[k] = txn[k]
  /\ \E i \in 1 .. Len(rows) + 1 : rows' = InsertAt(rows, i, x)
  /\ \E type, amount, legs : /\ Post(x, type, amount, legs)
                             /\ \A w \in DOMAIN legs : legs[w] \in Int

LEMMA PostingAddsRow ==
  ASSUME AdminTypeOK, DOMAIN txn = Keys, Next, ListRow
  PROVE  \E x : NewRow(x)
<1>1. PICK n \in Nat : n = Len(rows)
  BY LenProperties DEF AdminTypeOK
<1>2. PICK k \in Keys : \E type, amount, legs :
           /\ Post(k, type, amount, legs)
           /\ \A w \in DOMAIN legs : legs[w] \in Int
  BY SomePost
<1>3. /\ txn[k] = NoTxn /\ DOMAIN txn' = Keys
      /\ \A q \in Keys : q # k => txn'[q] = txn[q]
  BY <1>2 DEF Post
<1>4. PICK size \in Nat : Keys = 1 .. size
  BY AdminAssumption, FS_CardinalityType
<1>5. {q \in Keys : txn[q] # NoTxn} = 1 .. n
  BY <1>1 DEF AdminTypeOK
<1>6. k \notin 1 .. n /\ k \in 1 .. size
  BY <1>3, <1>4, <1>5
<1>7. n + 1 \in Keys /\ n + 1 \notin 1 .. n
  BY <1>4, <1>6
<1>8. txn'[n + 1] # NoTxn /\ txn[n + 1] = NoTxn
  BY <1>1, <1>5, <1>7 DEF ListRow
<1>9. k = n + 1
  BY <1>3, <1>7, <1>8
<1>10. \E i \in 1 .. n + 1 : rows' = InsertAt(rows, i, n + 1)
  BY <1>1 DEF ListRow
<1>11. NewRow(n + 1)
  BY <1>1, <1>2, <1>3, <1>7, <1>8, <1>9, <1>10 DEF NewRow
<1>12. QED
  BY <1>11

LEMMA RowsGrow ==
  ASSUME AdminTypeOK, NEW x, NewRow(x)
  PROVE  /\ rows' \in Seq(Keys) /\ Len(rows') = Len(rows) + 1
         /\ ToSet(rows') = ToSet(rows) \cup {x}
         /\ IsInjective(rows')
         /\ ToSet(rows') = 1 .. Len(rows')
         /\ ToSet(rows') = {k \in Keys : txn'[k] # NoTxn}
         /\ x \notin ToSet(rows) /\ x \in Nat
<1>1. PICK n \in Nat : n = Len(rows) /\ x = n + 1
  BY DEF NewRow
<1>2. PICK i \in 1 .. n + 1 : rows' = InsertAt(rows, i, x)
  BY <1>1 DEF NewRow
<1>3. rows \in Seq(Keys) /\ x \in Keys /\ ToSet(rows) = 1 .. n
  BY <1>1 DEF AdminTypeOK, NewRow
<1>4. PICK new : new = InsertAt(rows, i, x)
  OBVIOUS
<1>5. new \in Seq(Keys) /\ \E p : Inserted(new, rows, p, x)
  BY <1>1, <1>2, <1>3, <1>4, InsertAtInserted
<1>6. PICK p : Inserted(new, rows, p, x)
  BY <1>5
<1>7. Len(new) = n + 1
  BY <1>1, <1>6 DEF Inserted
<1>8. x \notin ToSet(rows) /\ IsInjective(rows)
  BY <1>1, <1>3 DEF AdminTypeOK
<1>9. ToSet(new) = ToSet(rows) \cup {x} /\ IsInjective(new)
  BY <1>3, <1>5, <1>6, <1>8, InsertedElements
<1>10. 1 .. n + 1 = 1 .. n \cup {n + 1}
  BY <1>1
<1>11. ToSet(new) = 1 .. n + 1
  BY <1>1, <1>3, <1>9, <1>10
<1>12. {k \in Keys : txn'[k] # NoTxn} = {k \in Keys : txn[k] # NoTxn} \cup {x}
  BY <1>3 DEF NewRow, AdminTypeOK
<1>13. ToSet(new) = {k \in Keys : txn'[k] # NoTxn}
  BY <1>9, <1>12 DEF AdminTypeOK
<1>14. rows' = new
  BY <1>2, <1>4
<1>15. QED
  BY <1>1, <1>5, <1>7, <1>8, <1>9, <1>11, <1>13, <1>14

\* The list of before is part of the list of after.
LEMMA AfterStays ==
  ASSUME AdminTypeOK, NEW x, NewRow(x), NEW n \in Int, n <= Len(rows)
  PROVE  ListAfter(n)' = ListAfter(n)
<1>1. PICK m \in Nat : m = Len(rows) /\ x = m + 1
  BY DEF NewRow
<1>2. PICK i \in 1 .. m + 1 : rows' = InsertAt(rows, i, x)
  BY <1>1 DEF NewRow
<1>3. PICK keep : keep = 1 .. n
  OBVIOUS
<1>4. x \notin keep
  BY <1>1, <1>3
<1>5. rows \in Seq(Keys) /\ x \in Keys /\ i \in 1 .. Len(rows) + 1
  BY <1>1, <1>2 DEF AdminTypeOK, NewRow
<1>6. Kept(InsertAt(rows, i, x), keep) = Kept(rows, keep)
  BY <1>4, <1>5, KeptInsert
<1>7. QED
  BY <1>2, <1>3, <1>6 DEF ListAfter

\* Which of the old rows are searched for is as before.
LEMMA MatchingStays ==
  ASSUME AdminTypeOK, NEW x, NewRow(x), NEW search
  PROVE  ToSet(rows) \cap Matching(search)' = Matching(search)
<1>1. ToSet(rows') = ToSet(rows) \cup {x} /\ x \notin ToSet(rows)
  BY RowsGrow
<1>2. \A k \in ToSet(rows) : k \in Keys /\ k # x
  BY <1>1 DEF AdminTypeOK
<1>3. \A k \in ToSet(rows) : txn'[k] = txn[k]
  BY <1>2 DEF NewRow
<1>4. Matching(search)' = {k \in ToSet(rows') : search \in {"", txn'[k].type}}
  BY DEF Matching
<1>5. Matching(search) = {k \in ToSet(rows) : search \in {"", txn[k].type}}
  BY DEF Matching
<1>6. QED
  BY <1>1, <1>3, <1>4, <1>5

LEMMA ViewStays ==
  ASSUME AdminTypeOK, NEW x, NewRow(x), NEW search, NEW list \in Seq(Keys),
         ToSet(list) \subseteq ToSet(rows)
  PROVE  Kept(list, Matching(search)') = Kept(list, Matching(search))
<1>1. PICK old, new : old = Matching(search) /\ new = Matching(search)'
  OBVIOUS
<1>2. ToSet(rows) \cap new = old
  BY <1>1, MatchingStays
<1>3. ToSet(list) \cap new = ToSet(list) \cap old
  BY <1>2
<1>4. Kept(list, new) = Kept(list, old)
  BY <1>3, KeptSame
<1>5. QED
  BY <1>1, <1>4

LEMMA PastViewStays ==
  ASSUME AdminTypeOK, NEW x, NewRow(x), NEW search, NEW n \in Int, n <= Len(rows)
  PROVE  Among(ListAfter(n), search)' = Kept(ListAfter(n), Matching(search))
<1>1. PICK list : list = ListAfter(n)
  OBVIOUS
<1>2. list \in Seq(Keys) /\ ToSet(list) \subseteq ToSet(rows)
  BY <1>1, AfterTypes DEF AdminTypeOK
<1>3. Kept(list, Matching(search)') = Kept(list, Matching(search))
  BY <1>2, ViewStays
<1>4. ListAfter(n)' = list
  BY <1>1, AfterStays
<1>5. Among(ListAfter(n), search)' = Kept(ListAfter(n)', Matching(search)')
  BY DEF Among
<1>6. QED
  BY <1>1, <1>3, <1>4, <1>5

\* A view changes by the new row only.
LEMMA ViewGrows ==
  ASSUME AdminTypeOK, NEW x, NewRow(x), NEW search
  PROVE  \/ Among(rows, search)' = Among(rows, search)
         \/ \E p : Inserted(Among(rows, search)', Among(rows, search), p, x)
<1>1. PICK m \in Nat : m = Len(rows) /\ x = m + 1
  BY DEF NewRow
<1>2. PICK i \in 1 .. m + 1 : rows' = InsertAt(rows, i, x)
  BY <1>1 DEF NewRow
<1>3. PICK old, new : old = Matching(search) /\ new = Matching(search)'
  OBVIOUS
<1>4. rows \in Seq(Keys) /\ x \in Keys /\ i \in 1 .. Len(rows) + 1
  BY <1>1, <1>2 DEF AdminTypeOK, NewRow
<1>5. Kept(rows, new) = Kept(rows, old)
  BY <1>3, <1>4, ViewStays
<1>6. /\ Among(rows, search)' = Kept(InsertAt(rows, i, x), new)
      /\ Among(rows, search) = Kept(rows, old)
  BY <1>2, <1>3 DEF Among
<1>7. /\ x \notin new => Kept(InsertAt(rows, i, x), new) = Kept(rows, new)
      /\ x \in new =>
           \E p : Inserted(Kept(InsertAt(rows, i, x), new), Kept(rows, new), p, x)
  BY <1>4, KeptInsert
<1>8. QED
  BY <1>5, <1>6, <1>7

LEMMA SizesArePositive ==
  PageSize \in Nat \ {0} /\ MaxCalls \in Nat \ {0}
BY AdminAssumption

\* Where the pages begin and end.
LEMMA PageOffsets ==
  ASSUME NEW page \in Nat \ {0}
  PROVE  /\ page * PageSize \in Nat /\ (page - 1) * PageSize \in Nat
         /\ page * PageSize = (page - 1) * PageSize + PageSize
         /\ page <= page * PageSize
<1>1. PICK size \in Nat \ {0} : size = PageSize
  BY SizesArePositive
<1>2. PICK before \in Nat : before = page - 1
  OBVIOUS
<1>3. before * size \in Nat /\ before <= before * size
  <2>1. CASE before = 0
    BY <2>1
  <2>2. CASE before # 0
    BY <2>2
  <2>3. QED
    BY <2>1, <2>2
<1>4. page * size = before * size + size
  BY <1>2
<1>5. page * size \in Nat /\ page <= page * size
  BY <1>2, <1>3, <1>4
<1>6. QED
  BY <1>1, <1>2, <1>3, <1>4, <1>5

CoveredIn(list, from, n, seen) ==
  \A j \in DOMAIN list : (j <= n /\ list[j] <= from) => list[j] \in seen

\* A page that begins within a list goes on doing so, and so do those before it.
LEMMA LaterBegins ==
  ASSUME NEW page \in Nat \ {0}, NEW n \in Nat, BeginsWithin(page, n)
  PROVE  BeginsWithin(page, n + 1)
<1>1. PICK before \in Nat : before = (page - 1) * PageSize
  BY PageOffsets
<1>2. page = 1 \/ before < n
  BY <1>1 DEF BeginsWithin
<1>3. page = 1 \/ before < n + 1
  BY <1>2
<1>4. QED
  BY <1>1, <1>3 DEF BeginsWithin

LEMMA EarlierBegins ==
  ASSUME NEW page \in Nat \ {0}, NEW next, next = page + 1,
         NEW n \in Nat, BeginsWithin(next, n)
  PROVE  BeginsWithin(page, n)
<1>1. PICK before \in Nat, upto \in Nat, size \in Nat \ {0} :
        /\ before = (page - 1) * PageSize /\ upto = page * PageSize
        /\ size = PageSize /\ upto = before + size
  BY PageOffsets, SizesArePositive
<1>2. next # 1 /\ next - 1 = page
  OBVIOUS
<1>3. upto < n
  BY <1>1, <1>2 DEF BeginsWithin
<1>4. before < n
  BY <1>1, <1>3
<1>5. QED
  BY <1>1, <1>4 DEF BeginsWithin


LEMMA InsertedCovers ==
  ASSUME NEW old \in Seq(Keys), NEW new \in Seq(Keys), NEW p, NEW x \in Nat,
         Inserted(new, old, p, x), NEW from \in Nat, from < x, NEW seen
  PROVE  /\ \A n \in Nat :
              CoveredIn(old, from, n, seen) => CoveredIn(new, from, n, seen)
         /\ CoveredIn(old, from, Len(old), seen)
              => CoveredIn(new, from, Len(new), seen)
<1>1. PICK m \in Nat : m = Len(old)
  BY LenProperties
<1>2. /\ DOMAIN new = 1 .. m + 1 /\ DOMAIN old = 1 .. m /\ p \in 1 .. m + 1
      /\ Len(new) = m + 1
      /\ \A j \in 1 .. m + 1 :
           new[j] = IF j < p THEN old[j] ELSE IF j = p THEN x ELSE old[j - 1]
  BY <1>1, LenProperties DEF Inserted
<1>3. ASSUME NEW n \in Nat, CoveredIn(old, from, n, seen) \/ m <= n,
             \A j \in 1 .. m : (j <= n /\ old[j] <= from) => old[j] \in seen,
             NEW j \in 1 .. m + 1, j <= n \/ m <= n, new[j] <= from
      PROVE  new[j] \in seen
  <2>1. CASE j < p
    <3>1. j \in 1 .. m /\ new[j] = old[j] /\ j <= n
      BY <1>1, <1>2, <1>3, <2>1
    <3>2. QED
      BY <1>3, <3>1
  <2>2. CASE j = p
    <3>1. new[j] = x
      BY <1>2, <2>2
    <3>2. QED
      BY <1>3, <3>1
  <2>3. CASE j > p
    <3>1. j - 1 \in 1 .. m /\ new[j] = old[j - 1] /\ j - 1 <= n
      BY <1>1, <1>2, <1>3, <2>3
    <3>2. QED
      BY <1>3, <3>1
  <2>4. QED
    BY <1>2, <2>1, <2>2, <2>3
<1>4. ASSUME NEW n \in Nat, CoveredIn(old, from, n, seen)
      PROVE  CoveredIn(new, from, n, seen)
  <2>1. \A j \in 1 .. m : (j <= n /\ old[j] <= from) => old[j] \in seen
    BY <1>2, <1>4 DEF CoveredIn
  <2>2. \A j \in 1 .. m + 1 : (j <= n /\ new[j] <= from) => new[j] \in seen
    BY <1>3, <1>4, <2>1
  <2>3. QED
    BY <1>2, <2>2 DEF CoveredIn
<1>5. ASSUME CoveredIn(old, from, m, seen)
      PROVE  CoveredIn(new, from, m + 1, seen)
  <2>1. \A j \in 1 .. m : (j <= m /\ old[j] <= from) => old[j] \in seen
    BY <1>2, <1>5 DEF CoveredIn
  <2>2. m <= m
    BY <1>1
  <2>3. \A j \in 1 .. m + 1 : (j <= m + 1 /\ new[j] <= from) => new[j] \in seen
    BY <1>1, <1>3, <1>5, <2>1, <2>2
  <2>4. QED
    BY <1>2, <2>3 DEF CoveredIn
<1>6. QED
  BY <1>1, <1>2, <1>4, <1>5

LEMMA ShownTypes ==
  ASSUME ListTypes
  PROVE  /\ Shown \in Seq(Keys) /\ Len(Shown) \in Nat /\ Len(Shown) <= Len(rows)
         /\ Len(rows) \in Nat /\ walk.from \in Nat
         /\ DOMAIN Shown = 1 .. Len(Shown)
<1>1. rows \in Seq(Keys)
  BY DEF ListTypes, AdminTypeOK
<1>2. PICK search : search = tab.search
  OBVIOUS
<1>3. /\ Among(rows, search) \in Seq(Keys) /\ Len(Among(rows, search)) \in Nat
      /\ Len(Among(rows, search)) <= Len(rows)
  BY <1>1, ViewTypes
<1>4. PICK list : list = Shown
  OBVIOUS
<1>5. list \in Seq(Keys) /\ Len(list) \in Nat /\ Len(list) <= Len(rows)
  BY <1>2, <1>3, <1>4 DEF Shown
<1>6. DOMAIN list = 1 .. Len(list) /\ Len(rows) \in Nat
  BY <1>1, <1>5, LenProperties
<1>7. walk.from \in Nat
  BY DEF ListTypes
<1>8. QED
  BY <1>4, <1>5, <1>6, <1>7

LEMMA PostingKeepsViews ==
  ASSUME ListTypes, NEW x, NewRow(x), UNCHANGED <<stack, tab, walk>>
  PROVE  /\ Len(rows') = Len(rows) + 1
         /\ Len(Shown)' \in Nat /\ Len(Shown) <= Len(Shown)'
         /\ \A seen : \A n \in Nat : Covered(n, seen) => Covered(n, seen)'
         /\ \A seen : Covered(Len(Shown), seen) => Covered(Len(Shown), seen)'
         /\ \A n \in walk.from .. Len(rows) : \A count :
              CountedAt(n, count) => CountedAt(n, count)'
         /\ \A n \in walk.from .. Len(rows) : \A page, count, slice :
              TakenAt(n, page, count, slice) => TakenAt(n, page, count, slice)'
         /\ \A page \in Nat : Within(page) => Within(page)'
<1>1. AdminTypeOK /\ walk.from \in Nat /\ walk.from <= Len(rows) /\ Len(rows) \in Nat
  BY ShownTypes DEF ListTypes
<1>2. /\ rows' \in Seq(Keys) /\ Len(rows') = Len(rows) + 1 /\ x \in Nat
      /\ x = Len(rows) + 1
  BY <1>1, RowsGrow DEF NewRow
<1>3. PICK old, new, from, search :
             old = Shown /\ new = Shown' /\ from = walk.from /\ search = tab.search
  OBVIOUS
<1>4. old \in Seq(Keys) /\ Len(old) \in Nat
  BY <1>3, ShownTypes
<1>5. new = old \/ \E p : Inserted(new, old, p, x)
  <2>1. \/ Among(rows, search)' = Among(rows, search)
        \/ \E p : Inserted(Among(rows, search)', Among(rows, search), p, x)
    BY <1>1, ViewGrows
  <2>2. Among(rows, search) = old
    BY <1>3 DEF Shown
  <2>3. Among(rows, search)' = new
    BY <1>3 DEF Shown, Among, Matching
  <2>4. QED
    BY <2>1, <2>2, <2>3
<1>6. new \in Seq(Keys) /\ Len(new) \in Nat
  <2>1. new = Kept(rows', Matching(search)')
    BY <1>3 DEF Shown, Among, Matching
  <2>2. PICK keep : keep = Matching(search)'
    OBVIOUS
  <2>3. PICK list \in Seq(Keys) : list = rows'
    BY <1>2
  <2>4. Kept(list, keep) \in Seq(Keys)
    BY KeptElements
  <2>5. new \in Seq(Keys)
    BY <2>1, <2>2, <2>3, <2>4
  <2>6. QED
    BY <2>5, LenProperties
<1>7. Len(old) <= Len(new)
  BY <1>4, <1>5 DEF Inserted
<1>8. from \in Nat /\ from < x
  BY <1>1, <1>2, <1>3
<1>9. \A seen : /\ \A n \in Nat : CoveredIn(old, from, n, seen)
                                   => CoveredIn(new, from, n, seen)
                /\ CoveredIn(old, from, Len(old), seen)
                     => CoveredIn(new, from, Len(new), seen)
  <2>1. CASE new = old
    BY <2>1
  <2>2. CASE \E p : Inserted(new, old, p, x)
    BY <1>2, <1>4, <1>6, <1>8, <2>2, InsertedCovers
  <2>3. QED
    BY <1>5, <2>1, <2>2
<1>10. \A n, seen : /\ Covered(n, seen) <=> CoveredIn(old, from, n, seen)
                    /\ Covered(n, seen)' <=> CoveredIn(new, from, n, seen)
  BY <1>3 DEF Covered, CoveredIn
<1>11. \A seen : \A n \in Nat : Covered(n, seen) => Covered(n, seen)'
  BY <1>9, <1>10
<1>12. \A seen : Covered(Len(Shown), seen) => Covered(Len(Shown), seen)'
  <2>1. \A seen : Covered(Len(Shown), seen)' <=> CoveredIn(new, from, Len(new), seen)
    BY <1>3 DEF Covered, CoveredIn
  <2>2. QED
    BY <1>3, <1>9, <1>10, <2>1
<1>13. ASSUME NEW n \in from .. Len(rows)
       PROVE  Among(ListAfter(n), tab.search)' = Among(ListAfter(n), tab.search)
  <2>1. n \in Int /\ n <= Len(rows)
    BY <1>8, <1>13
  <2>2. Among(ListAfter(n), search)' = Kept(ListAfter(n), Matching(search))
    BY <1>1, <2>1, PastViewStays
  <2>3. QED
    BY <1>3, <2>2 DEF Among, Matching
<1>14. \A n \in walk.from .. Len(rows) : \A count :
         CountedAt(n, count) => CountedAt(n, count)'
  BY <1>3, <1>13 DEF CountedAt
<1>15. \A n \in walk.from .. Len(rows) : \A page, count, slice :
         TakenAt(n, page, count, slice) => TakenAt(n, page, count, slice)'
  BY <1>3, <1>13 DEF TakenAt, PageOf, End
<1>16. \A page \in Nat : Within(page) => Within(page)'
  <2>1. ASSUME NEW page \in Nat, (page - 1) * PageSize < Len(old)
        PROVE  (page - 1) * PageSize < Len(new)
    <3>1. (page - 1) * PageSize \in Int
      BY SizesArePositive
    <3>2. QED
      BY <1>4, <1>6, <1>7, <2>1, <3>1
  <2>2. QED
    BY <1>3, <2>1 DEF Within
<1>17. QED
  BY <1>2, <1>3, <1>6, <1>7, <1>11, <1>12, <1>14, <1>15, <1>16

LEMMA CompletesStays ==
  ASSUME ListTypes, NEW x, NewRow(x), UNCHANGED <<stack, tab, walk>>,
         NEW page \in Nat \ {0}, NEW count, NEW shifted, NEW seen,
         Completes(page, count, shifted, seen)
  PROVE  Completes(page, count, shifted, seen)'
<1>1. PICK n \in Nat : n = page * PageSize
  BY PageOffsets
<1>2. count > n => Covered(n, seen)'
  BY <1>1, PostingKeepsViews DEF Completes
<1>3. (count <= n /\ ~shifted) => Covered(Len(Shown), seen)'
  BY <1>1, PostingKeepsViews DEF Completes
<1>4. QED
  BY <1>1, <1>2, <1>3 DEF Completes

LEMMA MomentsStay ==
  ASSUME ListTypes, NEW x, NewRow(x), UNCHANGED <<stack, tab, walk>>,
         NEW page, NEW count, NEW slice
  PROVE  /\ (\E n \in walk.from .. Len(rows) : CountedAt(n, count))
              => (\E n \in walk.from .. Len(rows) : CountedAt(n, count))'
         /\ (\E n \in walk.from .. Len(rows) :
               /\ CountedAt(n, count)
               /\ \E m \in n .. Len(rows) : TakenAt(m, page, count, slice))
              => (\E n \in walk.from .. Len(rows) :
                    /\ CountedAt(n, count)
                    /\ \E m \in n .. Len(rows) : TakenAt(m, page, count, slice))'
<1>1. PICK k \in Nat : k = Len(rows) /\ Len(rows') = k + 1
  BY ShownTypes, PostingKeepsViews
<1>2. PICK from \in Nat : from = walk.from /\ from = walk'.from
  BY ShownTypes
<1>3. /\ \A n \in from .. k : CountedAt(n, count) => CountedAt(n, count)'
      /\ \A n \in from .. k :
           TakenAt(n, page, count, slice) => TakenAt(n, page, count, slice)'
  BY <1>1, <1>2, PostingKeepsViews
<1>4. \A n \in from .. k : n \in from .. k + 1
  BY <1>1, <1>2
<1>5. \A n \in from .. k : \A m \in n .. k : m \in from .. k /\ m \in n .. k + 1
  BY <1>1, <1>2
<1>6. ASSUME NEW n \in from .. k, CountedAt(n, count)
      PROVE  (\E q \in walk.from .. Len(rows) : CountedAt(q, count))'
  BY <1>1, <1>2, <1>3, <1>4, <1>6
<1>7. ASSUME NEW n \in from .. k, CountedAt(n, count),
             NEW m \in n .. k, TakenAt(m, page, count, slice)
      PROVE  (\E q \in walk.from .. Len(rows) :
                /\ CountedAt(q, count)
                /\ \E r \in q .. Len(rows) : TakenAt(r, page, count, slice))'
  <2>1. CountedAt(n, count)' /\ TakenAt(m, page, count, slice)'
    BY <1>3, <1>5, <1>7
  <2>2. n \in from .. k + 1 /\ m \in n .. k + 1
    BY <1>4, <1>5
  <2>3. QED
    BY <1>1, <1>2, <2>1, <2>2
<1>8. QED
  BY <1>1, <1>2, <1>6, <1>7

LEMMA AskedStays ==
  ASSUME ListTypes, NEW x, NewRow(x), UNCHANGED <<stack, tab, walk>>,
         NEW c \in ListCalls, Asked(c),
         NEW d, d = [c EXCEPT !.shifted = @ \/ c.step = "counted"]
  PROVE  Asked(d)'
<1>1. /\ d.page = c.page /\ d.search = c.search /\ d.step = c.step
      /\ d.count = c.count /\ d.rows = c.rows
      /\ d.shifted = (c.shifted \/ c.step = "counted")
      /\ c.page \in Nat \ {0} /\ c.count \in Nat /\ c.shifted \in BOOLEAN
  BY DEF ListCalls
<1>2. d.search = tab'.search /\ d.step # "refused"
  BY <1>1 DEF Asked
<1>3. Within(d.page)'
  <2>1. PICK page \in Nat : page = c.page /\ page = d.page
    BY <1>1
  <2>2. Within(page)'
    BY <2>1, PostingKeepsViews DEF Asked
  <2>3. QED
    BY <2>1, <2>2
<1>4. d.step # "sent" => d.count <= Len(Shown')
  <2>1. Len(Shown) \in Nat /\ Len(Shown)' \in Nat /\ Len(Shown) <= Len(Shown)'
    BY ShownTypes, PostingKeepsViews
  <2>2. QED
    BY <1>1, <2>1 DEF Asked
<1>5. d.step = "counted" =>
        /\ (\E n \in walk.from .. Len(rows) : CountedAt(n, d.count))'
        /\ d.shifted
  <2>1. PICK count : count = c.count /\ count = d.count
    BY <1>1
  <2>2. (\E n \in walk.from .. Len(rows) : CountedAt(n, count))
          => (\E n \in walk.from .. Len(rows) : CountedAt(n, count))'
    BY MomentsStay
  <2>3. QED
    BY <1>1, <2>1, <2>2 DEF Asked
<1>6. d.step = "answered" =>
        (\E n \in walk.from .. Len(rows) :
           /\ CountedAt(n, d.count)
           /\ \E m \in n .. Len(rows) : TakenAt(m, d.page, d.count, d.rows))'
  <2>1. PICK page, count, slice :
          /\ page = c.page /\ count = c.count /\ slice = c.rows
          /\ page = d.page /\ count = d.count /\ slice = d.rows
    BY <1>1
  <2>2. (\E n \in walk.from .. Len(rows) :
               /\ CountedAt(n, count)
               /\ \E m \in n .. Len(rows) : TakenAt(m, page, count, slice))
          => (\E n \in walk.from .. Len(rows) :
                /\ CountedAt(n, count)
                /\ \E m \in n .. Len(rows) : TakenAt(m, page, count, slice))'
    BY MomentsStay
  <2>3. QED
    BY <1>1, <2>1, <2>2 DEF Asked
<1>7. ~walk'.hasty => Covered((d.page - 1) * PageSize, walk.seen)'
  <2>1. PICK n \in Nat : n = (c.page - 1) * PageSize /\ n = (d.page - 1) * PageSize
    BY <1>1, PageOffsets
  <2>2. PICK seen : seen = walk.seen /\ seen = walk'.seen
    OBVIOUS
  <2>3. ~walk.hasty => Covered(n, seen)
    BY <2>1, <2>2 DEF Asked
  <2>4. ~walk.hasty => Covered(n, seen)'
    BY <2>3, PostingKeepsViews
  <2>5. QED
    BY <2>1, <2>2, <2>4
<1>8. (~walk'.hasty /\ d.step = "answered") =>
        Completes(d.page, d.count, d.shifted, walk.seen \cup ToSet(d.rows))'
  <2>1. PICK page, count, shifted, seen :
          /\ page \in Nat \ {0} /\ page = c.page /\ count = c.count /\ shifted = c.shifted
          /\ seen = walk.seen \cup ToSet(c.rows)
    BY <1>1
  <2>2. (~walk.hasty /\ c.step = "answered") => Completes(page, count, shifted, seen)'
    BY <2>1, CompletesStays DEF Asked
  <2>3. c.step = "answered" => d.shifted = shifted
    BY <1>1, <2>1
  <2>4. QED
    BY <1>1, <2>1, <2>2, <2>3
<1>9. QED
  BY <1>2, <1>3, <1>4, <1>5, <1>6, <1>7, <1>8 DEF Asked

LEMMA EmptyLength ==
  ASSUME NEW S, NEW s \in Seq(S)
  PROVE  s = <<>> <=> Len(s) = 0
<1>1. Len(<<>>) = 0
  OBVIOUS
<1>2. s # <<>> => Len(s) \in Nat \ {0}
  BY EmptySeq
<1>3. QED
  BY <1>1, <1>2

LEMMA PostingKeepsTypes ==
  ASSUME ListTypes, NEW x, NewRow(x), ListRow
  PROVE  /\ ListTypes'
         /\ DOMAIN calls' = DOMAIN calls /\ Len(calls') = Len(calls)
         /\ \A i \in DOMAIN calls :
              /\ calls[i] \in ListCalls
              /\ calls'[i] = [calls[i] EXCEPT !.shifted =
                                @ \/ calls[i].step = "counted"]
<1>1. /\ rows' \in Seq(Keys) /\ Len(rows') = Len(rows) + 1 /\ IsInjective(rows')
      /\ ToSet(rows') = 1 .. Len(rows')
      /\ ToSet(rows') = {k \in Keys : txn'[k] # NoTxn}
  BY RowsGrow DEF ListTypes
<1>2. PICK k \in Nat : k = Len(rows) /\ Len(rows') = k + 1
  BY <1>1, ShownTypes
<1>3. PICK m \in Nat : m = Len(calls) /\ DOMAIN calls = 1 .. m
  BY LenProperties DEF ListTypes
<1>4. \A i \in 1 .. m : calls[i] \in ListCalls
  BY <1>3, ElementOfSeq DEF ListTypes
<1>5. calls' = [i \in 1 .. m |-> [calls[i] EXCEPT !.shifted =
                                    @ \/ calls[i].step = "counted"]]
  BY <1>3 DEF ListRow
<1>6. ASSUME NEW i \in 1 .. m
      PROVE  /\ calls'[i] \in ListCalls /\ calls'[i].count = calls[i].count
             /\ calls'[i].rows = calls[i].rows
  <2>1. PICK c \in ListCalls : c = calls[i]
    BY <1>4
  <2>2. [c EXCEPT !.shifted = @ \/ c.step = "counted"] \in ListCalls
    BY DEF ListCalls
  <2>3. calls'[i] = [c EXCEPT !.shifted = @ \/ c.step = "counted"]
    BY <1>5, <2>1
  <2>4. QED
    BY <2>1, <2>2, <2>3 DEF ListCalls
<1>7. calls' \in Seq(ListCalls) /\ Len(calls') = m /\ DOMAIN calls' = 1 .. m
  <2>1. calls' \in [1 .. m -> ListCalls]
    BY <1>5, <1>6
  <2>2. QED
    BY <1>3, <2>1
<1>8. /\ stack' = stack /\ tab' = tab /\ garbled' = garbled /\ walk' = walk
      /\ DOMAIN txn' = Keys
  BY DEF ListRow, NewRow
<1>9. AdminTypeOK'
  <2>1. /\ tab.page \in Nat \ {0} /\ BeginsWithin(tab.page, k + 1)
        /\ tab.count <= k + 1
    <3>1. PICK page \in Nat \ {0} : page = tab.page
      BY DEF ListTypes
    <3>2. BeginsWithin(page, k)
      BY <1>2, <3>1 DEF ListTypes, AdminTypeOK
    <3>3. BeginsWithin(page, k + 1)
      BY <3>2, LaterBegins
    <3>4. QED
      BY <1>2, <3>1, <3>3 DEF ListTypes, AdminTypeOK
  <2>2. tab.search \in Searches /\ Len(tab.shown) <= PageSize
    BY DEF ListTypes, AdminTypeOK
  <2>3. m <= MaxCalls /\ \A i \in 1 .. m : Len(calls'[i].rows) <= PageSize
    BY <1>3, <1>6 DEF ListTypes, AdminTypeOK
  <2>4. QED
    BY <1>1, <1>2, <1>7, <1>8, <2>1, <2>2, <2>3 DEF AdminTypeOK
<1>10. /\ \A i \in 1 .. m : calls'[i].count <= k + 1
       /\ walk.from <= k + 1
  <2>1. \A i \in 1 .. m : calls[i].count <= k /\ calls[i].count \in Nat
    BY <1>2, <1>3, <1>4 DEF ListTypes, ListCalls
  <2>2. walk.from <= k /\ walk.from \in Nat
    BY <1>2 DEF ListTypes
  <2>3. QED
    BY <1>6, <2>1, <2>2
<1>11. ListTypes'
  BY <1>2, <1>7, <1>8, <1>9, <1>10 DEF ListTypes
<1>12. QED
  BY <1>3, <1>4, <1>5, <1>7, <1>11

LEMMA PostingKeepsList ==
  ASSUME ListTypes, ListInv, NEW x, NewRow(x), ListRow
  PROVE  ListInv'
<1>1. SUFFICES ASSUME ~garbled'
               PROVE  /\ (calls # <<>> => calls[Len(calls)].page = tab.page)'
                      /\ FirstPageComing' \/ PagesComing'
  BY DEF ListInv
<1>2. /\ UNCHANGED <<stack, tab, walk>> /\ ~garbled
  BY <1>1 DEF ListRow
<1>3. PICK m \in Nat :
        /\ m = Len(calls) /\ m = Len(calls') /\ DOMAIN calls = 1 .. m
        /\ DOMAIN calls' = 1 .. m
        /\ (calls = <<>> <=> m = 0) /\ (calls' = <<>> <=> m = 0)
  <2>1. calls \in Seq(ListCalls) /\ calls' \in Seq(ListCalls)
    BY PostingKeepsTypes DEF ListTypes
  <2>2. Len(calls) = Len(calls') /\ DOMAIN calls' = DOMAIN calls
    BY PostingKeepsTypes
  <2>3. DOMAIN calls = 1 .. Len(calls) /\ Len(calls) \in Nat
    BY <2>1, LenProperties
  <2>4. (calls = <<>> <=> Len(calls) = 0) /\ (calls' = <<>> <=> Len(calls') = 0)
    <3>1. PICK s \in Seq(ListCalls), t \in Seq(ListCalls) : s = calls /\ t = calls'
      BY <2>1
    <3>2. (s = <<>> <=> Len(s) = 0) /\ (t = <<>> <=> Len(t) = 0)
      BY EmptyLength
    <3>3. QED
      BY <3>1, <3>2
  <2>5. QED
    BY <2>2, <2>3, <2>4
<1>4. \A i \in 1 .. m :
        /\ calls[i] \in ListCalls
        /\ calls'[i] = [calls[i] EXCEPT !.shifted = @ \/ calls[i].step = "counted"]
  BY <1>3, PostingKeepsTypes
<1>5. ASSUME NEW i \in 1 .. m
      PROVE  /\ Asked(calls[i]) => Asked(calls[i])'
             /\ calls'[i].page = calls[i].page
  <2>1. PICK c, d :
          /\ c \in ListCalls /\ c = calls[i] /\ d = calls'[i]
          /\ d = [c EXCEPT !.shifted = @ \/ c.step = "counted"]
    BY <1>4
  <2>2. Asked(c) => Asked(d)'
    BY <1>2, <2>1, AskedStays
  <2>3. d.page = c.page
    BY <2>1 DEF ListCalls
  <2>4. QED
    BY <2>1, <2>2, <2>3
<1>6. (calls # <<>> => calls[Len(calls)].page = tab.page)'
  <2>1. m # 0 => m \in 1 .. m
    OBVIOUS
  <2>2. m # 0 => calls[m].page = tab.page
    BY <1>2, <1>3 DEF ListInv
  <2>3. QED
    BY <1>2, <1>3, <1>5, <2>1, <2>2
<1>7. CASE FirstPageComing
  BY <1>2, <1>3, <1>5, <1>7 DEF FirstPageComing
<1>8. CASE PagesComing
  <2>1. \A i \in DOMAIN calls' : Asked(calls[i])'
    BY <1>3, <1>5, <1>8 DEF PagesComing
  <2>2. PICK page, count, slice, shifted, seen :
          /\ page \in Nat \ {0} /\ count \in Nat
          /\ page = tab.page /\ count = tab.count /\ slice = tab.shown
          /\ seen = walk.seen /\ shifted = walk.shifted
    BY DEF ListTypes
  <2>3. /\ page = tab'.page /\ count = tab'.count /\ slice = tab'.shown
        /\ seen = walk'.seen /\ shifted = walk'.shifted /\ walk'.hasty = walk.hasty
    BY <1>2, <2>2
  <2>4. Within(page)'
    BY <1>2, <1>8, <2>2, PostingKeepsViews DEF PagesComing
  <2>5. count <= Len(Shown)'
    <3>1. Len(Shown) \in Nat /\ Len(Shown)' \in Nat /\ Len(Shown) <= Len(Shown)'
      BY <1>2, ShownTypes, PostingKeepsViews
    <3>2. QED
      BY <1>8, <2>2, <3>1 DEF PagesComing
  <2>6. ~walk.hasty => Covered((page - 1) * PageSize, seen)'
    <3>1. PICK n \in Nat : n = (page - 1) * PageSize
      BY <2>2, PageOffsets
    <3>2. ~walk.hasty => Covered(n, seen)
      BY <1>8, <2>2, <3>1 DEF PagesComing
    <3>3. ~walk.hasty => Covered(n, seen)'
      BY <1>2, <3>2, PostingKeepsViews
    <3>4. QED
      BY <3>1, <3>3
  <2>7. calls = <<>> =>
          (\E n \in walk.from .. Len(rows) :
             /\ CountedAt(n, count)
             /\ \E q \in n .. Len(rows) : TakenAt(q, page, count, slice))'
    <3>1. calls = <<>> =>
            \E n \in walk.from .. Len(rows) :
              /\ CountedAt(n, count)
              /\ \E q \in n .. Len(rows) : TakenAt(q, page, count, slice)
      BY <1>8, <2>2 DEF PagesComing
    <3>2. QED
      BY <1>2, <3>1, MomentsStay
  <2>8. (calls = <<>> /\ ~walk.hasty) => Completes(page, count, shifted, seen)'
    BY <1>2, <1>8, <2>2, CompletesStays DEF PagesComing
  <2>9. /\ Within(tab.page)' /\ tab'.count <= Len(Shown)'
        /\ (~walk.hasty => Covered((tab.page - 1) * PageSize, walk.seen))'
    BY <2>3, <2>4, <2>5, <2>6
  <2>10. calls' = <<>> =>
           (\E n \in walk.from .. Len(rows) :
              /\ CountedAt(n, tab.count)
              /\ \E q \in n .. Len(rows) : TakenAt(q, tab.page, tab.count, tab.shown))'
    BY <1>3, <2>3, <2>7
  <2>11. (calls' = <<>> /\ ~walk'.hasty) =>
           Completes(tab.page, tab.count, walk.shifted, walk.seen)'
    BY <1>3, <2>3, <2>8
  <2>12. PagesComing'
    BY <2>1, <2>9, <2>10, <2>11, Zenon DEF PagesComing
  <2>13. QED
    BY <1>6, <2>12
<1>9. QED
  BY <1>2, <1>6, <1>7, <1>8 DEF ListInv

-----------------------------------------------------------------------------
(* The steps of the list.                                                  *)

\* Steps of the list leave the books alone; those within one search look at
\* the same view.
SameView ==
  /\ UNCHANGED <<stack, rows, txn>>
  /\ tab'.search = tab.search /\ walk'.from = walk.from

LEMMA ViewsSame ==
  ASSUME SameView
  PROVE  /\ Shown' = Shown
         /\ \A n, seen : Covered(n, seen)' <=> Covered(n, seen)
         /\ \A n, count : CountedAt(n, count)' <=> CountedAt(n, count)
         /\ \A n, page, count, slice :
              TakenAt(n, page, count, slice)' <=> TakenAt(n, page, count, slice)
         /\ \A page : Within(page)' <=> Within(page)
         /\ \A page, count, shifted, seen :
              Completes(page, count, shifted, seen)'
                <=> Completes(page, count, shifted, seen)
<1> USE DEF SameView
<1>1. Shown' = Shown
  BY DEF Shown, Among, Matching
<1>2. \A n, seen : Covered(n, seen)' <=> Covered(n, seen)
  BY <1>1 DEF Covered
<1>3. \A n : Among(ListAfter(n), tab.search)' = Among(ListAfter(n), tab.search)
  BY DEF Among, Matching, ListAfter
<1>4. \A n, count : CountedAt(n, count)' <=> CountedAt(n, count)
  BY <1>3 DEF CountedAt
<1>5. \A n, page, count, slice :
        TakenAt(n, page, count, slice)' <=> TakenAt(n, page, count, slice)
  BY <1>3 DEF TakenAt, PageOf, End
<1>6. \A page : Within(page)' <=> Within(page)
  BY <1>1 DEF Within
<1>7. \A page, count, shifted, seen :
        Completes(page, count, shifted, seen)'
          <=> Completes(page, count, shifted, seen)
  BY <1>1, <1>2 DEF Completes
<1>8. QED
  BY <1>1, <1>2, <1>4, <1>5, <1>6, <1>7

LEMMA SeenGrows ==
  ASSUME NEW seen, NEW more, seen \subseteq more
  PROVE  /\ \A n : Covered(n, seen) => Covered(n, more)
         /\ \A page, count, shifted :
              Completes(page, count, shifted, seen)
                => Completes(page, count, shifted, more)
<1>1. \A n : Covered(n, seen) => Covered(n, more)
  BY DEF Covered
<1>2. QED
  BY <1>1 DEF Completes

LEMMA CoveredLess ==
  ASSUME ListTypes, NEW n \in Int, NEW m \in Int, m <= n, NEW seen, Covered(n, seen)
  PROVE  Covered(m, seen)
<1>1. DOMAIN Shown = 1 .. Len(Shown) /\ Len(Shown) \in Nat
  BY ShownTypes
<1>2. \A j \in DOMAIN Shown : j <= m => j <= n
  BY <1>1
<1>3. QED
  BY <1>2 DEF Covered

LEMMA AskedKeeps ==
  ASSUME SameView, NEW c, Asked(c),
         walk'.hasty \/ (walk'.hasty = walk.hasty /\ walk.seen \subseteq walk'.seen)
  PROVE  Asked(c)'
<1>1. /\ c.search = tab'.search /\ c.step # "refused" /\ Within(c.page)'
      /\ c.step # "sent" => c.count <= Len(Shown')
  <2>1. \A page : Within(page)' <=> Within(page)
    BY ViewsSame
  <2>2. Shown' = Shown
    BY ViewsSame
  <2>3. QED
    BY <2>1, <2>2 DEF Asked, SameView
<1>2. walk'.from = walk.from /\ rows' = rows
  BY DEF SameView
<1>3. c.step = "counted" =>
        /\ (\E n \in walk.from .. Len(rows) : CountedAt(n, c.count))'
        /\ ~c.shifted => c.count = Len(Shown')
  <2>1. Shown' = Shown /\ \A n, count : CountedAt(n, count)' <=> CountedAt(n, count)
    BY ViewsSame
  <2>2. QED
    BY <1>2, <2>1 DEF Asked
<1>4. c.step = "answered" =>
        (\E n \in walk.from .. Len(rows) :
           /\ CountedAt(n, c.count)
           /\ \E m \in n .. Len(rows) : TakenAt(m, c.page, c.count, c.rows))'
  <2>1. /\ \A n, count : CountedAt(n, count)' <=> CountedAt(n, count)
        /\ \A n, page, count, slice :
             TakenAt(n, page, count, slice)' <=> TakenAt(n, page, count, slice)
    BY ViewsSame
  <2>2. QED
    BY <1>2, <2>1 DEF Asked
<1>5. ~walk'.hasty =>
        /\ Covered((c.page - 1) * PageSize, walk.seen)'
        /\ c.step = "answered" =>
             Completes(c.page, c.count, c.shifted, walk.seen \cup ToSet(c.rows))'
  <2>1. SUFFICES ASSUME ~walk'.hasty
                 PROVE  /\ Covered((c.page - 1) * PageSize, walk.seen)'
                        /\ c.step = "answered" =>
                             Completes(c.page, c.count, c.shifted,
                                       walk.seen \cup ToSet(c.rows))'
    OBVIOUS
  <2>2. ~walk.hasty /\ walk.seen \subseteq walk'.seen
    BY <2>1
  <2>3. PICK n, page, count, shifted, seen, more, taken :
          /\ n = (c.page - 1) * PageSize
          /\ page = c.page /\ count = c.count /\ shifted = c.shifted
          /\ seen = walk.seen /\ more = walk'.seen /\ taken = ToSet(c.rows)
    OBVIOUS
  <2>4. /\ Covered(n, seen)
        /\ c.step = "answered" => Completes(page, count, shifted, seen \cup taken)
    BY <2>2, <2>3 DEF Asked
  <2>5. /\ Covered(n, more)
        /\ c.step = "answered" => Completes(page, count, shifted, more \cup taken)
    <3>1. seen \subseteq more /\ seen \cup taken \subseteq more \cup taken
      BY <2>2, <2>3
    <3>2. QED
      BY <2>4, <3>1, SeenGrows
  <2>6. /\ Covered(n, more)'
        /\ c.step = "answered" => Completes(page, count, shifted, more \cup taken)'
    BY <2>5, ViewsSame
  <2>7. QED
    BY <2>3, <2>6
<1>6. QED
  BY <1>1, <1>3, <1>4, <1>5 DEF Asked

\* The slice of a page: no longer than a page, and all rows of its range.
LEMMA PageOfRows ==
  ASSUME NEW list \in Seq(Keys), NEW page \in Nat \ {0}, NEW count \in Nat
  PROVE  /\ PageOf(list, page, count) \in Seq(Keys)
         /\ Len(PageOf(list, page, count)) <= PageSize
         /\ \A j \in 1 .. Len(list) :
              (j > (page - 1) * PageSize /\ j <= End(page, count))
                 => list[j] \in ToSet(PageOf(list, page, count))
<1>1. PICK size \in Nat, from \in Nat, upto \in Nat :
        /\ size = PageSize /\ from = (page - 1) * PageSize
        /\ upto = page * PageSize /\ upto = from + size
  BY SizesArePositive, PageOffsets
<1>2. PICK end \in Nat : end = End(page, count) /\ end <= upto
  <2>1. End(page, count) = IF stack = "django" /\ count < upto THEN count ELSE upto
    BY <1>1 DEF End
  <2>2. QED
    BY <1>1, <2>1
<1>3. PICK n \in Nat : n = Len(list)
  BY LenProperties
<1>4. PICK last \in Nat : /\ last = IF n < end THEN n ELSE end
                          /\ last <= n /\ last <= end
  BY <1>2, <1>3
<1>5. PICK slice : slice = SubSeq(list, from + 1, last)
  OBVIOUS
<1>6. PageOf(list, page, count) = slice
  BY <1>1, <1>2, <1>3, <1>4, <1>5 DEF PageOf
<1>7. \A j \in 1 .. n : list[j] \in Keys
  BY <1>3, ElementOfSeq
<1>8. from + 1 \in Int /\ last \in Int /\ \A j \in from + 1 .. last : list[j] \in Keys
  BY <1>1, <1>4, <1>7
<1>9. /\ slice \in Seq(Keys)
      /\ Len(slice) = IF from + 1 <= last THEN last - (from + 1) + 1 ELSE 0
      /\ \A j \in 1 .. last - (from + 1) + 1 : slice[j] = list[from + 1 + j - 1]
  BY <1>5, <1>8, SubSeqProperties
<1>10. Len(slice) <= size
  BY <1>1, <1>2, <1>4, <1>9
<1>11. ASSUME NEW j \in 1 .. n, j > from, j <= end
       PROVE  list[j] \in ToSet(slice)
  <2>1. PICK k \in Nat : k = j - from
    BY <1>1, <1>11
  <2>2. k \in 1 .. last - (from + 1) + 1 /\ from + 1 + k - 1 = j /\ from + 1 <= last
    BY <1>1, <1>2, <1>4, <1>11, <2>1
  <2>3. slice[k] = list[j] /\ k \in 1 .. Len(slice)
    BY <1>1, <1>4, <1>9, <2>2
  <2>4. k \in DOMAIN slice
    BY <1>9, <2>3, LenProperties
  <2>5. QED
    BY <2>3, <2>4 DEF ToSet
<1>12. QED
  BY <1>1, <1>2, <1>3, <1>6, <1>9, <1>10, <1>11

LEMMA CountAsked ==
  ASSUME ListTypes, NEW c \in ListCalls, Asked(c), c.step = "sent",
         NEW n, n = Len(Among(rows, c.search)),
         NEW d, d = [c EXCEPT !.count = n,
                              !.step = IF Beyond(c.page, n) THEN "refused"
                                                            ELSE "counted"]
  PROVE  Asked(d)
<1>1. Len(Shown) \in Nat /\ Len(rows) \in Nat /\ walk.from \in Nat
      /\ walk.from <= Len(rows)
  BY ShownTypes DEF ListTypes
<1>2. n = Len(Shown)
  BY DEF Asked, Shown
<1>3. ~Beyond(c.page, n)
  <2>1. PICK k \in Nat : k = (c.page - 1) * PageSize
    BY PageOffsets DEF ListCalls
  <2>2. c.page = 1 \/ k < Len(Shown)
    BY <2>1 DEF Asked, Within
  <2>3. c.page > 1 => c.page # 1
    BY DEF ListCalls
  <2>4. QED
    BY <1>1, <1>2, <2>1, <2>2, <2>3 DEF Beyond
<1>4. /\ d.page = c.page /\ d.search = c.search /\ d.step = "counted"
      /\ d.count = n
  BY <1>3 DEF ListCalls
<1>5. CountedAt(Len(rows), n)
  <2>1. ListAfter(Len(rows)) = rows
    BY AfterAll DEF ListTypes, AdminTypeOK
  <2>2. QED
    BY <1>2, <2>1 DEF CountedAt, Shown
<1>6. \E m \in walk.from .. Len(rows) : CountedAt(m, d.count)
  BY <1>1, <1>4, <1>5
<1>7. n <= Len(Shown)
  BY <1>1, <1>2
<1>8. QED
  BY <1>2, <1>4, <1>6, <1>7 DEF Asked

LEMMA FetchCompletes ==
  ASSUME ListTypes, NEW page \in Nat \ {0}, NEW count \in Nat,
         NEW shifted \in BOOLEAN, count <= Len(Shown),
         ~shifted => count = Len(Shown),
         NEW seen, Covered((page - 1) * PageSize, seen)
  PROVE  Completes(page, count, shifted,
                   seen \cup ToSet(PageOf(Shown, page, count)))
<1>1. PICK list \in Seq(Keys) : list = Shown
  BY ShownTypes
<1>2. PICK n \in Nat : n = Len(list) /\ DOMAIN list = 1 .. n
  BY LenProperties
<1>3. PICK from \in Nat, upto \in Nat :
        from = (page - 1) * PageSize /\ upto = page * PageSize
  BY PageOffsets
<1>4. PICK slice : slice = ToSet(PageOf(list, page, count))
  OBVIOUS
<1>5. \A j \in 1 .. n : (j > from /\ j <= End(page, count)) => list[j] \in slice
  BY <1>2, <1>3, <1>4, PageOfRows
<1>6. \A j \in 1 .. n : (j <= from /\ list[j] <= walk.from) => list[j] \in seen
  BY <1>1, <1>2, <1>3 DEF Covered
<1>7. End(page, count) = IF stack = "django" /\ count < upto THEN count ELSE upto
  BY <1>3 DEF End
<1>8. ASSUME count > upto
      PROVE  Covered(upto, seen \cup slice)
  <2>1. End(page, count) = upto
    BY <1>3, <1>7, <1>8
  <2>2. \A j \in 1 .. n : j <= upto => j <= from \/ j > from
    BY <1>3
  <2>3. \A j \in 1 .. n : (j <= upto /\ list[j] <= walk.from)
                            => list[j] \in seen \cup slice
    BY <1>5, <1>6, <2>1, <2>2
  <2>4. QED
    BY <1>1, <1>2, <2>3 DEF Covered
<1>9. ASSUME count <= upto, ~shifted
      PROVE  Covered(Len(Shown), seen \cup slice)
  <2>1. count = n
    BY <1>1, <1>2, <1>9
  <2>2. \A j \in 1 .. n : j <= End(page, count)
    BY <1>2, <1>3, <1>7, <1>9, <2>1
  <2>3. \A j \in 1 .. n : j <= from \/ j > from
    BY <1>3
  <2>4. \A j \in 1 .. n : list[j] <= walk.from => list[j] \in seen \cup slice
    BY <1>5, <1>6, <2>2, <2>3
  <2>5. QED
    BY <1>1, <1>2, <2>4 DEF Covered
<1>10. QED
  BY <1>1, <1>3, <1>4, <1>8, <1>9 DEF Completes

LEMMA FetchAsked ==
  ASSUME ListTypes, NEW c \in ListCalls, Asked(c), c.step = "counted",
         NEW d, d = [c EXCEPT !.step = "answered",
                              !.rows = PageOf(Among(rows, c.search), c.page, c.count)]
  PROVE  Asked(d)
<1>1. Len(Shown) \in Nat /\ Len(rows) \in Nat /\ walk.from \in Nat
      /\ walk.from <= Len(rows)
  BY ShownTypes DEF ListTypes
<1>2. Among(rows, c.search) = Shown
  BY DEF Asked, Shown
<1>3. PICK slice : slice = PageOf(Shown, c.page, c.count)
  OBVIOUS
<1>4. /\ d.page = c.page /\ d.search = c.search /\ d.step = "answered"
      /\ d.count = c.count /\ d.shifted = c.shifted /\ d.rows = slice
      /\ c.page \in Nat \ {0} /\ c.count \in Nat /\ c.shifted \in BOOLEAN
  BY <1>2, <1>3 DEF ListCalls
<1>5. PICK n \in walk.from .. Len(rows) : CountedAt(n, c.count)
  BY DEF Asked
<1>6. TakenAt(Len(rows), c.page, c.count, slice)
  <2>1. ListAfter(Len(rows)) = rows
    BY AfterAll DEF ListTypes, AdminTypeOK
  <2>2. QED
    BY <1>3, <2>1 DEF TakenAt, Shown
<1>7. \E k \in walk.from .. Len(rows) :
         /\ CountedAt(k, d.count)
         /\ \E m \in k .. Len(rows) : TakenAt(m, d.page, d.count, d.rows)
  <2>1. Len(rows) \in n .. Len(rows)
    BY <1>1, <1>5
  <2>2. QED
    BY <1>4, <1>5, <1>6, <2>1
<1>8. ~walk.hasty => Completes(c.page, c.count, c.shifted,
                               walk.seen \cup ToSet(slice))
  <2>1. PICK page, count, shifted, seen :
          /\ page \in Nat \ {0} /\ count \in Nat /\ shifted \in BOOLEAN
          /\ page = c.page /\ count = c.count /\ shifted = c.shifted
          /\ seen = walk.seen
    BY <1>4
  <2>2. /\ count <= Len(Shown)
        /\ ~shifted => count = Len(Shown)
        /\ ~walk.hasty => Covered((page - 1) * PageSize, seen)
    BY <2>1 DEF Asked
  <2>3. ~walk.hasty => Completes(page, count, shifted,
                                 seen \cup ToSet(PageOf(Shown, page, count)))
    BY <2>1, <2>2, FetchCompletes
  <2>4. QED
    BY <1>3, <2>1, <2>3
<1>9. QED
  BY <1>4, <1>7, <1>8 DEF Asked

LEMMA ServeKeeps ==
  ASSUME ListTypes, ListInv, NEW i \in DOMAIN calls, NEW d \in ListCalls,
         Serve(i, d), txn' = txn, d.page = calls[i].page,
         d.count <= Len(rows), Len(d.rows) <= PageSize,
         Asked(calls[i]) => Asked(d)
  PROVE  ListTypes' /\ ListInv'
<1>1. PICK m \in Nat : m = Len(calls) /\ DOMAIN calls = 1 .. m
  BY LenProperties DEF ListTypes
<1>2. PICK old, new : old \in Seq(ListCalls) /\ old = calls /\ new = calls'
  BY DEF ListTypes
<1>3. new = [old EXCEPT ![i] = d] /\ i \in 1 .. Len(old)
  BY <1>1, <1>2 DEF Serve
<1>4. /\ new \in Seq(ListCalls) /\ Len(new) = m
      /\ \A j \in 1 .. m : new[j] = IF j = i THEN d ELSE old[j]
  BY <1>1, <1>2, <1>3, ExceptSeq
<1>5. DOMAIN new = 1 .. m /\ i \in 1 .. m
  BY <1>1, <1>2, <1>3, <1>4, LenProperties
<1>6. UNCHANGED <<stack, rows, tab, garbled, walk, txn>>
  BY DEF Serve
<1>7. ListTypes'
  <2>1. m <= MaxCalls /\ \A j \in 1 .. m : Len(new[j].rows) <= PageSize
    BY <1>1, <1>2, <1>4 DEF ListTypes, AdminTypeOK
  <2>2. \A j \in 1 .. m : new[j].count <= Len(rows)
    BY <1>1, <1>2, <1>4 DEF ListTypes
  <2>3. AdminTypeOK'
    BY <1>2, <1>4, <1>5, <1>6, <2>1 DEF ListTypes, AdminTypeOK
  <2>4. QED
    BY <1>2, <1>4, <1>5, <1>6, <2>2, <2>3 DEF ListTypes
<1>8. SUFFICES ASSUME ~garbled' PROVE ListInv'
  BY <1>7 DEF ListInv
<1>9. SameView /\ walk' = walk /\ tab' = tab /\ ~garbled
  BY <1>6, <1>8 DEF SameView
<1>10. \A j \in 1 .. m : /\ Asked(old[j]) => Asked(new[j])
                         /\ new[j].page = old[j].page
  BY <1>2, <1>4
<1>11. \A c : Asked(c) => Asked(c)'
  BY <1>9, AskedKeeps
<1>12. \A j \in 1 .. m : Asked(old[j]) => Asked(calls[j])'
  BY <1>2, <1>10, <1>11
<1>13. (calls = <<>> <=> m = 0) /\ (calls' = <<>> <=> m = 0)
  <2>1. (old = <<>> <=> Len(old) = 0) /\ (new = <<>> <=> Len(new) = 0)
    BY <1>4, EmptyLength
  <2>2. QED
    BY <1>1, <1>2, <1>4, <2>1
<1>14. (calls # <<>> => calls[Len(calls)].page = tab.page)'
  <2>1. m # 0 => m \in 1 .. m
    OBVIOUS
  <2>2. m # 0 => old[m].page = tab.page
    BY <1>1, <1>2, <1>9, <1>13 DEF ListInv
  <2>3. QED
    BY <1>2, <1>4, <1>9, <1>10, <1>13, <2>1, <2>2
<1>15. CASE FirstPageComing
  <2>1. PICK b \in 1 .. m : /\ tab.page = 1
                            /\ \A j \in 1 .. m : j >= b =>
                                 Asked(old[j]) /\ old[j].page = 1
    BY <1>1, <1>2, <1>15 DEF FirstPageComing
  <2>2. \A j \in 1 .. m : j >= b => Asked(calls[j])' /\ calls'[j].page = 1
    BY <1>2, <1>10, <1>12, <2>1
  <2>3. FirstPageComing'
    BY <1>2, <1>5, <1>9, <2>1, <2>2 DEF FirstPageComing
  <2>4. QED
    BY <1>14, <2>3 DEF ListInv
<1>16. CASE PagesComing
  <2>1. \A j \in DOMAIN calls' : Asked(calls[j])'
    BY <1>1, <1>2, <1>5, <1>12, <1>16 DEF PagesComing
  <2>2. calls' # <<>>
    BY <1>1, <1>5, <1>13
  <2>3. Within(tab.page)' /\ tab'.count <= Len(Shown)'
    BY <1>9, <1>16, ViewsSame DEF PagesComing
  <2>4. (~walk.hasty => Covered((tab.page - 1) * PageSize, walk.seen))'
    BY <1>9, <1>16, ViewsSame DEF PagesComing
  <2>5. PagesComing'
    BY <2>1, <2>2, <2>3, <2>4 DEF PagesComing
  <2>6. QED
    BY <1>14, <2>5 DEF ListInv
<1>17. QED
  BY <1>9, <1>15, <1>16 DEF ListInv

LEMMA CountKeeps ==
  ASSUME ListTypes, ListInv, NEW i \in DOMAIN calls, CountRows(i), txn' = txn
  PROVE  ListTypes' /\ ListInv'
<1>1. PICK c \in ListCalls : c = calls[i]
  <2>1. i \in 1 .. Len(calls) /\ calls \in Seq(ListCalls)
    BY LenProperties DEF ListTypes
  <2>2. QED
    BY <2>1, ElementOfSeq
<1>2. PICK n \in Nat : n = Len(Among(rows, c.search)) /\ n <= Len(rows)
  <2>1. PICK search : search = c.search
    OBVIOUS
  <2>2. QED
    BY <2>1, ViewTypes DEF ListTypes, AdminTypeOK
<1>3. PICK d : d = [c EXCEPT !.count = n,
                             !.step = IF Beyond(c.page, n) THEN "refused"
                                                           ELSE "counted"]
  OBVIOUS
<1>4. /\ d \in ListCalls /\ d.page = c.page /\ d.count = n /\ d.rows = c.rows
  <2>1. PICK step \in {"refused", "counted"} :
          step = IF Beyond(c.page, n) THEN "refused" ELSE "counted"
    BY Zenon
  <2>2. d = [c EXCEPT !.count = n, !.step = step]
    BY <1>3, <2>1
  <2>3. QED
    BY <2>2 DEF ListCalls
<1>5. Serve(i, d) /\ c.step = "sent"
  BY <1>1, <1>2, <1>3 DEF CountRows
<1>6. Asked(c) => Asked(d)
  BY <1>2, <1>3, <1>5, CountAsked
<1>7. Len(d.rows) <= PageSize
  BY <1>1, <1>4 DEF ListTypes, AdminTypeOK
<1>8. QED
  BY <1>1, <1>2, <1>4, <1>5, <1>6, <1>7, ServeKeeps

LEMMA FetchKeeps ==
  ASSUME ListTypes, ListInv, NEW i \in DOMAIN calls, FetchPage(i), txn' = txn
  PROVE  ListTypes' /\ ListInv'
<1>1. PICK c \in ListCalls : c = calls[i]
  <2>1. i \in 1 .. Len(calls) /\ calls \in Seq(ListCalls)
    BY LenProperties DEF ListTypes
  <2>2. QED
    BY <2>1, ElementOfSeq
<1>2. PICK list \in Seq(Keys) : list = Among(rows, c.search)
  <2>1. PICK search : search = c.search
    OBVIOUS
  <2>2. QED
    BY <2>1, ViewTypes DEF ListTypes, AdminTypeOK
<1>3. PICK page \in Nat \ {0}, count \in Nat : page = c.page /\ count = c.count
  BY DEF ListCalls
<1>4. PICK slice \in Seq(Keys) :
        slice = PageOf(list, page, count) /\ Len(slice) <= PageSize
  BY PageOfRows
<1>5. PICK d : d = [c EXCEPT !.step = "answered", !.rows = slice]
  OBVIOUS
<1>6. d \in ListCalls /\ d.page = c.page /\ d.count = c.count /\ d.rows = slice
  BY <1>5 DEF ListCalls
<1>7. Serve(i, d) /\ c.step = "counted"
  BY <1>1, <1>2, <1>3, <1>4, <1>5 DEF FetchPage
<1>8. Asked(c) => Asked(d)
  BY <1>2, <1>3, <1>4, <1>5, <1>7, FetchAsked
<1>9. d.count <= Len(rows) /\ Len(d.rows) <= PageSize
  BY <1>1, <1>4, <1>6 DEF ListTypes
<1>10. QED
  BY <1>1, <1>6, <1>7, <1>8, <1>9, ServeKeeps

\* A call is sent after the m calls in flight.
SentAfter(m, page, search) ==
  /\ m \in Nat /\ m = Len(calls) /\ DOMAIN calls = 1 .. m
  /\ m = 0 <=> calls = <<>>
  /\ Len(calls') = m + 1 /\ DOMAIN calls' = 1 .. m + 1
  /\ calls' # <<>>
  /\ \A j \in 1 .. m : calls'[j] = calls[j]
  /\ calls'[m + 1] = Sent(page, search)
  /\ UNCHANGED <<stack, rows, txn>>
  /\ tab'.page = page /\ tab'.search = search /\ tab'.count = tab.count

LEMMA Nothing ==
  ASSUME NEW S
  PROVE  <<>> \in Seq(S) /\ Len(<<>>) = 0 /\ DOMAIN <<>> = {}
<1>1. <<>> \in Seq(S)
  OBVIOUS
<1>2. Len(<<>>) = 0
  OBVIOUS
<1>3. DOMAIN <<>> = {}
  OBVIOUS
<1>4. QED
  BY <1>1, <1>2, <1>3

LEMMA One ==
  ASSUME NEW S, NEW c \in S
  PROVE  /\ <<c>> \in Seq(S) /\ Len(<<c>>) = 1
         /\ DOMAIN <<c>> = {1} /\ <<c>>[1] = c
<1>1. <<c>> \in Seq(S)
  OBVIOUS
<1>2. Len(<<c>>) = 1 /\ DOMAIN <<c>> = 1 .. 1 /\ <<c>>[1] = c
  OBVIOUS
<1>3. QED
  BY <1>1, <1>2

LEMMA SentTypes ==
  ASSUME NEW page \in Nat \ {0}, NEW search \in Searches
  PROVE  \E c \in ListCalls :
           /\ c = Sent(page, search) /\ c.page = page /\ c.search = search
           /\ c.step = "sent" /\ c.count = 0 /\ c.rows = <<>>
<1>1. PICK none \in Seq(Keys) : none = <<>>
  BY Nothing
<1>2. [page |-> page, search |-> search, step |-> "sent", count |-> 0,
       rows |-> none, shifted |-> FALSE] \in ListCalls
  BY DEF ListCalls
<1>3. Sent(page, search) \in ListCalls
  BY <1>1, <1>2 DEF Sent
<1>4. /\ Sent(page, search).page = page /\ Sent(page, search).search = search
      /\ Sent(page, search).step = "sent" /\ Sent(page, search).count = 0
      /\ Sent(page, search).rows = <<>>
  BY DEF Sent
<1>5. QED
  BY <1>3, <1>4

LEMMA CallTypes ==
  ASSUME ListTypes, NEW page \in Nat \ {0}, BeginsWithin(page, Len(rows)),
         NEW search \in Searches, Call(page, search), txn' = txn,
         garbled' \in BOOLEAN,
         walk' \in [from : Nat, seen : SUBSET Keys, shifted : BOOLEAN,
                    hasty : BOOLEAN],
         walk'.from <= Len(rows)
  PROVE  ListTypes' /\ \E m : SentAfter(m, page, search)
<1>1. PICK m \in Nat : m = Len(calls) /\ DOMAIN calls = 1 .. m
  BY LenProperties DEF ListTypes
<1>2. PICK old, new : old \in Seq(ListCalls) /\ old = calls /\ new = calls'
  BY DEF ListTypes
<1>3. PICK c \in ListCalls : /\ c = Sent(page, search)
                             /\ c.count = 0 /\ c.rows = <<>>
  BY SentTypes
<1>4. new = Append(old, c) /\ m < MaxCalls
  BY <1>1, <1>2, <1>3 DEF Call
<1>5. /\ new \in Seq(ListCalls) /\ Len(new) = m + 1 /\ new # <<>>
      /\ \A j \in 1 .. m : new[j] = old[j]
      /\ new[m + 1] = c
  BY <1>1, <1>2, <1>4, AppendProperties
<1>6. DOMAIN new = 1 .. m + 1
  BY <1>5, LenProperties
<1>7. \A j \in 1 .. m + 1 : j \in 1 .. m \/ j = m + 1
  OBVIOUS
<1>8. /\ UNCHANGED <<stack, rows, txn>>
      /\ tab' = [tab EXCEPT !.page = page, !.search = search]
  BY DEF Call
<1>9. /\ tab' \in [page : Nat \ {0}, search : Searches, shown : Seq(Keys), count : Nat]
      /\ tab'.page = page /\ tab'.search = search
      /\ tab'.count = tab.count /\ tab'.shown = tab.shown
  BY <1>8 DEF ListTypes
<1>10. Len(rows) \in Nat
  BY LenProperties DEF ListTypes, AdminTypeOK
<1>11. AdminTypeOK'
  <2>1. BeginsWithin(page, Len(rows))
    OBVIOUS
  <2>2. m + 1 <= MaxCalls
    BY <1>4, SizesArePositive
  <2>3. Len(<<>>) <= PageSize
    BY SizesArePositive
  <2>4. \A j \in 1 .. m : Len(old[j].rows) <= PageSize
    BY <1>1, <1>2 DEF ListTypes, AdminTypeOK
  <2>5. \A j \in 1 .. m + 1 : Len(new[j].rows) <= PageSize
    BY <1>3, <1>5, <1>7, <2>3, <2>4
  <2>6. QED
    BY <1>2, <1>5, <1>6, <1>8, <1>9, <2>1, <2>2, <2>5 DEF ListTypes, AdminTypeOK
<1>12. \A j \in 1 .. m + 1 : new[j].count <= Len(rows)
  <2>1. \A j \in 1 .. m : old[j].count <= Len(rows)
    BY <1>1, <1>2 DEF ListTypes
  <2>2. QED
    BY <1>3, <1>5, <1>7, <1>10, <2>1
<1>13. ListTypes'
  BY <1>2, <1>5, <1>6, <1>8, <1>9, <1>11, <1>12 DEF ListTypes
<1>14. m = 0 <=> calls = <<>>
  BY <1>1, <1>2, EmptyLength
<1>15. SentAfter(m, page, search)
  BY <1>1, <1>2, <1>3, <1>5, <1>6, <1>8, <1>9, <1>14 DEF SentAfter
<1>16. QED
  BY <1>13, <1>15

LEMMA NewCallAsked ==
  ASSUME NEW page, NEW search, NEW c, c = Sent(page, search),
         search = tab'.search, Within(page)',
         ~walk'.hasty => Covered((page - 1) * PageSize, walk.seen)'
  PROVE  Asked(c)'
<1>1. c.page = page /\ c.search = search /\ c.step = "sent"
  BY DEF Sent
<1>2. QED
  BY <1>1 DEF Asked

\* The first page begins with the first row.
LEMMA NothingBefore ==
  ASSUME ListTypes, NEW seen
  PROVE  Covered((1 - 1) * PageSize, seen)
<1>1. (1 - 1) * PageSize = 0
  BY SizesArePositive
<1>2. \A j \in DOMAIN Shown : ~(j <= 0)
  BY ShownTypes
<1>3. Covered(0, seen)
  BY <1>2 DEF Covered
<1>4. QED
  BY <1>1, <1>3

LEMMA NothingBeforeNext ==
  ASSUME ListTypes', NEW seen
  PROVE  Covered((1 - 1) * PageSize, seen)'
<1>1. (1 - 1) * PageSize = 0
  BY SizesArePositive
<1>2. PICK list, keep : list = rows' /\ keep = Matching(tab.search)'
  OBVIOUS
<1>3. list \in Seq(Keys)
  BY <1>2 DEF ListTypes, AdminTypeOK
<1>4. PICK view : view = Kept(list, keep)
  OBVIOUS
<1>5. view \in Seq(Keys)
  BY <1>3, <1>4, KeptElements
<1>6. DOMAIN view = 1 .. Len(view)
  BY <1>5, LenProperties
<1>7. Shown' = view
  BY <1>2, <1>4 DEF Shown, Among
<1>8. \A j \in DOMAIN Shown' : ~(j <= 0)
  BY <1>6, <1>7
<1>9. Covered(0, seen)'
  BY <1>8 DEF Covered
<1>10. QED
  BY <1>1, <1>9

LEMMA TypeSearchKeeps ==
  ASSUME ListTypes, NEW search \in Searches, TypeSearch(search), txn' = txn
  PROVE  ListTypes' /\ ListInv'
<1>1. PICK n \in Nat : n = Len(rows)
  BY ShownTypes
<1>2. /\ walk' = NewWalk /\ garbled' = FALSE /\ Call(1, search)
  BY DEF TypeSearch
<1>3. /\ walk' \in [from : Nat, seen : SUBSET Keys, shifted : BOOLEAN,
                    hasty : BOOLEAN]
      /\ walk'.from <= Len(rows)
  BY <1>1, <1>2 DEF NewWalk
<1>c. ListTypes' /\ \E m : SentAfter(m, 1, search)
  <2>1. PICK page \in Nat \ {0} : page = 1
    OBVIOUS
  <2>2. BeginsWithin(page, Len(rows)) /\ Call(page, search) /\ garbled' \in BOOLEAN
    BY <1>2, <2>1 DEF BeginsWithin
  <2>3. ListTypes' /\ \E m : SentAfter(m, page, search)
    BY <1>3, <2>2, CallTypes
  <2>4. QED
    BY <2>1, <2>3
<1>5. PICK m \in Nat : SentAfter(m, 1, search)
  BY <1>c DEF SentAfter
<1>4. /\ ListTypes' /\ tab'.page = 1 /\ tab'.search = search
      /\ Len(calls') = m + 1 /\ DOMAIN calls' = 1 .. m + 1
      /\ calls'[m + 1] = Sent(1, search)
  <2>1. ListTypes'
    BY <1>c
  <2>2. /\ tab'.page = 1 /\ tab'.search = search
        /\ Len(calls') = m + 1 /\ DOMAIN calls' = 1 .. m + 1
        /\ calls'[m + 1] = Sent(1, search)
    BY <1>5, Zenon DEF SentAfter
  <2>3. QED
    BY <2>1, <2>2
<1>6. PICK c : c = Sent(1, search) /\ c.page = 1
  <2>1. Sent(1, search).page = 1
    BY DEF Sent
  <2>2. QED
    BY <2>1
<1>7. Asked(c)'
  <2>1. PICK seen : seen = walk'.seen
    OBVIOUS
  <2>2. Covered((1 - 1) * PageSize, seen)'
    BY <1>4, NothingBeforeNext
  <2>3. Within(1)'
    BY DEF Within
  <2>4. ~walk'.hasty => Covered((1 - 1) * PageSize, walk.seen)'
    BY <2>1, <2>2
  <2>5. QED
    BY <1>4, <1>6, <2>3, <2>4, NewCallAsked
<1>8. \A i \in 1 .. m + 1 : i >= m + 1 => i = m + 1
  OBVIOUS
<1>9. m + 1 \in 1 .. m + 1
  OBVIOUS
<1>10. \A i \in DOMAIN calls' : i >= m + 1 => Asked(calls[i])' /\ calls'[i].page = 1
  BY <1>4, <1>6, <1>7, <1>8
<1>11. FirstPageComing'
  BY <1>4, <1>9, <1>10 DEF FirstPageComing
<1>12. calls'[Len(calls')].page = tab'.page
  BY <1>4, <1>6
<1>13. QED
  BY <1>4, <1>11, <1>12 DEF ListInv

\* One more call of the search, for a page that is not beyond the end.
LEMMA PagesComingKeeps ==
  ASSUME PagesComing, SameView, NEW m, NEW page, SentAfter(m, page, tab.search),
         walk'.hasty \/ (walk'.hasty = walk.hasty /\ walk.seen \subseteq walk'.seen),
         Within(page), ~walk'.hasty => Covered((page - 1) * PageSize, walk'.seen)
  PROVE  ListInv'
<1>1. /\ m \in Nat /\ DOMAIN calls = 1 .. m
      /\ Len(calls') = m + 1 /\ DOMAIN calls' = 1 .. m + 1
  BY DEF SentAfter
<1>2. /\ calls' # <<>>
      /\ \A j \in 1 .. m : calls'[j] = calls[j]
  BY DEF SentAfter
<1>3. /\ calls'[m + 1] = Sent(page, tab.search)
      /\ tab'.page = page /\ tab'.search = tab.search /\ tab'.count = tab.count
  BY DEF SentAfter
<1>4. PICK c : c = Sent(page, tab.search)
  OBVIOUS
<1>5. c.page = page
  BY <1>4 DEF Sent
<1>6. Within(page)' /\ tab'.count <= Len(Shown')
  <2>1. tab.count <= Len(Shown)
    BY DEF PagesComing
  <2>2. Shown' = Shown /\ \A q : Within(q)' <=> Within(q)
    BY ViewsSame
  <2>3. QED
    BY <1>3, <2>1, <2>2
<1>7. ~walk'.hasty => Covered((page - 1) * PageSize, walk.seen)'
  <2>1. PICK n, seen : n = (page - 1) * PageSize /\ seen = walk'.seen
    OBVIOUS
  <2>2. Covered(n, seen)' <=> Covered(n, seen)
    BY ViewsSame
  <2>3. QED
    BY <2>1, <2>2
<1>8. Asked(c)'
  <2>1. PICK search : search = tab.search
    OBVIOUS
  <2>2. QED
    BY <1>3, <1>4, <1>6, <1>7, <2>1, NewCallAsked
<1>9. ASSUME NEW j \in 1 .. m + 1
      PROVE  Asked(calls[j])'
  <2>1. CASE j = m + 1
    BY <1>3, <1>4, <1>8, <2>1
  <2>2. CASE j # m + 1
    <3>1. j \in 1 .. m
      BY <1>1, <2>2
    <3>2. PICK d : d = calls[j]
      OBVIOUS
    <3>3. Asked(d)
      BY <1>1, <3>1, <3>2 DEF PagesComing
    <3>4. Asked(d)'
      BY <3>3, AskedKeeps
    <3>5. QED
      BY <1>2, <3>1, <3>2, <3>4
  <2>3. QED
    BY <2>1, <2>2
<1>10. \A j \in DOMAIN calls' : Asked(calls[j])'
  BY <1>1, <1>9
<1>11. Within(tab.page)' /\ (~walk.hasty => Covered((tab.page - 1) * PageSize, walk.seen))'
  BY <1>3, <1>6, <1>7
<1>12. PagesComing'
  BY <1>2, <1>6, <1>10, <1>11 DEF PagesComing
<1>13. calls'[Len(calls')].page = tab'.page
  BY <1>1, <1>3, <1>4, <1>5
<1>14. QED
  BY <1>12, <1>13 DEF ListInv

\* The page turned forward is within the end: the count is one of this search,
\* and rows only come.
LEMMA TurnForwardKeeps ==
  ASSUME ListTypes, ListInv, TurnForward, txn' = txn
  PROVE  ListTypes' /\ ListInv'
<1>1. /\ tab.page \in Nat \ {0} /\ tab.count \in Nat /\ tab.count <= Len(rows)
      /\ tab.search \in Searches /\ Len(rows) \in Nat
  BY LenProperties DEF ListTypes, AdminTypeOK
<1>2. PICK old \in Nat \ {0}, page \in Nat \ {0} :
        old = tab.page /\ page = tab.page + 1 /\ page - 1 = old
  BY <1>1
<1>3. PICK n \in Nat : n = old * PageSize /\ old <= n
  BY PageOffsets
<1>4. n < tab.count
  BY <1>2, <1>3 DEF TurnForward
<1>5. BeginsWithin(page, Len(rows))
  <2>1. n < Len(rows)
    BY <1>1, <1>3, <1>4
  <2>2. QED
    BY <1>2, <1>3, <2>1 DEF BeginsWithin
<1>6. /\ walk' = [walk EXCEPT !.hasty = @ \/ calls # <<>>]
      /\ garbled' = (garbled \/ FirstPagePending)
      /\ Call(page, tab.search)
  BY <1>2 DEF TurnForward
<1>7. /\ walk' \in [from : Nat, seen : SUBSET Keys, shifted : BOOLEAN, hasty : BOOLEAN]
      /\ walk'.from = walk.from /\ walk'.from <= Len(rows)
      /\ walk'.seen = walk.seen /\ walk'.hasty = (walk.hasty \/ calls # <<>>)
      /\ walk'.shifted = walk.shifted
      /\ garbled' \in BOOLEAN
  BY <1>6 DEF ListTypes
<1>8. ListTypes' /\ \E m : SentAfter(m, page, tab.search)
  <2>1. PICK search \in Searches : search = tab.search
    BY <1>1
  <2>2. ListTypes' /\ \E m : SentAfter(m, page, search)
    BY <1>5, <1>6, <1>7, <2>1, CallTypes
  <2>3. QED
    BY <2>1, <2>2
<1>9. PICK m : SentAfter(m, page, tab.search)
  BY <1>8
<1>10. SUFFICES ASSUME ~garbled' PROVE ListInv'
  BY <1>8 DEF ListInv
<1>11. ~garbled /\ ~FirstPagePending
  BY <1>6, <1>10
<1>12. PagesComing
  <2>1. \A i \in DOMAIN calls : calls[i].page # 1
    BY <1>11 DEF FirstPagePending, ToSet
  <2>2. ~FirstPageComing
    <3>1. ASSUME NEW b \in DOMAIN calls,
                 \A i \in DOMAIN calls : i >= b => calls[i].page = 1
          PROVE  FALSE
      <4>1. b >= b
        BY LenProperties DEF ListTypes
      <4>2. QED
        BY <2>1, <3>1, <4>1
    <3>2. QED
      BY <3>1 DEF FirstPageComing
  <2>3. QED
    BY <1>11, <2>2 DEF ListInv
<1>13. SameView
  BY <1>7, <1>9 DEF SentAfter, SameView
<1>14. Within(page)
  <2>1. tab.count <= Len(Shown) /\ Len(Shown) \in Nat
    BY <1>12, ShownTypes DEF PagesComing
  <2>2. n < Len(Shown)
    BY <1>1, <1>3, <1>4, <2>1
  <2>3. (page - 1) * PageSize = n
    BY <1>2, <1>3
  <2>4. QED
    BY <2>2, <2>3 DEF Within
<1>15. walk'.hasty \/ (walk'.hasty = walk.hasty /\ walk.seen \subseteq walk'.seen)
  <2>1. walk.hasty \in BOOLEAN
    BY DEF ListTypes
  <2>2. CASE calls = <<>>
    <3>1. walk'.hasty = walk.hasty
      BY <1>7, <2>1, <2>2
    <3>2. QED
      BY <1>7, <3>1
  <2>3. CASE calls # <<>>
    BY <1>7, <2>3
  <2>4. QED
    BY <2>2, <2>3
<1>16. ~walk'.hasty => Covered((page - 1) * PageSize, walk'.seen)
  <2>1. SUFFICES ASSUME ~walk'.hasty PROVE Covered(n, walk.seen)
    BY <1>2, <1>3, <1>7
  <2>2. ~walk.hasty /\ calls = <<>>
    BY <1>7, <2>1
  <2>3. Completes(tab.page, tab.count, walk.shifted, walk.seen)
    BY <1>12, <2>2 DEF PagesComing
  <2>4. QED
    BY <1>1, <1>2, <1>3, <1>4, <2>3 DEF Completes
<1>17. QED
  BY <1>9, <1>12, <1>13, <1>14, <1>15, <1>16, PagesComingKeeps

LEMMA TurnBackKeeps ==
  ASSUME ListTypes, ListInv, TurnBack, txn' = txn
  PROVE  ListTypes' /\ ListInv'
<1>1. /\ tab.page \in Nat \ {0} /\ tab.page > 1
      /\ BeginsWithin(tab.page, Len(rows))
      /\ tab.search \in Searches /\ Len(rows) \in Nat
  BY LenProperties DEF ListTypes, AdminTypeOK, TurnBack
<1>2. PICK page \in Nat \ {0} :
        page = tab.page - 1 /\ BeginsWithin(page, Len(rows))
  <2>1. PICK page \in Nat \ {0}, next \in Nat \ {0} :
          page = tab.page - 1 /\ next = tab.page /\ next = page + 1
    BY <1>1
  <2>2. BeginsWithin(page, Len(rows))
    BY <1>1, <2>1, EarlierBegins
  <2>3. QED
    BY <2>1, <2>2
<1>3. walk' = walk /\ garbled' = garbled /\ Call(page, tab.search)
  BY <1>2 DEF TurnBack
<1>4. ListTypes' /\ \E m : SentAfter(m, page, tab.search)
  <2>1. PICK search \in Searches : search = tab.search
    BY <1>1
  <2>2. /\ walk' \in [from : Nat, seen : SUBSET Keys, shifted : BOOLEAN, hasty : BOOLEAN]
        /\ walk'.from <= Len(rows) /\ garbled' \in BOOLEAN
    BY <1>3 DEF ListTypes
  <2>3. ListTypes' /\ \E m : SentAfter(m, page, search)
    BY <1>2, <1>3, <2>1, <2>2, CallTypes
  <2>4. QED
    BY <2>1, <2>3
<1>5. PICK m : SentAfter(m, page, tab.search)
  BY <1>4
<1>6. SUFFICES ASSUME ~garbled' PROVE ListInv'
  BY <1>4 DEF ListInv
<1>7. PagesComing
  BY <1>1, <1>3, <1>6 DEF ListInv, FirstPageComing
<1>8. SameView
  BY <1>3, <1>5 DEF SentAfter, SameView
<1>9. PICK before \in Nat, start \in Nat :
        /\ before = (page - 1) * PageSize
        /\ start = (tab.page - 1) * PageSize /\ before <= start
  <2>1. PICK k \in Nat : k = (page - 1) * PageSize /\ page * PageSize = k + PageSize
                         /\ page * PageSize \in Nat
    BY PageOffsets
  <2>2. PICK l \in Nat : l = page * PageSize
    BY <2>1
  <2>3. k <= l
    BY <2>1, <2>2, SizesArePositive
  <2>4. tab.page - 1 = page
    BY <1>1, <1>2
  <2>5. QED
    BY <2>1, <2>2, <2>3, <2>4
<1>10. Within(page)
  <2>1. start < Len(Shown)
    BY <1>1, <1>7, <1>9 DEF PagesComing, Within
  <2>2. before < Len(Shown)
    BY <1>9, <2>1, ShownTypes
  <2>3. QED
    BY <1>9, <2>2 DEF Within
<1>11. ~walk'.hasty => Covered((page - 1) * PageSize, walk'.seen)
  <2>1. PICK seen : seen = walk.seen
    OBVIOUS
  <2>2. ~walk.hasty => Covered(start, seen)
    BY <1>7, <1>9, <2>1 DEF PagesComing
  <2>3. ~walk.hasty => Covered(before, seen)
    BY <1>9, <2>2, CoveredLess
  <2>4. QED
    BY <1>3, <1>9, <2>1, <2>3
<1>12. QED
  BY <1>3, <1>5, <1>7, <1>8, <1>10, <1>11, PagesComingKeeps

LEMMA ReopenKeeps ==
  ASSUME ListTypes, ListInv, Reopen, txn' = txn
  PROVE  ListTypes' /\ ListInv'
<1>1. /\ tab.page \in Nat \ {0} /\ BeginsWithin(tab.page, Len(rows))
      /\ tab.search \in Searches /\ Len(rows) \in Nat
  BY LenProperties DEF ListTypes, AdminTypeOK
<1>2. PICK page \in Nat \ {0} : page = tab.page /\ BeginsWithin(page, Len(rows))
  BY <1>1
<1>3. walk' = walk /\ garbled' = garbled /\ Call(page, tab.search)
  BY <1>2 DEF Reopen
<1>4. ListTypes' /\ \E m : SentAfter(m, page, tab.search)
  <2>1. PICK search \in Searches : search = tab.search
    BY <1>1
  <2>2. /\ walk' \in [from : Nat, seen : SUBSET Keys, shifted : BOOLEAN, hasty : BOOLEAN]
        /\ walk'.from <= Len(rows) /\ garbled' \in BOOLEAN
    BY <1>3 DEF ListTypes
  <2>3. ListTypes' /\ \E m : SentAfter(m, page, search)
    BY <1>2, <1>3, <2>1, <2>2, CallTypes
  <2>4. QED
    BY <2>1, <2>3
<1>5. PICK m : SentAfter(m, page, tab.search)
  BY <1>4
<1>6. SUFFICES ASSUME ~garbled' PROVE ListInv'
  BY <1>4 DEF ListInv
<1>7. FirstPageComing \/ PagesComing
  BY <1>3, <1>6 DEF ListInv
<1>8. SameView
  BY <1>3, <1>5 DEF SentAfter, SameView
<1>9. CASE PagesComing
  <2>1. Within(page)
    BY <1>2, <1>9 DEF PagesComing
  <2>2. ~walk'.hasty => Covered((page - 1) * PageSize, walk'.seen)
    BY <1>2, <1>3, <1>9 DEF PagesComing
  <2>3. QED
    BY <1>3, <1>5, <1>8, <1>9, <2>1, <2>2, PagesComingKeeps
<1>10. CASE FirstPageComing
  <2>1. /\ m \in Nat /\ DOMAIN calls = 1 .. m
        /\ Len(calls') = m + 1 /\ DOMAIN calls' = 1 .. m + 1
    BY <1>5 DEF SentAfter
  <2>2. /\ \A j \in 1 .. m : calls'[j] = calls[j]
        /\ calls'[m + 1] = Sent(page, tab.search)
        /\ tab'.page = page /\ tab'.search = tab.search
    BY <1>5 DEF SentAfter
  <2>3. PICK b \in 1 .. m : /\ page = 1
                            /\ \A i \in 1 .. m : i >= b =>
                                 Asked(calls[i]) /\ calls[i].page = 1
    BY <1>2, <1>10, <2>1 DEF FirstPageComing
  <2>4. PICK c : c = Sent(1, tab.search)
    OBVIOUS
  <2>5. c.page = 1
    BY <2>4 DEF Sent
  <2>6. Asked(c)'
    <3>1. PICK seen, search : seen = walk'.seen /\ search = tab.search
      OBVIOUS
    <3>2. Covered((1 - 1) * PageSize, seen)'
      BY <1>4, NothingBeforeNext
    <3>3. Within(1)'
      BY DEF Within
    <3>4. ~walk'.hasty => Covered((1 - 1) * PageSize, walk.seen)'
      BY <3>1, <3>2
    <3>5. QED
      BY <2>2, <2>4, <3>1, <3>3, <3>4, NewCallAsked
  <2>7. ASSUME NEW i \in 1 .. m + 1, i >= b
        PROVE  Asked(calls[i])' /\ calls'[i].page = 1
    <3>1. CASE i = m + 1
      BY <2>2, <2>3, <2>4, <2>5, <2>6, <3>1
    <3>2. CASE i # m + 1
      <4>1. i \in 1 .. m
        BY <2>1, <3>2
      <4>2. PICK d : d = calls[i]
        OBVIOUS
      <4>3. Asked(d) /\ d.page = 1
        BY <2>3, <2>7, <4>1, <4>2
      <4>4. Asked(d)'
        BY <1>3, <1>8, <4>3, AskedKeeps
      <4>5. QED
        BY <2>2, <4>1, <4>2, <4>3, <4>4
    <3>3. QED
      BY <3>1, <3>2
  <2>8. b \in 1 .. m + 1
    BY <2>1
  <2>9. FirstPageComing'
    BY <2>1, <2>2, <2>3, <2>7, <2>8 DEF FirstPageComing
  <2>10. calls'[Len(calls')].page = tab'.page
    BY <2>1, <2>2, <2>3, <2>4, <2>5
  <2>11. QED
    BY <2>9, <2>10 DEF ListInv
<1>11. QED
  BY <1>7, <1>9, <1>10

-----------------------------------------------------------------------------
(* Replies.                                                                *)

\* What is left when a call has been answered or lost.
Removed(i, m) ==
  /\ m \in Nat /\ m + 1 = Len(calls) /\ DOMAIN calls = 1 .. m + 1
  /\ calls' \in Seq(ListCalls) /\ Len(calls') = m /\ DOMAIN calls' = 1 .. m
  /\ \A j \in 1 .. m : calls'[j] = IF j < i THEN calls[j] ELSE calls[j + 1]
  /\ calls' = <<>> <=> m = 0
  /\ \A j \in 1 .. m + 1 : calls[j] \in ListCalls

LEMMA RemoveAtRemoves ==
  ASSUME ListTypes, NEW i \in DOMAIN calls, calls' = RemoveAt(calls, i)
  PROVE  \E m : Removed(i, m)
<1>1. PICK k \in Nat : k = Len(calls) /\ DOMAIN calls = 1 .. k
  BY LenProperties DEF ListTypes
<1>2. PICK m \in Nat : k = m + 1 /\ i \in 1 .. m + 1
  <2>1. k - 1 \in Nat /\ k = k - 1 + 1
    BY <1>1
  <2>2. QED
    BY <1>1, <2>1
<1>3. PICK old, new : old \in Seq(ListCalls) /\ old = calls /\ new = calls'
  BY DEF ListTypes
<1>4. \A j \in 1 .. m + 1 : old[j] \in ListCalls
  BY <1>1, <1>2, <1>3, ElementOfSeq
<1>5. PICK a, b : a = SubSeq(old, 1, i - 1) /\ b = SubSeq(old, i + 1, m + 1)
  OBVIOUS
<1>6. new = a \o b
  BY <1>1, <1>2, <1>3, <1>5 DEF RemoveAt
<1>7. /\ a \in Seq(ListCalls) /\ Len(a) = i - 1
      /\ \A j \in 1 .. i - 1 : a[j] = old[j]
  <2>1. i - 1 \in Int /\ 1 \in Int /\ \A j \in 1 .. i - 1 : old[j] \in ListCalls
    BY <1>2, <1>4
  <2>2. /\ a \in Seq(ListCalls) /\ Len(a) = IF 1 <= i - 1 THEN i - 1 - 1 + 1 ELSE 0
        /\ \A j \in 1 .. i - 1 - 1 + 1 : a[j] = old[1 + j - 1]
    BY <1>5, <2>1, SubSeqProperties
  <2>3. QED
    BY <1>2, <2>2
<1>8. /\ b \in Seq(ListCalls) /\ Len(b) = m + 1 - i
      /\ \A j \in 1 .. m + 1 - i : b[j] = old[i + j]
  <2>1. i + 1 \in Int /\ m + 1 \in Int /\ \A j \in i + 1 .. m + 1 : old[j] \in ListCalls
    BY <1>2, <1>4
  <2>2. /\ b \in Seq(ListCalls)
        /\ Len(b) = IF i + 1 <= m + 1 THEN m + 1 - (i + 1) + 1 ELSE 0
        /\ \A j \in 1 .. m + 1 - (i + 1) + 1 : b[j] = old[i + 1 + j - 1]
    BY <1>5, <2>1, SubSeqProperties
  <2>3. QED
    BY <1>2, <2>2
<1>9. /\ new \in Seq(ListCalls) /\ Len(new) = m
      /\ \A j \in 1 .. m : new[j] = IF j <= i - 1 THEN a[j] ELSE b[j - (i - 1)]
  <2>1. /\ a \o b \in Seq(ListCalls) /\ Len(a \o b) = Len(a) + Len(b)
        /\ \A j \in 1 .. Len(a) + Len(b) :
             (a \o b)[j] = IF j <= Len(a) THEN a[j] ELSE b[j - Len(a)]
    BY <1>7, <1>8, ConcatProperties
  <2>2. Len(a) + Len(b) = m
    BY <1>2, <1>7, <1>8
  <2>3. QED
    BY <1>6, <1>7, <2>1, <2>2
<1>10. ASSUME NEW j \in 1 .. m
       PROVE  new[j] = IF j < i THEN old[j] ELSE old[j + 1]
  <2>1. CASE j < i
    <3>1. j <= i - 1 /\ j \in 1 .. i - 1
      BY <1>2, <2>1
    <3>2. QED
      BY <1>7, <1>9, <2>1, <3>1
  <2>2. CASE ~(j < i)
    <3>1. ~(j <= i - 1) /\ j - (i - 1) \in 1 .. m + 1 - i /\ i + (j - (i - 1)) = j + 1
      BY <1>2, <2>2
    <3>2. QED
      BY <1>8, <1>9, <2>2, <3>1
  <2>3. QED
    BY <2>1, <2>2
<1>11. DOMAIN new = 1 .. m
  BY <1>9, LenProperties
<1>12. new = <<>> <=> m = 0
  BY <1>9, EmptyLength
<1>13. Removed(i, m)
  BY <1>1, <1>2, <1>3, <1>4, <1>9, <1>10, <1>11, <1>12 DEF Removed
<1>14. QED
  BY <1>13

LEMMA RemovedTypes ==
  ASSUME ListTypes, NEW i, NEW m, Removed(i, m), i \in 1 .. m + 1,
         UNCHANGED <<stack, rows, txn>>,
         tab' \in [page : Nat \ {0}, search : Searches, shown : Seq(Keys), count : Nat],
         tab'.page = tab.page, tab'.count <= Len(rows), Len(tab'.shown) <= PageSize,
         walk' \in [from : Nat, seen : SUBSET Keys, shifted : BOOLEAN,
                    hasty : BOOLEAN],
         walk'.from = walk.from, garbled' \in BOOLEAN
  PROVE  ListTypes'
<1>1. /\ m \in Nat /\ m + 1 = Len(calls) /\ DOMAIN calls = 1 .. m + 1
      /\ calls' \in Seq(ListCalls) /\ Len(calls') = m /\ DOMAIN calls' = 1 .. m
  BY DEF Removed
<1>2. ASSUME NEW j \in 1 .. m
      PROVE  \E k \in 1 .. m + 1 : calls'[j] = calls[k]
  <2>1. j \in 1 .. m + 1 /\ j + 1 \in 1 .. m + 1
    BY <1>1
  <2>2. calls'[j] = calls[j] \/ calls'[j] = calls[j + 1]
    BY DEF Removed
  <2>3. QED
    BY <2>1, <2>2
<1>3. \A k \in 1 .. m + 1 : Len(calls[k].rows) <= PageSize /\ calls[k].count <= Len(rows)
  BY <1>1 DEF ListTypes, AdminTypeOK
<1>4. \A j \in 1 .. m : Len(calls'[j].rows) <= PageSize /\ calls'[j].count <= Len(rows)
  BY <1>2, <1>3
<1>5. m <= MaxCalls
  <2>1. m + 1 <= MaxCalls
    BY <1>1 DEF ListTypes, AdminTypeOK
  <2>2. QED
    BY <1>1, <2>1, SizesArePositive
<1>6. AdminTypeOK'
  BY <1>1, <1>4, <1>5 DEF ListTypes, AdminTypeOK
<1>7. QED
  BY <1>1, <1>4, <1>6 DEF ListTypes

LEMMA LoseKeeps ==
  ASSUME ListTypes, NEW i \in DOMAIN calls, Lose(i), txn' = txn
  PROVE  ListTypes' /\ ListInv'
<1>1. PICK m : Removed(i, m)
  BY RemoveAtRemoves DEF Lose
<1>2. UNCHANGED <<stack, rows, tab, walk>> /\ garbled' = TRUE
  BY DEF Lose
<1>3. /\ tab.count <= Len(rows) /\ Len(tab.shown) <= PageSize
      /\ tab \in [page : Nat \ {0}, search : Searches, shown : Seq(Keys), count : Nat]
      /\ walk \in [from : Nat, seen : SUBSET Keys, shifted : BOOLEAN, hasty : BOOLEAN]
  BY DEF ListTypes, AdminTypeOK
<1>4. i \in 1 .. m + 1
  BY <1>1 DEF Removed
<1>5. ListTypes'
  BY <1>1, <1>2, <1>3, <1>4, RemovedTypes
<1>6. QED
  BY <1>2, <1>5 DEF ListInv

LEMMA ReplyTypes ==
  ASSUME ListTypes, NEW i \in DOMAIN calls, Reply(i), txn' = txn
  PROVE  /\ ListTypes' /\ SameView /\ \E m : Removed(i, m)
         /\ tab'.page = tab.page
         /\ walk'.hasty = walk.hasty /\ walk.seen \subseteq walk'.seen
<1>1. PICK m : Removed(i, m)
  BY RemoveAtRemoves DEF Reply
<1>2. i \in 1 .. m + 1 /\ calls[i] \in ListCalls
  BY <1>1 DEF Removed
<1>3. PICK c \in ListCalls : c = calls[i]
  BY <1>2
<1>4. /\ c.rows \in Seq(Keys) /\ c.count \in Nat /\ c.shifted \in BOOLEAN
      /\ c.count <= Len(rows) /\ Len(c.rows) <= PageSize
  BY <1>3 DEF ListCalls, ListTypes, AdminTypeOK
<1>5. ToSet(c.rows) \subseteq Keys
  <2>1. \A j \in 1 .. Len(c.rows) : c.rows[j] \in Keys
    BY <1>4, ElementOfSeq
  <2>2. QED
    BY <1>4, <2>1, LenProperties DEF ToSet
<1>6. /\ tab.count <= Len(rows) /\ Len(tab.shown) <= PageSize
      /\ tab \in [page : Nat \ {0}, search : Searches, shown : Seq(Keys), count : Nat]
      /\ walk \in [from : Nat, seen : SUBSET Keys, shifted : BOOLEAN, hasty : BOOLEAN]
  BY DEF ListTypes, AdminTypeOK
<1>7. UNCHANGED <<stack, rows, txn>>
  BY DEF Reply
<1>8. garbled' \in BOOLEAN
  BY DEF Reply, ListTypes
<1>9. /\ tab' = tab \/ tab' = [tab EXCEPT !.shown = c.rows, !.count = c.count]
      /\ walk' = walk \/ walk' = [walk EXCEPT !.seen = @ \cup ToSet(c.rows),
                                              !.shifted = c.shifted]
  BY <1>3, Zenon DEF Reply
<1>10. /\ tab' \in [page : Nat \ {0}, search : Searches, shown : Seq(Keys), count : Nat]
       /\ tab'.page = tab.page /\ tab'.search = tab.search
       /\ tab'.count <= Len(rows) /\ Len(tab'.shown) <= PageSize
  BY <1>4, <1>6, <1>9
<1>11. /\ walk' \in [from : Nat, seen : SUBSET Keys, shifted : BOOLEAN, hasty : BOOLEAN]
       /\ walk'.from = walk.from /\ walk'.hasty = walk.hasty
       /\ walk.seen \subseteq walk'.seen
  <2>1. PICK slice \in SUBSET Keys : slice = ToSet(c.rows)
    BY <1>5
  <2>2. walk' = walk \/ walk' = [walk EXCEPT !.seen = @ \cup slice,
                                             !.shifted = c.shifted]
    BY <1>9, <2>1
  <2>3. QED
    BY <1>4, <1>6, <2>2
<1>12. ListTypes'
  BY <1>1, <1>2, <1>7, <1>8, <1>10, <1>11, RemovedTypes
<1>13. QED
  BY <1>1, <1>7, <1>10, <1>11, <1>12 DEF SameView

\* All that is in flight was sent since the search was typed: so was the reply.
LEMMA CurrentReplyKeeps ==
  ASSUME ListTypes, Reply(1), txn' = txn, 1 \in DOMAIN calls,
         \A j \in DOMAIN calls : Asked(calls[j]),
         Within(tab.page),
         ~walk.hasty => Covered((tab.page - 1) * PageSize, walk.seen),
         calls[Len(calls)].page = tab.page
  PROVE  PagesComing'
<1>1. /\ SameView /\ tab'.page = tab.page
      /\ walk'.hasty = walk.hasty /\ walk.seen \subseteq walk'.seen
  BY ReplyTypes
<1>2. PICK m : Removed(1, m)
  BY ReplyTypes
<1>3. /\ m \in Nat /\ m + 1 = Len(calls) /\ DOMAIN calls = 1 .. m + 1
      /\ DOMAIN calls' = 1 .. m /\ \A j \in 1 .. m : calls'[j] = calls[j + 1]
      /\ calls' = <<>> <=> m = 0
  <2>1. /\ m \in Nat /\ m + 1 = Len(calls) /\ DOMAIN calls = 1 .. m + 1
        /\ DOMAIN calls' = 1 .. m
        /\ \A j \in 1 .. m : calls'[j] = IF j < 1 THEN calls[j] ELSE calls[j + 1]
        /\ calls' = <<>> <=> m = 0
    BY <1>2 DEF Removed
  <2>2. QED
    BY <2>1
<1>4. PICK c \in ListCalls : c = calls[1]
  BY <1>2, <1>3 DEF Removed
<1>5. Asked(c)
  BY <1>4
<1>6. c.step = "answered" /\ c.search = tab.search
  BY <1>4, <1>5 DEF Asked, Reply
<1>7. /\ tab' = [tab EXCEPT !.shown = c.rows, !.count = c.count]
      /\ walk' = [walk EXCEPT !.seen = @ \cup ToSet(c.rows), !.shifted = c.shifted]
  BY <1>4, <1>6 DEF Reply
<1>8. /\ tab'.shown = c.rows /\ tab'.count = c.count
      /\ walk'.seen = walk.seen \cup ToSet(c.rows) /\ walk'.shifted = c.shifted
  BY <1>7 DEF ListTypes
<1>9. \A j \in DOMAIN calls' : Asked(calls[j])'
  <2>1. ASSUME NEW j \in 1 .. m PROVE Asked(calls[j])'
    <3>1. j + 1 \in 1 .. m + 1 /\ calls'[j] = calls[j + 1]
      BY <1>3
    <3>2. PICK d : d = calls[j + 1]
      OBVIOUS
    <3>3. Asked(d)
      BY <1>3, <3>1, <3>2
    <3>4. Asked(d)'
      BY <1>1, <3>3, AskedKeeps
    <3>5. QED
      BY <3>1, <3>2, <3>4
  <2>2. QED
    BY <1>3, <2>1
<1>10. Within(tab.page)' /\ tab'.count <= Len(Shown)'
  <2>1. c.count <= Len(Shown)
    BY <1>5, <1>6 DEF Asked
  <2>2. Shown' = Shown /\ \A page : Within(page)' <=> Within(page)
    BY <1>1, ViewsSame
  <2>3. QED
    BY <1>1, <1>8, <2>1, <2>2
<1>11. (~walk.hasty => Covered((tab.page - 1) * PageSize, walk.seen))'
  <2>1. PICK n, seen, more :
          n = (tab.page - 1) * PageSize /\ seen = walk.seen /\ more = walk'.seen
    OBVIOUS
  <2>2. seen \subseteq more
    BY <1>1, <2>1
  <2>3. ~walk.hasty => Covered(n, more)
    BY <2>1, <2>2, SeenGrows
  <2>4. ~walk.hasty => Covered(n, more)'
    BY <1>1, <2>3, ViewsSame
  <2>5. QED
    BY <1>1, <2>1, <2>4
<1>12. calls' = <<>> =>
         (\E n \in walk.from .. Len(rows) :
            /\ CountedAt(n, tab.count)
            /\ \E q \in n .. Len(rows) : TakenAt(q, tab.page, tab.count, tab.shown))'
  <2>1. SUFFICES ASSUME m = 0
                 PROVE  (\E n \in walk.from .. Len(rows) :
                           /\ CountedAt(n, tab.count)
                           /\ \E q \in n .. Len(rows) :
                                TakenAt(q, tab.page, tab.count, tab.shown))'
    BY <1>3
  <2>2. c.page = tab.page
    <3>1. Len(calls) = 1
      BY <1>3, <2>1
    <3>2. calls[1].page = tab.page
      BY <3>1, Zenon
    <3>3. QED
      BY <1>4, <3>2
  <2>3. PICK n \in walk.from .. Len(rows) :
          /\ CountedAt(n, c.count)
          /\ \E q \in n .. Len(rows) : TakenAt(q, c.page, c.count, c.rows)
    BY <1>5, <1>6 DEF Asked
  <2>4. PICK q \in n .. Len(rows) : TakenAt(q, c.page, c.count, c.rows)
    BY <2>3
  <2>5. PICK page, count, slice : page = c.page /\ count = c.count /\ slice = c.rows
    OBVIOUS
  <2>6. CountedAt(n, count)' /\ TakenAt(q, page, count, slice)'
    BY <1>1, <2>3, <2>4, <2>5, ViewsSame
  <2>7. rows' = rows /\ walk'.from = walk.from
    BY <1>1 DEF SameView
  <2>8. QED
    BY <1>1, <1>8, <2>2, <2>5, <2>6, <2>7
<1>13. (calls' = <<>> /\ ~walk'.hasty) =>
         Completes(tab.page, tab.count, walk.shifted, walk.seen)'
  <2>1. SUFFICES ASSUME m = 0, ~walk.hasty
                 PROVE  Completes(tab.page, tab.count, walk.shifted, walk.seen)'
    BY <1>1, <1>3
  <2>2. c.page = tab.page
    <3>1. Len(calls) = 1
      BY <1>3, <2>1
    <3>2. calls[1].page = tab.page
      BY <3>1, Zenon
    <3>3. QED
      BY <1>4, <3>2
  <2>3. PICK page, count, shifted, seen :
          /\ page = c.page /\ count = c.count /\ shifted = c.shifted
          /\ seen = walk.seen \cup ToSet(c.rows)
    OBVIOUS
  <2>4. Completes(page, count, shifted, seen)
    BY <1>5, <1>6, <2>1, <2>3 DEF Asked
  <2>5. Completes(page, count, shifted, seen)'
    BY <1>1, <2>4, ViewsSame
  <2>6. QED
    BY <1>1, <1>8, <2>2, <2>3, <2>5
<1>14. QED
  BY <1>9, <1>10, <1>11, <1>12, <1>13 DEF PagesComing

LEMMA ReplyKeeps ==
  ASSUME ListTypes, ListInv, NEW i \in DOMAIN calls, Reply(i), txn' = txn
  PROVE  ListTypes' /\ ListInv'
<1>1. /\ ListTypes' /\ SameView /\ tab'.page = tab.page
      /\ walk'.hasty = walk.hasty /\ walk.seen \subseteq walk'.seen
  BY ReplyTypes
<1>2. SUFFICES ASSUME ~garbled' PROVE ListInv'
  BY <1>1 DEF ListInv
<1>3. i = 1 /\ ~garbled
  BY <1>2 DEF Reply
<1>4. PICK m : Removed(1, m)
  BY <1>3, ReplyTypes
<1>5. /\ m \in Nat /\ m + 1 = Len(calls) /\ DOMAIN calls = 1 .. m + 1
      /\ Len(calls') = m
      /\ DOMAIN calls' = 1 .. m /\ \A j \in 1 .. m : calls'[j] = calls[j + 1]
      /\ calls' = <<>> <=> m = 0
  <2>1. /\ m \in Nat /\ m + 1 = Len(calls) /\ DOMAIN calls = 1 .. m + 1
        /\ DOMAIN calls' = 1 .. m /\ Len(calls') = m
        /\ \A j \in 1 .. m : calls'[j] = IF j < 1 THEN calls[j] ELSE calls[j + 1]
        /\ calls' = <<>> <=> m = 0
    BY <1>4 DEF Removed
  <2>2. QED
    BY <2>1
<1>6. calls[Len(calls)].page = tab.page
  <2>1. calls # <<>>
    BY <1>5
  <2>2. QED
    BY <1>3, <2>1 DEF ListInv
<1>7. (calls # <<>> => calls[Len(calls)].page = tab.page)'
  <2>1. m # 0 => m \in 1 .. m
    BY <1>5
  <2>2. QED
    BY <1>1, <1>5, <1>6, <2>1
<1>8. CASE PagesComing
  <2>1. PagesComing'
    BY <1>3, <1>6, <1>8, CurrentReplyKeeps DEF PagesComing
  <2>2. QED
    BY <1>7, <2>1 DEF ListInv
<1>9. CASE FirstPageComing
  <2>1. PICK b \in 1 .. m + 1 : \A j \in 1 .. m + 1 : j >= b =>
                                   Asked(calls[j]) /\ calls[j].page = 1
    BY <1>5, <1>9 DEF FirstPageComing
  <2>2. tab.page = 1
    BY <1>9 DEF FirstPageComing
  <2>3. CASE b = 1
    <3>1. \A j \in DOMAIN calls : Asked(calls[j])
      BY <1>5, <2>1, <2>3
    <3>2. Within(tab.page)
      BY <2>2 DEF Within
    <3>3. Covered((tab.page - 1) * PageSize, walk.seen)
      <4>1. PICK seen : seen = walk.seen
        OBVIOUS
      <4>2. Covered((1 - 1) * PageSize, seen)
        BY NothingBefore
      <4>3. QED
        BY <2>2, <4>1, <4>2
    <3>4. PagesComing'
      BY <1>3, <1>6, <3>1, <3>2, <3>3, CurrentReplyKeeps
    <3>5. QED
      BY <1>7, <3>4 DEF ListInv
  <2>4. CASE b # 1
    <3>1. PICK a \in 1 .. m : a + 1 = b
      <4>1. b - 1 \in 1 .. m /\ b - 1 + 1 = b
        BY <1>5, <2>4
      <4>2. QED
        BY <4>1
    <3>2. ASSUME NEW j \in 1 .. m, j >= a
          PROVE  Asked(calls[j])' /\ calls'[j].page = 1
      <4>1. j + 1 \in 1 .. m + 1 /\ j + 1 >= b /\ calls'[j] = calls[j + 1]
        BY <1>5, <3>1, <3>2
      <4>2. PICK d : d = calls[j + 1]
        OBVIOUS
      <4>3. Asked(d) /\ d.page = 1
        BY <2>1, <4>1, <4>2
      <4>4. Asked(d)'
        BY <1>1, <4>3, AskedKeeps
      <4>5. QED
        BY <4>1, <4>2, <4>3, <4>4
    <3>3. FirstPageComing'
      BY <1>1, <1>5, <2>2, <3>2 DEF FirstPageComing
    <3>4. QED
      BY <1>7, <3>3 DEF ListInv
  <2>5. QED
    BY <2>3, <2>4
<1>10. QED
  BY <1>3, <1>8, <1>9 DEF ListInv

-----------------------------------------------------------------------------
(* The list is kept by every step.                                         *)

LEMMA ListStepKeeps ==
  ASSUME ListTypes, ListInv, ListStep, txn' = txn
  PROVE  ListTypes' /\ ListInv'
<1>1. ASSUME NEW s \in Searches, TypeSearch(s)
      PROVE  ListTypes' /\ ListInv'
  BY <1>1, TypeSearchKeeps
<1>2. CASE TurnForward
  BY <1>2, TurnForwardKeeps
<1>3. CASE TurnBack
  BY <1>3, TurnBackKeeps
<1>4. CASE Reopen
  BY <1>4, ReopenKeeps
<1>5. ASSUME NEW i \in DOMAIN calls, CountRows(i)
      PROVE  ListTypes' /\ ListInv'
  BY <1>5, CountKeeps
<1>6. ASSUME NEW i \in DOMAIN calls, FetchPage(i)
      PROVE  ListTypes' /\ ListInv'
  BY <1>6, FetchKeeps
<1>7. ASSUME NEW i \in DOMAIN calls, Reply(i)
      PROVE  ListTypes' /\ ListInv'
  BY <1>7, ReplyKeeps
<1>8. ASSUME NEW i \in DOMAIN calls, Lose(i)
      PROVE  ListTypes' /\ ListInv'
  BY <1>8, LoseKeeps
<1>9. QED
  BY <1>1, <1>2, <1>3, <1>4, <1>5, <1>6, <1>7, <1>8 DEF ListStep

\* Steps that leave the panel's list and the rows alone.
LEMMA OthersKeepList ==
  ASSUME ListTypes, ListInv, UNCHANGED <<stack, rows, listVars, txn>>
  PROVE  ListTypes' /\ ListInv'
<1>1. SameView /\ UNCHANGED <<tab, calls, garbled, walk>>
  BY DEF SameView, listVars
<1>2. ListTypes'
  BY <1>1 DEF ListTypes, AdminTypeOK, SameView
<1>3. ASSUME NEW i \in DOMAIN calls, Asked(calls[i])
      PROVE  Asked(calls[i])'
  <2>1. PICK c : c = calls[i]
    OBVIOUS
  <2>2. Asked(c)
    BY <1>3, <2>1
  <2>3. Asked(c)'
    BY <1>1, <2>2, AskedKeeps
  <2>4. QED
    BY <1>1, <2>1, <2>3
<1>4. FirstPageComing => FirstPageComing'
  BY <1>1, <1>3 DEF FirstPageComing
<1>5. ASSUME PagesComing
      PROVE  PagesComing'
  <2>1. \A i \in DOMAIN calls' : Asked(calls[i])'
    BY <1>1, <1>3, <1>5 DEF PagesComing
  <2>2. Within(tab.page)' /\ tab'.count <= Len(Shown)'
    <3>1. Shown' = Shown /\ \A page : Within(page)' <=> Within(page)
      BY <1>1, ViewsSame
    <3>2. QED
      BY <1>1, <1>5, <3>1 DEF PagesComing
  <2>3. PICK n, page, count, slice, shifted, seen :
          /\ n = (tab.page - 1) * PageSize /\ page = tab.page
          /\ count = tab.count /\ slice = tab.shown
          /\ shifted = walk.shifted /\ seen = walk.seen
    OBVIOUS
  <2>4. (~walk.hasty => Covered((tab.page - 1) * PageSize, walk.seen))'
    <3>1. ~walk.hasty => Covered(n, seen)
      BY <1>5, <2>3 DEF PagesComing
    <3>2. ~walk.hasty => Covered(n, seen)'
      BY <1>1, <3>1, ViewsSame
    <3>3. QED
      BY <1>1, <2>3, <3>2
  <2>5. (calls = <<>> =>
           \E q \in walk.from .. Len(rows) :
             /\ CountedAt(q, tab.count)
             /\ \E m \in q .. Len(rows) : TakenAt(m, tab.page, tab.count, tab.shown))'
    <3>1. calls = <<>> =>
            \E q \in walk.from .. Len(rows) :
              /\ CountedAt(q, count)
              /\ \E m \in q .. Len(rows) : TakenAt(m, page, count, slice)
      BY <1>5, <2>3 DEF PagesComing
    <3>2. /\ \A q : CountedAt(q, count)' <=> CountedAt(q, count)
          /\ \A m : TakenAt(m, page, count, slice)' <=> TakenAt(m, page, count, slice)
      BY <1>1, ViewsSame
    <3>3. rows' = rows
      BY <1>1 DEF SameView
    <3>4. QED
      BY <1>1, <2>3, <3>1, <3>2, <3>3
  <2>6. ((calls = <<>> /\ ~walk.hasty) =>
           Completes(tab.page, tab.count, walk.shifted, walk.seen))'
    <3>1. (calls = <<>> /\ ~walk.hasty) => Completes(page, count, shifted, seen)
      BY <1>5, <2>3 DEF PagesComing
    <3>2. (calls = <<>> /\ ~walk.hasty) => Completes(page, count, shifted, seen)'
      BY <1>1, <3>1, ViewsSame
    <3>3. QED
      BY <1>1, <2>3, <3>2
  <2>7. QED
    BY <2>1, <2>2, <2>4, <2>5, <2>6 DEF PagesComing
<1>6. ListInv'
  BY <1>1, <1>4, <1>5 DEF ListInv
<1>7. QED
  BY <1>2, <1>6

-----------------------------------------------------------------------------
(* A posting and the balances.                                             *)

\* The entries of a ledger, with no amount beyond reference n.
Masked(list, n) ==
  [i \in DOMAIN list |-> [amount |-> IF list[i].ref <= n THEN list[i].amount ELSE 0]]

LEMMA MaskedTypes ==
  ASSUME NEW list \in Seq(Entries), NEW n \in Int
  PROVE  /\ Len(list) \in Nat /\ DOMAIN list = 1 .. Len(list)
         /\ Len(Masked(list, n)) = Len(list)
         /\ \A i \in 1 .. Len(list) :
              /\ Masked(list, n)[i].amount = IF list[i].ref <= n THEN list[i].amount ELSE 0
              /\ list[i].amount \in Int /\ list[i] \in Entries
              /\ Masked(list, n)[i].amount \in Int
<1>1. PICK m \in Nat : m = Len(list) /\ DOMAIN list = 1 .. m
  BY LenProperties
<1>2. \A i \in 1 .. m : list[i] \in Entries /\ list[i].amount \in Int
  <2>1. \A i \in 1 .. m : list[i] \in Entries
    BY <1>1, ElementOfSeq
  <2>2. QED
    BY <2>1 DEF Entries
<1> DEFINE f == Masked(list, n)
<1>3. /\ DOMAIN f = 1 .. m
      /\ \A i \in 1 .. m :
           f[i].amount = IF list[i].ref <= n THEN list[i].amount ELSE 0
  BY <1>1 DEF Masked
<1>4. f \in [1 .. m -> [amount : Int]]
  BY <1>1, <1>2 DEF Masked
<1> HIDE DEF f
<1>5. Len(f) = m
  BY <1>4
<1>6. QED
  BY <1>1, <1>2, <1>3, <1>5 DEF f

\* Masks that let the same entries through.
LEMMA MaskSame ==
  ASSUME NEW o, NEW list \in Seq(Entries), NEW n \in Int, NEW m \in Int,
         \A i \in DOMAIN list : list[i].ref <= n <=> list[i].ref <= m
  PROVE  EntrySum(o, Masked(list, m)) = EntrySum(o, Masked(list, n))
<1>1. PICK s, t : s = Masked(list, n) /\ t = Masked(list, m)
  OBVIOUS
<1>2. PICK k \in Nat : k = Len(list) /\ DOMAIN list = 1 .. k
  BY MaskedTypes
<1>3. k = Len(s) /\ k = Len(t)
  BY <1>1, <1>2, MaskedTypes
<1>4. \A i \in 1 .. k : s[i].amount = t[i].amount
  BY <1>1, <1>2, MaskedTypes
<1>5. EntrySum(o, s) = EntrySum(o, t)
  BY <1>2, <1>3, <1>4, SumSame
<1>6. QED
  BY <1>1, <1>5

\* The new entry e adds its amount, if the mask m lets it through.
Adds(o, list, new, e, n, m) ==
  \E a : /\ a = IF e.ref <= m THEN e.amount ELSE 0
         /\ EntrySum(o, Masked(new, m)) = EntrySum(o, Masked(list, n)) + a

LEMMA MaskAppend ==
  ASSUME NEW o, NEW list \in Seq(Entries), NEW e \in Entries, NEW new,
         new = Append(list, e), NEW n \in Int, NEW m \in Int,
         \A i \in DOMAIN list : list[i].ref <= n <=> list[i].ref <= m
  PROVE  Adds(o, list, new, e, n, m)
<1>1. PICK k \in Nat : k = Len(list) /\ DOMAIN list = 1 .. k
  BY MaskedTypes
<1>2. PICK q \in Nat : q = k + 1 /\ q \in 1 .. q /\ \A i \in 1 .. k : i \in 1 .. q
  OBVIOUS
<1>3. /\ new \in Seq(Entries) /\ Len(new) = q /\ new[q] = e
      /\ \A i \in 1 .. k : new[i] = list[i]
  BY <1>1, <1>2, AppendProperties
<1>4. PICK s, t : s = Masked(list, n) /\ t = Masked(new, m)
  OBVIOUS
<1>5. k = Len(s) /\ q = Len(t)
  BY <1>1, <1>3, <1>4, MaskedTypes
<1>6. /\ \A i \in 1 .. k : s[i].amount = IF list[i].ref <= n THEN list[i].amount ELSE 0
      /\ \A i \in 1 .. q : t[i].amount = IF new[i].ref <= m THEN new[i].amount ELSE 0
  BY <1>1, <1>3, <1>4, MaskedTypes
<1>7. \A i \in 1 .. k : s[i].amount = t[i].amount
  BY <1>1, <1>2, <1>3, <1>6
<1>8. t[q].amount = IF e.ref <= m THEN e.amount ELSE 0
  BY <1>2, <1>3, <1>6
<1>9. GoesOn(o, s, t, q)
  BY <1>2, <1>5, <1>7, SumNext
<1>10. QED
  BY <1>4, <1>8, <1>9 DEF Adds, GoesOn

LEMMA MaskedSumType ==
  ASSUME NEW o \in Int, NEW list \in Seq(Entries), NEW n \in Int
  PROVE  EntrySum(o, Masked(list, n)) \in Int
<1>1. PICK s : s = Masked(list, n)
  OBVIOUS
<1>2. PICK k \in Nat : k = Len(s) /\ \A i \in 1 .. k : s[i].amount \in Int
  BY <1>1, MaskedTypes
<1>3. EntrySum(o, s) \in Int
  BY <1>2, SumType
<1>4. QED
  BY <1>1, <1>3

LEMMA BalanceByMask ==
  \A n, w : BalanceAfter(n, w) = EntrySum(Opening[w], Masked(ledger[w], n))
BY DEF BalanceAfter, Masked

LEMMA OpeningType ==
  \A w \in Wallets : Opening[w] \in Int
BY AuditAssumption

\* What a posting with key x does to one wallet's ledger.
LEMMA LedgerStep ==
  ASSUME LedgerTypes, NEW x, NewRow(x), NEW w \in Wallets
  PROVE  \E list \in Seq(Entries) :
           /\ list = ledger[w] /\ balance[w] \in Int
           /\ \/ ledger'[w] = list /\ balance'[w] = balance[w]
              \/ \E e \in Entries :
                   /\ e.ref = x /\ ledger'[w] = Append(list, e)
                   /\ balance'[w] = balance[w] + e.amount
<1>1. PICK type, amount, legs : /\ Post(x, type, amount, legs)
                                /\ \A v \in DOMAIN legs : legs[v] \in Int
  BY DEF NewRow
<1>2. PICK list \in Seq(Entries) : list = ledger[w] /\ balance[w] \in Int
  BY DEF LedgerTypes
<1>3. CASE w \in DOMAIN legs
  <2>1. PICK leg \in Int : leg = legs[w]
    BY <1>1, <1>3
  <2>2. PICK e : e = [ref |-> x, amount |-> leg, after |-> balance[w] + leg]
    OBVIOUS
  <2>3. e \in Entries /\ e.ref = x /\ e.amount = leg
    BY <1>2, <2>1, <2>2 DEF Entries, NewRow
  <2>4. ledger'[w] = Append(list, e) /\ balance'[w] = balance[w] + leg
    BY <1>1, <1>2, <1>3, <2>1, <2>2 DEF Post
  <2>5. QED
    BY <1>2, <2>3, <2>4
<1>4. CASE w \notin DOMAIN legs
  BY <1>1, <1>2, <1>4 DEF Post
<1>5. QED
  BY <1>3, <1>4

LEMMA PostingKeepsLedger ==
  ASSUME LedgerTypes, AdminTypeOK, NEW x, NewRow(x)
  PROVE  LedgerTypes'
<1>1. PICK n \in Nat : n = Len(rows) /\ x = n + 1 /\ Len(rows') = n + 1
  BY RowsGrow DEF NewRow
<1>2. ASSUME NEW w \in Wallets
      PROVE  /\ balance'[w] \in Int /\ ledger'[w] \in Seq(Entries)
             /\ \A i \in DOMAIN ledger'[w] : ledger'[w][i].ref <= n + 1
  <2>1. PICK list \in Seq(Entries) :
           /\ list = ledger[w] /\ balance[w] \in Int
           /\ \/ ledger'[w] = list /\ balance'[w] = balance[w]
              \/ \E e \in Entries :
                   /\ e.ref = x /\ ledger'[w] = Append(list, e)
                   /\ balance'[w] = balance[w] + e.amount
    BY LedgerStep
  <2>2. PICK k \in Nat : k = Len(list) /\ DOMAIN list = 1 .. k
    BY LenProperties
  <2>3. \A i \in 1 .. k : list[i].ref \in Int /\ list[i].ref <= n + 1
    <3>1. \A i \in 1 .. k : list[i].ref <= n
      BY <1>1, <2>1, <2>2 DEF LedgerTypes
    <3>2. \A i \in 1 .. k : list[i].ref \in Int
      <4>1. PICK size \in Nat : Keys = 1 .. size
        BY AdminAssumption, FS_CardinalityType
      <4>2. \A i \in 1 .. k : list[i] \in Entries
        BY <2>2, ElementOfSeq
      <4>3. QED
        BY <4>1, <4>2 DEF Entries
    <3>3. QED
      BY <1>1, <3>1, <3>2
  <2>4. CASE ledger'[w] = list /\ balance'[w] = balance[w]
    BY <2>1, <2>2, <2>3, <2>4
  <2>5. ASSUME NEW e \in Entries, e.ref = x, ledger'[w] = Append(list, e),
               balance'[w] = balance[w] + e.amount
        PROVE  /\ balance'[w] \in Int /\ ledger'[w] \in Seq(Entries)
               /\ \A i \in DOMAIN ledger'[w] : ledger'[w][i].ref <= n + 1
    <3>1. PICK new : new = Append(list, e)
      OBVIOUS
    <3>2. /\ new \in Seq(Entries) /\ DOMAIN new = 1 .. k + 1 /\ new[k + 1] = e
          /\ \A i \in 1 .. k : new[i] = list[i]
      BY <2>2, <3>1, AppendProperties
    <3>3. \A i \in 1 .. k + 1 : i \in 1 .. k \/ i = k + 1
      BY <2>2
    <3>4. \A i \in 1 .. k + 1 : new[i].ref <= n + 1
      BY <1>1, <2>3, <2>5, <3>2, <3>3
    <3>5. e.amount \in Int
      BY DEF Entries
    <3>6. QED
      BY <2>1, <2>5, <3>1, <3>2, <3>4, <3>5
  <2>6. QED
    BY <2>1, <2>4, <2>5
<1>3. balance' \in [Wallets -> Int] /\ ledger' \in [Wallets -> Seq(Entries)]
  <2>1. PICK type, amount, legs : Post(x, type, amount, legs)
    BY DEF NewRow
  <2>2. PICK b, l : balance' = [w \in Wallets |-> b[w]] /\ ledger' = [w \in Wallets |-> l[w]]
    <3> DEFINE b == [w \in Wallets |-> IF w \in DOMAIN legs THEN balance[w] + legs[w]
                                                            ELSE balance[w]]
               l == [w \in Wallets |->
                       IF w \in DOMAIN legs
                       THEN Append(ledger[w], [ref |-> x, amount |-> legs[w],
                                               after |-> balance[w] + legs[w]])
                       ELSE ledger[w]]
    <3>1. balance' = b /\ ledger' = l
      BY <2>1 DEF Post
    <3>2. b = [w \in Wallets |-> b[w]] /\ l = [w \in Wallets |-> l[w]]
      OBVIOUS
    <3> HIDE DEF b, l
    <3>3. QED
      BY <3>1, <3>2
  <2>3. \A w \in Wallets : balance'[w] = b[w] /\ ledger'[w] = l[w]
    BY <2>2
  <2>4. QED
    BY <1>2, <2>2, <2>3
<1>4. QED
  BY <1>1, <1>2, <1>3 DEF LedgerTypes

\* The past balances stay; the new one is the balance after the posting.
LEMMA PostingKeepsBalances ==
  ASSUME LedgerTypes, AdminTypeOK, NEW x, NewRow(x), NEW w \in Wallets
  PROVE  /\ \A n \in 0 .. Len(rows) : BalanceAfter(n, w)' = BalanceAfter(n, w)
         /\ balance[w] = BalanceAfter(Len(rows), w) =>
              balance'[w] = BalanceAfter(Len(rows), w)'
<1>1. PICK m \in Nat : m = Len(rows) /\ x = m + 1 /\ Len(rows') = m + 1
  BY RowsGrow DEF NewRow
<1>2. PICK list \in Seq(Entries) :
           /\ list = ledger[w] /\ balance[w] \in Int
           /\ \/ ledger'[w] = list /\ balance'[w] = balance[w]
              \/ \E e \in Entries :
                   /\ e.ref = x /\ ledger'[w] = Append(list, e)
                   /\ balance'[w] = balance[w] + e.amount
  BY LedgerStep
<1>3. PICK o \in Int : o = Opening[w]
  BY OpeningType
<1>4. \A n : /\ BalanceAfter(n, w) = EntrySum(o, Masked(list, n))
             /\ BalanceAfter(n, w)' = EntrySum(o, Masked(ledger'[w], n))
  BY <1>2, <1>3 DEF BalanceAfter, Masked
<1>5. \A i \in DOMAIN list : /\ list[i].ref <= m <=> list[i].ref <= m + 1
                             /\ list[i].ref \in Int
  <2>1. \A i \in DOMAIN list : list[i].ref <= m
    BY <1>1, <1>2 DEF LedgerTypes
  <2>2. PICK size \in Nat : Keys = 1 .. size
    BY AdminAssumption, FS_CardinalityType
  <2>3. \A i \in DOMAIN list : list[i] \in Entries
    BY ElementOfSeq, LenProperties
  <2>4. \A i \in DOMAIN list : list[i].ref \in Int
    BY <2>2, <2>3 DEF Entries
  <2>5. QED
    BY <1>1, <2>1, <2>4
<1>6. CASE ledger'[w] = list /\ balance'[w] = balance[w]
  <2>1. EntrySum(o, Masked(list, m + 1)) = EntrySum(o, Masked(list, m))
    <3>1. PICK q \in Int : q = m + 1
      OBVIOUS
    <3>2. QED
      BY <1>5, <3>1, MaskSame
  <2>2. QED
    BY <1>1, <1>4, <1>6, <2>1
<1>7. ASSUME NEW e \in Entries, e.ref = x, ledger'[w] = Append(list, e),
             balance'[w] = balance[w] + e.amount
      PROVE  /\ \A n \in 0 .. m : BalanceAfter(n, w)' = BalanceAfter(n, w)
             /\ balance[w] = BalanceAfter(m, w) =>
                  balance'[w] = BalanceAfter(m + 1, w)'
  <2>0. PICK new : new = Append(list, e)
    OBVIOUS
  <2>1. ASSUME NEW n \in 0 .. m
        PROVE  BalanceAfter(n, w)' = BalanceAfter(n, w)
    <3>1. n \in Int /\ ~(e.ref <= n)
      BY <1>1, <1>7
    <3>2. PICK a : /\ a = IF e.ref <= n THEN e.amount ELSE 0
                   /\ EntrySum(o, Masked(new, n)) = EntrySum(o, Masked(list, n)) + a
      <4>1. Adds(o, list, new, e, n, n)
        BY <2>0, <3>1, MaskAppend
      <4>2. QED
        BY <4>1 DEF Adds
    <3>3. EntrySum(o, Masked(list, n)) \in Int
      BY <3>1, MaskedSumType
    <3>4. EntrySum(o, Masked(new, n)) = EntrySum(o, Masked(list, n))
      BY <3>1, <3>2, <3>3
    <3>5. QED
      BY <1>4, <1>7, <2>0, <3>4
  <2>2. PICK q \in Int : q = m + 1
    OBVIOUS
  <2>3. PICK a : /\ a = IF e.ref <= q THEN e.amount ELSE 0
                 /\ EntrySum(o, Masked(new, q)) = EntrySum(o, Masked(list, m)) + a
    <3>1. Adds(o, list, new, e, m, q)
      <4>1. m \in Int /\ \A i \in DOMAIN list : list[i].ref <= m <=> list[i].ref <= q
        BY <1>5, <2>2
      <4>2. QED
        BY <2>0, <4>1, MaskAppend
    <3>2. QED
      BY <3>1 DEF Adds
  <2>4. e.ref <= q
    BY <1>1, <1>7, <2>2
  <2>5. balance[w] = BalanceAfter(m, w) => balance'[w] = BalanceAfter(q, w)'
    BY <1>4, <1>7, <2>0, <2>3, <2>4
  <2>6. QED
    BY <2>1, <2>2, <2>5
<1>8. QED
  <2>1. (Len(rows))' = m + 1
    BY <1>1
  <2>2. QED
    BY <1>1, <1>2, <1>6, <1>7, <2>1

-----------------------------------------------------------------------------
(* The statistics.                                                         *)

\* Totals of the past stay when a posting commits.
LEMMA PostingKeepsTotals ==
  ASSUME LedgerTypes, AdminTypeOK, NEW x, NewRow(x), NEW n \in 0 .. Len(rows)
  PROVE  \A currency : TotalAfter(n, currency)' = TotalAfter(n, currency)
<1>1. \A w \in Wallets : BalanceAfter(n, w)' = BalanceAfter(n, w)
  BY PostingKeepsBalances
<1>2. [w \in Wallets |-> BalanceAfter(n, w)]' = [w \in Wallets |-> BalanceAfter(n, w)]
  BY <1>1
<1>3. QED
  BY <1>2 DEF TotalAfter

\* A query sums the balances of the last posting.
LEMMA TotalOfNow ==
  ASSUME LedgerTypes, Balanced, reader = "statistics"
  PROVE  \A currency : Total(balance, currency) = TotalAfter(Len(rows), currency)
<1>1. \A w \in Wallets : balance[w] = BalanceAfter(Len(rows), w)
  BY DEF Balanced
<1>2. balance = [w \in Wallets |-> BalanceAfter(Len(rows), w)]
  BY <1>1 DEF LedgerTypes
<1>3. QED
  BY <1>2 DEF TotalAfter

LEMMA OthersKeepTotals ==
  ASSUME TotalsRead, stats' = stats, NEW n \in Nat, NEW m \in Nat, n <= m,
         n = Len(rows), m = Len(rows'),
         \A q \in 0 .. n : \A currency :
           TotalAfter(q, currency)' = TotalAfter(q, currency)
  PROVE  TotalsRead'
<1>1. \A q \in 0 .. n : q \in 0 .. m /\ \A p \in q .. n : p \in q .. m /\ p \in 0 .. n
  OBVIOUS
<1>2. Len(rows)' = m
  OBVIOUS
<1>3. (stats.step \in {"usd", "count"} =>
         \E q \in 0 .. Len(rows) :
           /\ stats.ngn = TotalAfter(q, "NGN")
           /\ stats.step = "count" =>
                \E p \in q .. Len(rows) : stats.usd = TotalAfter(p, "USD"))'
  <2>1. SUFFICES ASSUME stats.step \in {"usd", "count"}
                 PROVE  \E q \in 0 .. m :
                          /\ stats.ngn = TotalAfter(q, "NGN")'
                          /\ stats.step = "count" =>
                               \E p \in q .. m : stats.usd = TotalAfter(p, "USD")'
    BY <1>2
  <2>2. PICK q \in 0 .. n :
          /\ stats.ngn = TotalAfter(q, "NGN")
          /\ stats.step = "count" =>
               \E p \in q .. n : stats.usd = TotalAfter(p, "USD")
    BY <2>1 DEF TotalsRead
  <2>3. stats.ngn = TotalAfter(q, "NGN")'
    BY <2>2
  <2>4. stats.step = "count" => \E p \in q .. m : stats.usd = TotalAfter(p, "USD")'
    BY <1>1, <2>2
  <2>5. QED
    BY <1>1, <2>3, <2>4
<1>4. (stats.step = "answered" => stats.txns \in 0 .. Len(rows))'
  BY <1>1, <1>2 DEF TotalsRead
<1>5. StatisticsInOrder'
  <2>1. SUFFICES ASSUME stats.step = "answered"
                 PROVE  \E q \in 0 .. stats.txns : \E p \in q .. stats.txns :
                          /\ stats.ngn = TotalAfter(q, "NGN")'
                          /\ stats.usd = TotalAfter(p, "USD")'
    BY DEF StatisticsInOrder
  <2>2. PICK k \in 0 .. n : k = stats.txns
    BY <2>1 DEF TotalsRead
  <2>3. PICK q \in 0 .. k : \E p \in q .. k :
          stats.ngn = TotalAfter(q, "NGN") /\ stats.usd = TotalAfter(p, "USD")
    BY <2>1, <2>2 DEF TotalsRead, StatisticsInOrder
  <2>4. PICK p \in q .. k :
          stats.ngn = TotalAfter(q, "NGN") /\ stats.usd = TotalAfter(p, "USD")
    BY <2>3
  <2>5. q \in 0 .. n /\ p \in 0 .. n
    OBVIOUS
  <2>6. stats.ngn = TotalAfter(q, "NGN")' /\ stats.usd = TotalAfter(p, "USD")'
    BY <2>4, <2>5
  <2>7. QED
    BY <2>2, <2>6
<1>6. QED
  BY <1>3, <1>4, <1>5 DEF TotalsRead

LEMMA QueryKeeps ==
  ASSUME TotalsRead, LedgerTypes, Balanced, AdminTypeOK, reader = "statistics",
         StatisticsStep, UNCHANGED allVars
  PROVE  TotalsRead'
<1>1. PICK n \in Nat : n = Len(rows)
  BY LenProperties DEF AdminTypeOK
<1>2. rows' = rows /\ ledger' = ledger /\ Len(rows)' = n
  BY <1>1 DEF StatisticsStep, AskStats, SumNgn, SumUsd, CountTxns, Query, allVars
<1>3. \A q, currency : TotalAfter(q, currency)' = TotalAfter(q, currency)
  BY <1>2 DEF TotalAfter, BalanceAfter
<1>4. \A currency : Total(balance, currency) = TotalAfter(n, currency)
  BY <1>1, TotalOfNow
<1>5. CASE AskStats
  <2>1. DOMAIN stats' = {"step", "ngn", "usd", "txns"} /\ stats'.step = "ngn"
    BY <1>5 DEF AskStats, Query, NextQuery
  <2>2. QED
    BY <2>1 DEF TotalsRead, StatisticsInOrder
<1>6. CASE SumNgn
  <2>1. PICK total : total = Total(balance, "NGN")
    OBVIOUS
  <2>2. /\ DOMAIN stats' = {"step", "ngn", "usd", "txns"}
        /\ stats'.step = "usd" /\ stats'.ngn = total
    BY <1>6, <2>1 DEF SumNgn, Query, NextQuery, TotalsRead
  <2>3. total = TotalAfter(n, "NGN")'
    BY <1>3, <1>4, <2>1
  <2>4. n \in 0 .. n
    OBVIOUS
  <2>5. QED
    BY <1>2, <2>2, <2>3, <2>4 DEF TotalsRead, StatisticsInOrder
<1>7. CASE SumUsd
  <2>1. PICK total : total = Total(balance, "USD")
    OBVIOUS
  <2>2. /\ DOMAIN stats' = {"step", "ngn", "usd", "txns"}
        /\ stats.step = "usd" /\ stats'.step = "count"
        /\ stats'.ngn = stats.ngn /\ stats'.usd = total
    BY <1>7, <2>1 DEF SumUsd, Query, NextQuery, TotalsRead
  <2>3. PICK q \in 0 .. n : stats.ngn = TotalAfter(q, "NGN")
    BY <1>1, <2>2 DEF TotalsRead
  <2>4. stats'.ngn = TotalAfter(q, "NGN")' /\ stats'.usd = TotalAfter(n, "USD")'
    BY <1>3, <1>4, <2>1, <2>2, <2>3
  <2>5. n \in q .. n
    OBVIOUS
  <2>6. QED
    BY <1>2, <2>2, <2>4, <2>5 DEF TotalsRead, StatisticsInOrder
<1>8. CASE CountTxns
  <2>1. /\ DOMAIN stats' = {"step", "ngn", "usd", "txns"}
        /\ stats.step = "count" /\ stats'.step = "answered"
        /\ stats'.ngn = stats.ngn /\ stats'.usd = stats.usd /\ stats'.txns = n
    BY <1>1, <1>8 DEF CountTxns, Query, NextQuery, TotalsRead
  <2>2. PICK q \in 0 .. n : /\ stats.ngn = TotalAfter(q, "NGN")
                            /\ \E m \in q .. n : stats.usd = TotalAfter(m, "USD")
    BY <1>1, <2>1 DEF TotalsRead
  <2>3. PICK m \in q .. n : stats.usd = TotalAfter(m, "USD")
    BY <2>2
  <2>4. stats'.ngn = TotalAfter(q, "NGN")' /\ stats'.usd = TotalAfter(m, "USD")'
    BY <1>3, <2>1, <2>2, <2>3
  <2>5. StatisticsInOrder'
    BY <2>1, <2>4 DEF StatisticsInOrder
  <2>6. QED
    BY <1>2, <2>1, <2>5 DEF TotalsRead
<1>9. QED
  BY <1>5, <1>6, <1>7, <1>8 DEF StatisticsStep

-----------------------------------------------------------------------------
(* The invariant of the back office.                                       *)

LEMMA InitList == OfficeInit => ListTypes /\ ListInv
<1> SUFFICES ASSUME OfficeInit PROVE ListTypes /\ ListInv
  OBVIOUS
<1>1. PICK none : none = <<>>
  OBVIOUS
<1>2. PICK page \in Nat \ {0} : page = 1 /\ page \in 1 .. 0 + 1
  OBVIOUS
<1>3. PICK search \in Searches : search = ""
  BY AdminAssumption
<1>4. /\ rows = none /\ calls = <<Sent(page, search)>>
      /\ tab = [page |-> page, search |-> search, shown |-> none, count |-> 0]
  BY <1>1, <1>2, <1>3 DEF OfficeInit, AdminInit
<1>5. /\ stack \in Stacks /\ garbled = FALSE
      /\ walk = [from |-> Len(rows), seen |-> {}, shifted |-> FALSE, hasty |-> FALSE]
      /\ txn = [k \in Keys |-> NoTxn]
  BY DEF OfficeInit, AuditInit, AdminInit, Init, NewWalk
<1>6. none \in Seq(Keys) /\ Len(none) = 0 /\ DOMAIN none = {}
  BY <1>1, Nothing
<1>7. PICK c \in ListCalls :
        /\ c = Sent(page, search) /\ c.page = page /\ c.search = search
        /\ c.step = "sent" /\ c.count = 0 /\ c.rows = none
  <2>1. \E c \in ListCalls :
           /\ c = Sent(page, search) /\ c.page = page /\ c.search = search
           /\ c.step = "sent" /\ c.count = 0 /\ c.rows = <<>>
    BY SentTypes
  <2>2. QED
    BY <1>1, <2>1
<1>8. /\ calls \in Seq(ListCalls) /\ Len(calls) = 1 /\ DOMAIN calls = {1} /\ calls[1] = c
  <2>1. calls = <<c>>
    BY <1>4, <1>7
  <2>2. QED
    BY <2>1, One
<1>9. /\ Len(rows) = 0 /\ tab.page = page /\ tab.search = search
      /\ tab.shown = none /\ tab.count = 0
  BY <1>4, <1>6
<1>10. AdminTypeOK
  <2>1. IsInjective(rows) /\ ToSet(rows) = {}
    BY <1>4, <1>6 DEF IsInjective, ToSet
  <2>2. {k \in Keys : txn[k] # NoTxn} = {} /\ 1 .. Len(rows) = {}
    BY <1>5, <1>9
  <2>3. /\ tab.page \in Nat \ {0} /\ BeginsWithin(tab.page, Len(rows))
        /\ tab.search \in Searches
    <3>1. search \in Searches
      OBVIOUS
    <3>2. QED
      BY <1>2, <1>9, <3>1 DEF BeginsWithin
  <2>4. Len(tab.shown) <= PageSize /\ tab.count <= Len(rows)
    BY <1>6, <1>9, SizesArePositive
  <2>5. Len(calls) <= MaxCalls
    BY <1>8, SizesArePositive
  <2>6. \A i \in DOMAIN calls : Len(calls[i].rows) <= PageSize
    BY <1>6, <1>7, <1>8, SizesArePositive
  <2>7. QED
    BY <1>4, <1>6, <2>1, <2>2, <2>3, <2>4, <2>5, <2>6 DEF AdminTypeOK
<1>11. ListTypes
  <2>1. tab \in [page : Nat \ {0}, search : Searches, shown : Seq(Keys), count : Nat]
    BY <1>4, <1>6
  <2>2. /\ walk \in [from : Nat, seen : SUBSET Keys, shifted : BOOLEAN, hasty : BOOLEAN]
        /\ walk.from <= Len(rows)
    BY <1>5, <1>9
  <2>3. \A i \in DOMAIN calls : calls[i].count <= Len(rows)
    BY <1>7, <1>8, <1>9
  <2>4. DOMAIN txn = Keys /\ garbled \in BOOLEAN
    BY <1>5
  <2>5. QED
    BY <1>5, <1>8, <1>10, <2>1, <2>2, <2>3, <2>4 DEF ListTypes
<1>12. Asked(c)
  <2>1. c.search = tab.search /\ Within(c.page)
    BY <1>2, <1>7, <1>9 DEF Within
  <2>2. PICK seen : seen = walk.seen
    OBVIOUS
  <2>3. Covered((1 - 1) * PageSize, seen)
    BY <1>11, NothingBefore
  <2>4. Covered((c.page - 1) * PageSize, walk.seen)
    BY <1>2, <1>7, <2>2, <2>3
  <2>5. QED
    BY <1>7, <2>1, <2>4 DEF Asked
<1>13. FirstPageComing
  <2>1. tab.page = 1 /\ c.page = 1
    BY <1>2, <1>7, <1>9
  <2>2. QED
    BY <1>8, <1>12, <2>1 DEF FirstPageComing
<1>14. ListInv
  BY <1>7, <1>8, <1>9, <1>13 DEF ListInv
<1>15. QED
  BY <1>11, <1>14

LEMMA InitBooks == OfficeInit => LedgerTypes /\ Balanced /\ TotalsRead
<1> SUFFICES ASSUME OfficeInit PROVE LedgerTypes /\ Balanced /\ TotalsRead
  OBVIOUS
<1>1. /\ balance = Opening /\ ledger = [w \in Wallets |-> <<>>]
      /\ stats = [step |-> "idle", ngn |-> 0, usd |-> 0, txns |-> 0]
  BY DEF OfficeInit, AuditInit, AdminInit, Init
<1>2. LedgerTypes
  <2>1. balance \in [Wallets -> Int]
    BY <1>1, AuditAssumption
  <2>2. PICK none \in Seq(Entries) : none = <<>> /\ DOMAIN none = {}
    BY Nothing
  <2>3. /\ ledger \in [Wallets -> Seq(Entries)]
        /\ \A w \in Wallets : DOMAIN ledger[w] = {}
    BY <1>1, <2>2
  <2>4. QED
    BY <2>1, <2>3 DEF LedgerTypes
<1>3. ASSUME NEW w \in Wallets
      PROVE  balance[w] = BalanceAfter(Len(rows), w)
  <2>1. PICK n, list : n = Len(rows) /\ list = ledger[w]
    OBVIOUS
  <2>2. list = <<>> /\ DOMAIN list = {}
    BY <1>1, <2>1
  <2>3. Masked(list, n) = <<>>
    BY <2>2 DEF Masked
  <2>4. BalanceAfter(n, w) = EntrySum(Opening[w], Masked(list, n))
    BY <2>1 DEF BalanceAfter, Masked
  <2>5. EntrySum(Opening[w], <<>>) = Opening[w]
    BY SumOfNothing
  <2>6. QED
    BY <1>1, <2>1, <2>3, <2>4, <2>5
<1>4. TotalsRead
  <2>1. DOMAIN stats = {"step", "ngn", "usd", "txns"} /\ stats.step = "idle"
    BY <1>1
  <2>2. QED
    BY <2>1 DEF TotalsRead, StatisticsInOrder
<1>5. QED
  BY <1>2, <1>3, <1>4 DEF Balanced

\* The books of the readers whose steps leave balances and ledgers alone.
LEMMA SameBooks ==
  ASSUME LedgerTypes, Balanced, ListTypes, UNCHANGED <<rows, balance, ledger, reader>>
  PROVE  /\ LedgerTypes' /\ Balanced'
         /\ (TotalsRead /\ stats' = stats) => TotalsRead'
<1>1. PICK n \in Nat : n = Len(rows) /\ n = Len(rows')
  BY ShownTypes
<1>2. LedgerTypes'
  BY DEF LedgerTypes
<1>3. \A q, w : BalanceAfter(q, w)' = BalanceAfter(q, w)
  BY DEF BalanceAfter
<1>4. Balanced'
  BY <1>1, <1>3 DEF Balanced
<1>5. \A q, currency : TotalAfter(q, currency)' = TotalAfter(q, currency)
  BY <1>3 DEF TotalAfter
<1>6. ASSUME TotalsRead, stats' = stats
      PROVE  TotalsRead'
  <2>1. n <= n
    OBVIOUS
  <2>2. QED
    BY <1>1, <1>5, <1>6, <2>1, OthersKeepTotals
<1>7. QED
  BY <1>2, <1>4, <1>6

LEMMA PostingKeeps ==
  ASSUME OfficeInv, PostAndList
  PROVE  OfficeInv'
<1> USE DEF OfficeInv
<1>1. Next /\ ListRow /\ reader' = reader /\ stats' = stats
  BY DEF PostAndList, Posting, ListRow
<1>2. AdminTypeOK /\ DOMAIN txn = Keys
  BY DEF ListTypes
<1>3. PICK x : NewRow(x)
  BY <1>1, <1>2, PostingAddsRow
<1>4. ListTypes' /\ ListInv'
  BY <1>1, <1>3, PostingKeepsTypes, PostingKeepsList
<1>5. LedgerTypes'
  BY <1>2, <1>3, PostingKeepsLedger
<1>6. Balanced'
  <2>1. SUFFICES ASSUME reader' # "audit", NEW w \in Wallets
                 PROVE  (balance[w] = BalanceAfter(Len(rows), w))'
    BY DEF Balanced
  <2>2. balance[w] = BalanceAfter(Len(rows), w)
    BY <1>1, <2>1 DEF Balanced
  <2>3. QED
    BY <1>2, <1>3, <2>2, PostingKeepsBalances
<1>7. TotalsRead'
  <2>1. PICK n \in Nat, m \in Nat : n = Len(rows) /\ m = Len(rows') /\ n <= m
    BY <1>2, <1>3, RowsGrow DEF NewRow
  <2>2. \A q \in 0 .. n : \A currency :
          TotalAfter(q, currency)' = TotalAfter(q, currency)
    BY <1>2, <1>3, <2>1, PostingKeepsTotals
  <2>3. QED
    BY <1>1, <2>1, <2>2, OthersKeepTotals
<1>8. QED
  BY <1>4, <1>5, <1>6, <1>7

LEMMA AuditingKeeps ==
  ASSUME OfficeInv, Auditing
  PROVE  OfficeInv'
<1> USE DEF OfficeInv
<1>1. /\ UNCHANGED <<stack, rows, listVars, stats, reader>> /\ reader = "audit"
      /\ UNCHANGED <<txn, ledger>>
  BY DEF Auditing, adminVars, AuditStep, StartAudit, AuditWallet, Drift
<1>2. ListTypes' /\ ListInv'
  BY <1>1, OthersKeepList
<1>3. LedgerTypes'
  <2>1. balance' \in [Wallets -> Int]
    <3>1. CASE AuditStep
      BY <3>1 DEF AuditStep, StartAudit, AuditWallet, LedgerTypes
    <3>2. ASSUME NEW w \in Wallets, NEW b \in 0 .. MaxBalance, Drift(w, b)
          PROVE  balance' \in [Wallets -> Int]
      BY <3>2, AuditAssumption DEF Drift, LedgerTypes
    <3>3. QED
      BY <3>1, <3>2 DEF Auditing
  <2>2. QED
    BY <1>1, <2>1 DEF LedgerTypes
<1>4. Balanced'
  BY <1>1 DEF Balanced
<1>5. TotalsRead'
  <2>1. PICK n \in Nat : n = Len(rows) /\ n = Len(rows') /\ n <= n
    BY <1>1, ShownTypes
  <2>2. \A q, currency : TotalAfter(q, currency)' = TotalAfter(q, currency)
    BY <1>1 DEF TotalAfter, BalanceAfter
  <2>3. QED
    BY <1>1, <2>1, <2>2, OthersKeepTotals
<1>6. QED
  BY <1>2, <1>3, <1>4, <1>5

LEMMA ListingKeeps ==
  ASSUME OfficeInv, Listing
  PROVE  OfficeInv'
<1> USE DEF OfficeInv
<1>1. ListStep /\ UNCHANGED <<balance, txn, ledger, reader>>
  BY DEF Listing, allVars
<1>2. ListTypes' /\ ListInv'
  BY <1>1, ListStepKeeps
<1>3. rows' = rows /\ stats' = stats
  BY <1>1 DEF ListStep, TypeSearch, TurnForward, TurnBack, Reopen, Call,
              CountRows, FetchPage, Serve, Reply, Lose
<1>4. LedgerTypes' /\ Balanced' /\ TotalsRead'
  BY <1>1, <1>3, SameBooks
<1>5. QED
  BY <1>2, <1>4

LEMMA SummingKeeps ==
  ASSUME OfficeInv, Summing
  PROVE  OfficeInv'
<1> USE DEF OfficeInv
<1>1. /\ StatisticsStep /\ reader = "statistics" /\ UNCHANGED allVars
      /\ UNCHANGED <<balance, txn, ledger, reader>>
  BY DEF Summing, allVars
<1>2. UNCHANGED <<stack, rows, listVars>>
  BY <1>1 DEF StatisticsStep, AskStats, SumNgn, SumUsd, CountTxns, Query
<1>3. ListTypes' /\ ListInv'
  BY <1>1, <1>2, OthersKeepList
<1>4. LedgerTypes' /\ Balanced'
  BY <1>1, <1>2, SameBooks
<1>5. TotalsRead'
  BY <1>1, QueryKeeps DEF ListTypes
<1>6. QED
  BY <1>3, <1>4, <1>5

LEMMA OfficeStep == OfficeInv /\ [OfficeNext]_officeVars => OfficeInv'
<1> SUFFICES ASSUME OfficeInv, [OfficeNext]_officeVars PROVE OfficeInv'
  OBVIOUS
<1>1. CASE UNCHANGED officeVars
  <2>1. /\ UNCHANGED <<stack, rows, listVars, txn>>
        /\ UNCHANGED <<rows, balance, ledger, reader>> /\ stats' = stats
    BY <1>1 DEF officeVars, allVars, adminVars
  <2>2. ListTypes' /\ ListInv'
    BY <2>1, OthersKeepList DEF OfficeInv
  <2>3. LedgerTypes' /\ Balanced' /\ TotalsRead'
    BY <2>1, SameBooks DEF OfficeInv
  <2>4. QED
    BY <2>2, <2>3 DEF OfficeInv
<1>2. QED
  BY <1>1, PostingKeeps, AuditingKeeps, ListingKeeps, SummingKeeps DEF OfficeNext

LEMMA OfficeInvHolds == OfficeSpec => []OfficeInv
<1>1. OfficeInit => OfficeInv
  BY InitList, InitBooks DEF OfficeInv
<1>2. QED
  BY <1>1, OfficeStep, PTL DEF OfficeSpec

\* When nothing is in flight, the first page has arrived.
LEMMA NothingComing ==
  ASSUME ListInv, calls = <<>>, ~garbled
  PROVE  PagesComing
<1>1. ~FirstPageComing
  <2>1. DOMAIN calls = {}
    OBVIOUS
  <2>2. QED
    BY <2>1 DEF FirstPageComing
<1>2. QED
  BY <1>1 DEF ListInv

LEMMA CurrentFromInv == ListInv => SettledTabIsCurrent
<1> SUFFICES ASSUME ListInv, calls = <<>>, ~garbled
             PROVE  \E n \in walk.from .. Len(rows) :
                      /\ tab.count = Len(Among(ListAfter(n), tab.search))
                      /\ \E m \in n .. Len(rows) :
                           tab.shown = PageOf(Among(ListAfter(m), tab.search),
                                              tab.page, tab.count)
  BY DEF SettledTabIsCurrent
<1>1. PagesComing
  BY NothingComing
<1>2. QED
  BY <1>1 DEF PagesComing, CountedAt, TakenAt

LEMMA WalkFromInv == ListTypes /\ ListInv => WalkShowsEveryRow
<1> SUFFICES ASSUME ListTypes, ListInv, calls = <<>>, ~garbled, ~walk.hasty,
                    tab.page * PageSize >= tab.count, ~walk.shifted,
                    NEW k \in ToSet(Among(ListAfter(walk.from), tab.search))
             PROVE  k \in walk.seen
  BY DEF WalkShowsEveryRow
<1>1. PICK page \in Nat \ {0} : page = tab.page
  BY DEF ListTypes
<1>2. PICK total \in Nat : total = page * PageSize
  BY PageOffsets
<1>3. PICK n \in Nat : n = Len(Shown)
  BY ShownTypes
<1>4. PICK count, shifted, seen :
        count \in Nat /\ count = tab.count /\ shifted = walk.shifted /\ seen = walk.seen
  BY DEF ListTypes
<1>5. Completes(page, count, shifted, seen)
  BY <1>1, <1>4, NothingComing DEF PagesComing
<1>6. count <= page * PageSize
  <2>1. total >= count
    BY <1>1, <1>2, <1>4
  <2>2. QED
    BY <1>2, <2>1
<1>7. Covered(n, seen)
  BY <1>3, <1>4, <1>5, <1>6 DEF Completes
<1>8. PICK from, search : from = walk.from /\ search = tab.search
  OBVIOUS
<1>9. rows \in Seq(Keys)
  BY DEF ListTypes, AdminTypeOK
<1>10. PICK old : old = ListAfter(from)
  OBVIOUS
<1>11. old \in Seq(Keys) /\ ToSet(old) = ToSet(rows) \cap 1 .. from
  BY <1>9, <1>10, AfterTypes
<1>12. /\ ToSet(Among(old, search)) = ToSet(old) \cap Matching(search)
       /\ ToSet(Among(rows, search)) = ToSet(rows) \cap Matching(search)
  BY <1>9, <1>11, ViewTypes
<1>13. k \in 1 .. from /\ k \in ToSet(Among(rows, search))
  BY <1>8, <1>10, <1>11, <1>12
<1>14. PICK j \in DOMAIN Shown : Shown[j] = k
  BY <1>8, <1>13 DEF Shown, ToSet
<1>15. j <= n /\ k <= from
  BY <1>3, <1>13, <1>14, ShownTypes
<1>16. QED
  BY <1>4, <1>7, <1>8, <1>14, <1>15 DEF Covered

\* For any number of postings, calls and rows of a page: what is listed is what
\* was committed, once each and up to the newest; the tab never shows a count
\* that goes beyond it, and a page it asks for begins within it.
THEOREM AdminTypes == OfficeSpec => []AdminTypeOK
<1>1. OfficeInv => AdminTypeOK
  BY DEF OfficeInv, ListTypes
<1>2. QED
  BY <1>1, OfficeInvHolds, PTL

\* A tab at rest shows the count of its search at one moment and its page at a
\* later one, both since the search was typed, whatever was posted meanwhile.
THEOREM SettledTab == OfficeSpec => []SettledTabIsCurrent
<1>1. OfficeInv => SettledTabIsCurrent
  BY CurrentFromInv DEF OfficeInv
<1>2. QED
  BY <1>1, OfficeInvHolds, PTL

\* Turning the pages of a search one by one to the last misses no row that was
\* there when it was typed: rows are only added, and an offset only repeats.
THEOREM WalkMissesNothing == OfficeSpec => []WalkShowsEveryRow
<1>1. OfficeInv => WalkShowsEveryRow
  BY WalkFromInv DEF OfficeInv
<1>2. QED
  BY <1>1, OfficeInvHolds, PTL

\* The numbers of one statistics answer are those of moments in the order of its
\* queries, and no total contains half a transfer.
THEOREM StatisticsAreOrdered == OfficeSpec => []StatisticsInOrder
<1>1. OfficeInv => StatisticsInOrder
  BY DEF OfficeInv, TotalsRead
<1>2. QED
  BY <1>1, OfficeInvHolds, PTL

=============================================================================
