--------------------------- MODULE WalletStoreProofs ---------------------------
(***************************************************************************)
(* What the sum of a chain of entries is, and what a COMMIT does to the     *)
(* headers and entries of the tables, whichever API it comes from.          *)
(***************************************************************************)
EXTENDS WalletStore, FiniteSetTheorems, WellFoundedInduction, TLAPS

-----------------------------------------------------------------------------
(* Sums of entries.  The induction over the length of a chain is a smallest *)
(* counterexample: every set of naturals that is not empty has a least      *)
(* element, and a greatest one if it is finite.                            *)

LessThan == {pair \in Nat \X Nat : pair[1] < pair[2]}

LEMMA LessThanPair ==
  ASSUME NEW x \in Nat, NEW y \in Nat, y < x
  PROVE  <<y, x>> \in LessThan
BY DEF LessThan

\* The natural numbers are well-ordered.
LEMMA LeastElement ==
  ASSUME NEW T, T \subseteq Nat, T # {}
  PROVE  \E x \in T : \A y \in T : x <= y
<1>1. IsWellFoundedOn(LessThan, Nat)
  BY NatLessThanWellFounded DEF OpToRel, LessThan
<1>2. PICK x \in T : \A y \in T : ~(<<y, x>> \in LessThan)
  BY <1>1, WFMin
<1>3. ASSUME NEW y \in T PROVE x <= y
  <2>1. ~(y < x)
    BY <1>2, LessThanPair
  <2>2. QED
    BY <2>1
<1>4. QED
  BY <1>3

LEMMA GreatestElement ==
  ASSUME NEW T, T \subseteq Nat, T # {}, IsFiniteSet(T)
  PROVE  \E m \in T : \A x \in T : x <= m
<1> DEFINE Bounded(U) == \E m \in U : \A x \in U : x <= m
           Bad == {n \in Nat : \E U \in SUBSET T :
                                 /\ U # {}
                                 /\ Cardinality(U) = n
                                 /\ ~Bounded(U)}
<1>1. SUFFICES ASSUME Bad # {} PROVE FALSE
  <2>1. ASSUME ~Bounded(T) PROVE Bad # {}
    <3>1. Cardinality(T) \in Nat
      BY FS_CardinalityType
    <3>2. Cardinality(T) \in Bad
      BY <2>1, <3>1
    <3>3. QED
      BY <3>2
  <2>2. QED
    BY <2>1
<1>2. PICK n \in Bad : \A k \in Bad : n <= k
  <2>1. Bad \subseteq Nat
    OBVIOUS
  <2> HIDE DEF Bad
  <2>2. QED
    BY <1>1, <2>1, LeastElement
<1>3. PICK U \in SUBSET T : U # {} /\ Cardinality(U) = n /\ ~Bounded(U)
  BY <1>2
<1>4. PICK a \in U : TRUE
  BY <1>3
<1> DEFINE V == U \ {a}
<1>5. IsFiniteSet(V) /\ Cardinality(V) = n - 1 /\ n - 1 \in Nat
  <2>1. IsFiniteSet(U)
    BY FS_Subset
  <2>2. IsFiniteSet(V) /\ Cardinality(V) = n - 1
    BY <2>1, <1>3, <1>4, FS_RemoveElement
  <2>3. Cardinality(V) \in Nat
    BY <2>2, FS_CardinalityType
  <2>4. QED
    BY <2>2, <2>3
<1>6. V # {}
  <2>1. ASSUME V = {} PROVE Bounded(U)
    BY <2>1, <1>4
  <2>2. QED
    BY <2>1, <1>3
<1>7. PICK m \in V : \A x \in V : x <= m
  <2>1. n - 1 \notin Bad
    BY <1>2, <1>5
  <2>2. QED
    BY <2>1, <1>5, <1>6
<1>8. Bounded(U)
  <2>1. CASE a <= m
    BY <2>1, <1>7
  <2>2. CASE m < a
    BY <2>2, <1>4, <1>7
  <2>3. QED
    BY <2>1, <2>2, <1>4, <1>7
<1>9. QED
  BY <1>3, <1>8

IsRunningSum(o, s, f) ==
  f = [i \in 0 .. Len(s) |-> IF i = 0 THEN o ELSE f[i - 1] + s[i].amount]

\* RunningSum satisfies its recursion if anything does.
LEMMA RunningSumRecursion ==
  ASSUME NEW o, NEW s, NEW f, IsRunningSum(o, s, f)
  PROVE  IsRunningSum(o, s, RunningSum(o, s))
BY DEF RunningSum, IsRunningSum

\* If the numbers f follow the entries' amounts, they are the running sums.
LEMMA RunningSumUnique ==
  ASSUME NEW o, NEW S, NEW s \in Seq(S), NEW f, IsRunningSum(o, s, f)
  PROVE  EntrySum(o, s) = f[Len(s)]
<1> DEFINE n == Len(s)
           g == RunningSum(o, s)
<1>1. n \in Nat
  OBVIOUS
<1>2. IsRunningSum(o, s, g)
  BY RunningSumRecursion
<1>3. \A i \in 0 .. n : g[i] = IF i = 0 THEN o ELSE g[i - 1] + s[i].amount
  <2> HIDE DEF g, n
  <2>1. QED
    BY <1>2 DEF IsRunningSum, n
<1>4. \A i \in 0 .. n : f[i] = IF i = 0 THEN o ELSE f[i - 1] + s[i].amount
  <2> HIDE DEF n
  <2>1. QED
    BY DEF IsRunningSum, n
<1> HIDE DEF g, n
<1>5. \A i \in 0 .. n : g[i] = f[i]
  <2> DEFINE T == {i \in 0 .. n : g[i] # f[i]}
  <2>1. SUFFICES ASSUME T # {} PROVE FALSE
    OBVIOUS
  <2>2. T \subseteq Nat
    BY <1>1
  <2>3. PICK x \in T : \A y \in T : x <= y
    <3> HIDE DEF T
    <3>1. QED
      BY <2>1, <2>2, LeastElement
  <2>4. x \in 0 .. n /\ x # 0
    BY <1>1, <1>3, <1>4
  <2>5. x - 1 \in 0 .. n /\ ~(x <= x - 1)
    BY <1>1, <2>4
  <2>6. g[x - 1] = f[x - 1]
    BY <2>3, <2>5
  <2>7. QED
    BY <1>3, <1>4, <2>4, <2>6
<1>6. QED
  BY <1>1, <1>5 DEF EntrySum, g, n

\* The amounts of a chain of running balances telescope: their sum is the
\* balance after the last entry.
THEOREM SumOfChain ==
  ASSUME NEW o, NEW S, NEW s \in Seq(S),
         \A i \in 1 .. Len(s) :
           s[i].after = (IF i = 1 THEN o ELSE s[i - 1].after) + s[i].amount
  PROVE  EntrySum(o, s) = IF Len(s) = 0 THEN o ELSE s[Len(s)].after
<1> DEFINE f == [i \in 0 .. Len(s) |-> IF i = 0 THEN o ELSE s[i].after]
<1>1. Len(s) \in Nat
  OBVIOUS
<1>2. ASSUME NEW i \in 0 .. Len(s), i # 0
      PROVE  f[i] = f[i - 1] + s[i].amount
  BY <1>1, <1>2
<1>3. IsRunningSum(o, s, f)
  BY <1>1, <1>2 DEF IsRunningSum
<1>4. f[Len(s)] = IF Len(s) = 0 THEN o ELSE s[Len(s)].after
  BY <1>1
<1> HIDE DEF f
<1>5. QED
  BY <1>3, <1>4, RunningSumUnique

-----------------------------------------------------------------------------
(* Commits.                                                                *)

\* A commit keeps the types of the tables if what it writes fits the columns.
LEMMA CommitTypes ==
  ASSUME StoreTypeOK, NEW s \in Sessions, NEW k \in Keys, NEW header \in Header,
         NEW amounts, NEW after, DOMAIN amounts \subseteq Wallets,
         \A w \in DOMAIN amounts : amounts[w] \in Column /\ after[w] \in Column,
         Commit(s, k, header, amounts, after)
  PROVE  StoreTypeOK'
<1> USE DEF Commit, EndTransaction, StoreTypeOK
<1>1. ledger' \in [Wallets -> Seq(Entry)]
  <2>1. \A w \in DOMAIN amounts :
          [ref |-> k, amount |-> amounts[w], after |-> after[w]] \in Entry
    BY DEF Entry
  <2>2. QED
    BY <2>1
<1>2. balance' \in [Wallets -> Column] /\ txn' \in [Keys -> Header \cup {NoTxn}]
  OBVIOUS
<1>3. held' \in [Sessions -> SUBSET Wallets] /\ pending' \in [Sessions -> SUBSET Keys]
  OBVIOUS
<1>4. QED
  BY <1>1, <1>2, <1>3

\* It adds one entry to each ledger it names.
LEMMA CommitEntries ==
  ASSUME ledger \in [Wallets -> Seq(Entry)],
         NEW s, NEW k, NEW header, NEW amounts, NEW after,
         Commit(s, k, header, amounts, after), NEW w \in Wallets
  PROVE  /\ Len(ledger[w]) \in Nat
         /\ \A i \in 1 .. Len(ledger[w]) : ledger'[w][i] = ledger[w][i]
         /\ w \notin DOMAIN amounts => Len(ledger'[w]) = Len(ledger[w])
         /\ w \in DOMAIN amounts =>
              /\ Len(ledger'[w]) = Len(ledger[w]) + 1
              /\ ledger'[w][Len(ledger[w]) + 1].ref = k
              /\ ledger'[w][Len(ledger[w]) + 1].amount = amounts[w]
              /\ ledger'[w][Len(ledger[w]) + 1].after = after[w]
<1> DEFINE e == [ref |-> k, amount |-> amounts[w], after |-> after[w]]
<1>1. ledger[w] \in Seq(Entry) /\ Len(ledger[w]) \in Nat
  OBVIOUS
<1>2. ledger'[w] = IF w \in DOMAIN amounts THEN Append(ledger[w], e)
                                           ELSE ledger[w]
  BY DEF Commit
<1>3. e.ref = k /\ e.amount = amounts[w] /\ e.after = after[w]
  OBVIOUS
<1> HIDE DEF e
<1>4. CASE w \notin DOMAIN amounts
  BY <1>1, <1>2, <1>4
<1>5. CASE w \in DOMAIN amounts
  <2>1. /\ Len(ledger'[w]) = Len(ledger[w]) + 1
        /\ ledger'[w][Len(ledger[w]) + 1] = e
        /\ \A i \in 1 .. Len(ledger[w]) : ledger'[w][i] = ledger[w][i]
    BY ONLY <1>1, <1>2, <1>5
  <2>2. QED
    BY <1>1, <1>3, <1>5, <2>1
<1>6. QED
  BY <1>4, <1>5

\* An unused reference makes a commit one that only appends.
LEMMA CommitAppends ==
  ASSUME StoreTypeOK, NEW s, NEW k \in Keys, ~Committed(k),
         NEW header, NEW amounts, NEW after,
         Commit(s, k, header, amounts, after)
  PROVE  AppendsOnly
<1>1. ledger \in [Wallets -> Seq(Entry)] /\ txn \in [Keys -> Header \cup {NoTxn}]
  BY DEF StoreTypeOK
<1>2. ASSUME NEW q \in Keys, Committed(q)
      PROVE  txn'[q] = txn[q]
  BY <1>1, <1>2 DEF Commit
<1>3. ASSUME NEW w \in Wallets
      PROVE  /\ Len(ledger[w]) <= Len(ledger'[w])
             /\ \A i \in 1 .. Len(ledger[w]) : ledger'[w][i] = ledger[w][i]
  BY <1>1, CommitEntries
<1>4. QED
  BY <1>2, <1>3 DEF AppendsOnly

\* A commit whose new balances are the old ones plus its amounts extends every
\* chain it touches.
LEMMA CommitChains ==
  ASSUME ledger \in [Wallets -> Seq(Entry)], LedgerChains,
         NEW s, NEW k, NEW header, NEW amounts, NEW after,
         \A w \in DOMAIN amounts : after[w] = balance[w] + amounts[w],
         Commit(s, k, header, amounts, after)
  PROVE  LedgerChains'
<1> SUFFICES ASSUME NEW w \in Wallets
             PROVE  /\ \A i \in 1 .. Len(ledger'[w]) :
                         ledger'[w][i].after
                           = PreviousAfter(w, i)' + ledger'[w][i].amount
                    /\ balance'[w] = PreviousAfter(w, Len(ledger[w]) + 1)'
  BY DEF LedgerChains
<1> DEFINE n == Len(ledger[w])
<1>1. /\ n \in Nat
      /\ \A i \in 1 .. n : ledger'[w][i] = ledger[w][i]
      /\ w \notin DOMAIN amounts => Len(ledger'[w]) = n
      /\ w \in DOMAIN amounts =>
           /\ Len(ledger'[w]) = n + 1
           /\ ledger'[w][n + 1].amount = amounts[w]
           /\ ledger'[w][n + 1].after = after[w]
  BY CommitEntries
<1>2. balance'[w] = IF w \in DOMAIN amounts THEN after[w] ELSE balance[w]
  BY DEF Commit
<1>3. /\ \A i \in 1 .. n :
           ledger[w][i].after = PreviousAfter(w, i) + ledger[w][i].amount
      /\ balance[w] = PreviousAfter(w, n + 1)
  BY DEF LedgerChains
<1> HIDE DEF n
<1>4. \A i \in 1 .. n + 1 : PreviousAfter(w, i)' = PreviousAfter(w, i)
  BY <1>1 DEF PreviousAfter
<1>5. CASE w \notin DOMAIN amounts
  BY <1>1, <1>2, <1>3, <1>4, <1>5 DEF n
<1>6. CASE w \in DOMAIN amounts
  <2>1. ASSUME NEW i \in 1 .. n + 1
        PROVE  ledger'[w][i].after = PreviousAfter(w, i)' + ledger'[w][i].amount
    <3>1. CASE i = n + 1
      BY <1>1, <1>3, <1>4, <1>6, <3>1
    <3>2. CASE i \in 1 .. n
      BY <1>1, <1>3, <1>4, <3>2
    <3>3. QED
      BY <1>1, <3>1, <3>2
  <2>2. balance'[w] = PreviousAfter(w, Len(ledger[w]) + 1)'
    BY <1>1, <1>2, <1>6 DEF PreviousAfter
  <2>3. QED
    BY <1>1, <1>6, <2>1, <2>2
<1>7. QED
  BY <1>5, <1>6

-----------------------------------------------------------------------------
(* The entries of a key.                                                   *)

\* An entry is named by its wallet and its place.
LEMMA EntryPlaces ==
  ASSUME NEW L \in [Wallets -> Seq(Entry)], NEW k, NEW e
  PROVE  e \in {x \in UNION {{w} \X DOMAIN L[w] : w \in Wallets} :
                  L[x[1]][x[2]].ref = k}
           <=> \E w \in Wallets : \E i \in 1 .. Len(L[w]) :
                 e = <<w, i>> /\ L[w][i].ref = k
<1>1. \A w \in Wallets : DOMAIN L[w] = 1 .. Len(L[w])
  OBVIOUS
<1>2. QED
  BY <1>1

LEMMA EntriesOfKey ==
  ASSUME ledger \in [Wallets -> Seq(Entry)], NEW k, NEW e
  PROVE  e \in EntriesOf(k)
           <=> \E w \in Wallets : \E i \in 1 .. Len(ledger[w]) :
                 e = <<w, i>> /\ ledger[w][i].ref = k
BY EntryPlaces DEF EntriesOf, EntryIds

LEMMA EntriesOfKeyNext ==
  ASSUME ledger' \in [Wallets -> Seq(Entry)], NEW k, NEW e
  PROVE  e \in EntriesOf(k)'
           <=> \E w \in Wallets : \E i \in 1 .. Len(ledger'[w]) :
                 e = <<w, i>> /\ ledger'[w][i].ref = k
BY EntryPlaces DEF EntriesOf, EntryIds

\* The places of the entries that a commit of these amounts will add.
NextPlaces(amounts) == {<<w, Len(ledger[w]) + 1>> : w \in DOMAIN amounts}

\* The entries of other keys stay as they are; a key that had none gets those
\* of the commit.
LEMMA CommitEntriesOfKeys ==
  ASSUME ledger \in [Wallets -> Seq(Entry)], ledger' \in [Wallets -> Seq(Entry)],
         NEW s, NEW key, NEW header, NEW amounts, NEW after,
         DOMAIN amounts \subseteq Wallets,
         Commit(s, key, header, amounts, after)
  PROVE  /\ \A k : k # key => EntriesOf(k)' = EntriesOf(k)
         /\ \A k : \A e \in EntriesOf(k) : AmountOf(e)' = AmountOf(e)
         /\ EntriesOf(key) = {} =>
              EntriesOf(key)' = NextPlaces(amounts)
         /\ \A w \in DOMAIN amounts : \A e :
              e = <<w, Len(ledger[w]) + 1>> => AmountOf(e)' = amounts[w]
<1>1. ASSUME NEW w \in Wallets
      PROVE  /\ Len(ledger[w]) \in Nat
             /\ \A i \in 1 .. Len(ledger[w]) : ledger'[w][i] = ledger[w][i]
             /\ \A i : i \in 1 .. Len(ledger'[w]) <=>
                  \/ i \in 1 .. Len(ledger[w])
                  \/ w \in DOMAIN amounts /\ i = Len(ledger[w]) + 1
             /\ w \in DOMAIN amounts =>
                  /\ ledger'[w][Len(ledger[w]) + 1].ref = key
                  /\ ledger'[w][Len(ledger[w]) + 1].amount = amounts[w]
  <2>1. /\ Len(ledger[w]) \in Nat
        /\ \A i \in 1 .. Len(ledger[w]) : ledger'[w][i] = ledger[w][i]
        /\ w \notin DOMAIN amounts => Len(ledger'[w]) = Len(ledger[w])
        /\ w \in DOMAIN amounts =>
             /\ Len(ledger'[w]) = Len(ledger[w]) + 1
             /\ ledger'[w][Len(ledger[w]) + 1].ref = key
             /\ ledger'[w][Len(ledger[w]) + 1].amount = amounts[w]
    BY CommitEntries
  <2>2. QED
    BY <2>1
<1>2. ASSUME NEW k, k # key
      PROVE  EntriesOf(k)' = EntriesOf(k)
  <2>1. ASSUME NEW w \in Wallets, NEW i
        PROVE  (i \in 1 .. Len(ledger'[w]) /\ ledger'[w][i].ref = k)
                 <=> (i \in 1 .. Len(ledger[w]) /\ ledger[w][i].ref = k)
    BY <1>1, <1>2
  <2>2. ASSUME NEW e
        PROVE  e \in EntriesOf(k)' <=> e \in EntriesOf(k)
    <3>1. e \in EntriesOf(k)
            <=> \E w \in Wallets : \E i \in 1 .. Len(ledger[w]) :
                  e = <<w, i>> /\ ledger[w][i].ref = k
      BY EntriesOfKey
    <3>2. e \in EntriesOf(k)'
            <=> \E w \in Wallets : \E i \in 1 .. Len(ledger'[w]) :
                  e = <<w, i>> /\ ledger'[w][i].ref = k
      BY EntriesOfKeyNext
    <3>3. QED
      BY <2>1, <3>1, <3>2
  <2>3. QED
    BY <2>2
<1>3. ASSUME NEW k, NEW e \in EntriesOf(k)
      PROVE  AmountOf(e)' = AmountOf(e)
  <2>1. PICK w \in Wallets : \E i \in 1 .. Len(ledger[w]) : e = <<w, i>>
    BY <1>3, EntriesOfKey
  <2>2. PICK i \in 1 .. Len(ledger[w]) : e = <<w, i>>
    BY <2>1
  <2>3. ledger'[w][i] = ledger[w][i]
    BY <1>1
  <2>4. QED
    BY <2>2, <2>3 DEF AmountOf
<1>4. ASSUME EntriesOf(key) = {}
      PROVE  EntriesOf(key)' = NextPlaces(amounts)
  <2>1. ASSUME NEW w \in Wallets, NEW i \in 1 .. Len(ledger[w])
        PROVE  ledger[w][i].ref # key
    <3>1. <<w, i>> \notin EntriesOf(key)
      BY <1>4
    <3>2. QED
      BY <3>1, EntriesOfKey
  <2>2. ASSUME NEW w \in Wallets, NEW i
        PROVE  (i \in 1 .. Len(ledger'[w]) /\ ledger'[w][i].ref = key)
                 <=> (w \in DOMAIN amounts /\ i = Len(ledger[w]) + 1)
    BY <1>1, <2>1
  <2>3. ASSUME NEW e
        PROVE  e \in EntriesOf(key)'
                 <=> e \in NextPlaces(amounts)
    <3>1. e \in EntriesOf(key)'
            <=> \E w \in Wallets : \E i \in 1 .. Len(ledger'[w]) :
                  e = <<w, i>> /\ ledger'[w][i].ref = key
      BY EntriesOfKeyNext
    <3>2. ASSUME NEW w \in Wallets, NEW i \in 1 .. Len(ledger'[w]),
                 e = <<w, i>>, ledger'[w][i].ref = key
          PROVE  e \in NextPlaces(amounts)
      BY <2>2, <3>2 DEF NextPlaces
    <3>3. ASSUME e \in NextPlaces(amounts)
          PROVE  e \in EntriesOf(key)'
      <4>1. PICK w \in DOMAIN amounts : e = <<w, Len(ledger[w]) + 1>>
        BY <3>3 DEF NextPlaces
      <4>2. w \in Wallets
        BY <4>1
      <4>3. /\ Len(ledger[w]) + 1 \in 1 .. Len(ledger'[w])
            /\ ledger'[w][Len(ledger[w]) + 1].ref = key
        BY <2>2, <3>3, <4>1, <4>2
      <4>4. QED
        BY <3>1, <4>1, <4>2, <4>3
    <3>4. QED
      BY <3>1, <3>2, <3>3
  <2>4. QED
    BY <2>3
<1>5. ASSUME NEW w \in DOMAIN amounts, NEW e, e = <<w, Len(ledger[w]) + 1>>
      PROVE  AmountOf(e)' = amounts[w]
  BY <1>1, <1>5 DEF AmountOf
<1>6. QED
  BY <1>2, <1>3, <1>4, <1>5

-----------------------------------------------------------------------------
(* Headers and entries.                                                    *)

\* The amounts a header of each type calls for.
LegsFit(header, amounts) ==
  \/ /\ header.type = "DEPOSIT"
     /\ \E c : DOMAIN amounts = {c} /\ amounts[c] = header.amount
  \/ /\ header.type = "WITHDRAWAL"
     /\ \E d : DOMAIN amounts = {d} /\ amounts[d] = -header.amount
  \/ /\ header.type = "TRANSFER"
     /\ \E d, c : /\ d # c /\ Currency[d] = Currency[c]
                  /\ DOMAIN amounts = {d, c}
                  /\ amounts[d] = -header.amount
                  /\ amounts[c] = header.amount

\* A posting under an unused reference, with the entries its header calls for,
\* keeps headers and entries together.
LEMMA CommitBooks ==
  ASSUME StoreTypeOK, StoreTypeOK', LedgerMatchesTxns,
         NEW s, NEW key \in Keys, ~Committed(key), NEW header \in Header,
         NEW amounts, NEW after, DOMAIN amounts \subseteq Wallets,
         LegsFit(header, amounts),
         Commit(s, key, header, amounts, after)
  PROVE  LedgerMatchesTxns'
<1>1. /\ ledger \in [Wallets -> Seq(Entry)] /\ ledger' \in [Wallets -> Seq(Entry)]
      /\ txn \in [Keys -> Header \cup {NoTxn}]
      /\ DOMAIN amounts \subseteq Wallets /\ Commit(s, key, header, amounts, after)
  BY DEF StoreTypeOK
<1>2. /\ \A k : k # key => EntriesOf(k)' = EntriesOf(k)
      /\ \A k : \A e \in EntriesOf(k) : AmountOf(e)' = AmountOf(e)
      /\ EntriesOf(key) = {} =>
           EntriesOf(key)' = NextPlaces(amounts)
      /\ \A w \in DOMAIN amounts : \A e :
           e = <<w, Len(ledger[w]) + 1>> => AmountOf(e)' = amounts[w]
  BY ONLY <1>1, CommitEntriesOfKeys
<1>3. ASSUME NEW k \in Keys, k # key
      PROVE  Booked(k)'
  <2>1. Booked(k) /\ txn'[k] = txn[k]
    BY <1>1, <1>3 DEF LedgerMatchesTxns, Commit
  <2>2. /\ EntriesOf(k)' = EntriesOf(k)
        /\ \A e \in EntriesOf(k) : AmountOf(e)' = AmountOf(e)
    BY <1>2, <1>3
  <2>3. QED
    BY <2>1, <2>2 DEF Booked, Committed
<1>4. txn'[key] = header /\ header # NoTxn
  BY <1>1, StoreAssumption DEF Commit
<1>5. EntriesOf(key) = {}
  BY DEF LedgerMatchesTxns, Booked
<1>6. Booked(key)'
  <2> DEFINE place(w) == <<w, Len(ledger[w]) + 1>>
  <2>1. /\ EntriesOf(key)' = {place(w) : w \in DOMAIN amounts}
        /\ \A w \in DOMAIN amounts : \A e :
             e = place(w) => AmountOf(e)' = amounts[w] /\ e[1] = w
        /\ Committed(key)'
    BY <1>2, <1>4, <1>5 DEF Committed, NextPlaces
  <2>2. CASE header.type = "DEPOSIT"
    <3>1. PICK v : DOMAIN amounts = {v} /\ amounts[v] = header.amount
      BY <2>2 DEF LegsFit
    <3>2. PICK c : c = place(v)
      OBVIOUS
    <3>3. EntriesOf(key)' = {c} /\ AmountOf(c)' = header.amount
      BY <2>1, <3>1, <3>2
    <3> HIDE DEF place
    <3>4. QED
      BY <1>4, <2>1, <2>2, <3>3 DEF Booked
  <2>3. CASE header.type = "WITHDRAWAL"
    <3>1. PICK v : DOMAIN amounts = {v} /\ amounts[v] = -header.amount
      BY <2>3 DEF LegsFit
    <3>2. PICK d : d = place(v)
      OBVIOUS
    <3>3. EntriesOf(key)' = {d} /\ AmountOf(d)' = -header.amount
      BY <2>1, <3>1, <3>2
    <3> HIDE DEF place
    <3>4. QED
      BY <1>4, <2>1, <2>3, <3>3 DEF Booked
  <2>4. CASE header.type = "TRANSFER"
    <3>1. PICK v, w : /\ v # w /\ Currency[v] = Currency[w]
                      /\ DOMAIN amounts = {v, w}
                      /\ amounts[v] = -header.amount
                      /\ amounts[w] = header.amount
      BY <2>4 DEF LegsFit
    <3>2. PICK d, c : d = place(v) /\ c = place(w)
      OBVIOUS
    <3>3. /\ EntriesOf(key)' = {d, c} /\ d[1] # c[1]
          /\ Currency[d[1]] = Currency[c[1]]
          /\ AmountOf(d)' = -header.amount /\ AmountOf(c)' = header.amount
      BY <2>1, <3>1, <3>2
    <3> HIDE DEF place
    <3>4. QED
      BY <1>4, <2>1, <2>4, <3>3 DEF Booked
  <2>5. QED
    BY <2>2, <2>3, <2>4 DEF Header, Types
<1>7. QED
  BY <1>3, <1>6 DEF LedgerMatchesTxns

PairsOf(amounts) == {<<w, amounts[w]>> : w \in DOMAIN amounts}

\* Seen as pairs of a wallet and an amount, the entries of a new reference are
\* the amounts of its commit.
LEMMA CommitPairs ==
  ASSUME StoreTypeOK, StoreTypeOK', LedgerMatchesTxns,
         NEW s, NEW k \in Keys, ~Committed(k), NEW header,
         NEW amounts, NEW after, DOMAIN amounts \subseteq Wallets,
         Commit(s, k, header, amounts, after)
  PROVE  {<<e[1], AmountOf(e)'>> : e \in EntriesOf(k)'} = PairsOf(amounts)
<1>1. /\ ledger \in [Wallets -> Seq(Entry)] /\ ledger' \in [Wallets -> Seq(Entry)]
      /\ DOMAIN amounts \subseteq Wallets /\ Commit(s, k, header, amounts, after)
  BY DEF StoreTypeOK
<1>2. /\ EntriesOf(k) = {} => EntriesOf(k)' = NextPlaces(amounts)
      /\ \A w \in DOMAIN amounts : \A e :
           e = <<w, Len(ledger[w]) + 1>> => AmountOf(e)' = amounts[w]
  BY ONLY <1>1, CommitEntriesOfKeys
<1>3. EntriesOf(k)' = NextPlaces(amounts)
  BY <1>2 DEF LedgerMatchesTxns, Booked
<1>4. ASSUME NEW e \in EntriesOf(k)'
      PROVE  <<e[1], AmountOf(e)'>> \in PairsOf(amounts)
  <2>1. PICK w \in DOMAIN amounts : e = <<w, Len(ledger[w]) + 1>>
    BY <1>3, <1>4 DEF NextPlaces
  <2>2. AmountOf(e)' = amounts[w] /\ e[1] = w
    BY <1>2, <2>1
  <2>3. QED
    BY <2>2 DEF PairsOf
<1>5. ASSUME NEW x \in PairsOf(amounts)
      PROVE  \E e \in EntriesOf(k)' : x = <<e[1], AmountOf(e)'>>
  <2>1. PICK w \in DOMAIN amounts : x = <<w, amounts[w]>>
    BY <1>5 DEF PairsOf
  <2>2. PICK e : e = <<w, Len(ledger[w]) + 1>>
    OBVIOUS
  <2>3. e \in EntriesOf(k)' /\ AmountOf(e)' = amounts[w] /\ e[1] = w
    BY <1>2, <1>3, <2>2 DEF NextPlaces
  <2>4. QED
    BY <2>1, <2>3
<1>6. QED
  BY <1>4, <1>5

\* A step that leaves the tables alone leaves headers and entries together.
LEMMA KeepsBooks ==
  ASSUME LedgerMatchesTxns, UNCHANGED <<txn, ledger>>
  PROVE  LedgerMatchesTxns'
BY DEF LedgerMatchesTxns, Booked, EntriesOf, EntryIds, AmountOf, Committed

LEMMA EmptyBooks == StoreInit => LedgerMatchesTxns
BY DEF StoreInit, LedgerMatchesTxns, Booked, EntriesOf, EntryIds, Committed

=============================================================================
