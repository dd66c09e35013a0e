------------------------ MODULE WalletDirectoryProofs ------------------------
(***************************************************************************)
(* Proofs about WalletDirectory for every set of emails, currencies and     *)
(* requests: check and insert race, and the unique indexes are enough.      *)
(***************************************************************************)
EXTENDS WalletDirectory, Sequences, TLAPS

-----------------------------------------------------------------------------
(* The inductive invariant.                                                *)

Taken(p) == IF p.kind = "register" THEN Registered(EmailRow(p))
                                   ELSE WalletRow(p) \in wallets

SameRow(p, q) ==
  /\ p.kind = q.kind
  /\ IF p.kind = "register" THEN EmailRow(p) = EmailRow(q)
                            ELSE WalletRow(p) = WalletRow(q)

\* A request is answered at its end; the owner of a wallet to be inserted is
\* registered, and Django inserts only what fits.
Progress ==
  \A r \in Requests :
    /\ pc[r] # "done" => resp[r] = "none"
    /\ pc[r] = "insert" =>
         /\ req[r].kind # "login"
         /\ req[r].kind = "wallet" => AtHome(req[r]) \/ Stranger(req[r])
         /\ req[r].stack = "django" => Fits(req[r])
    /\ resp[r] = "created" => req[r].kind # "login"

\* Two 201s are for two rows, and their rows exist; a user was created by the
\* stack that said so.
Created ==
  \A r \in Requests : resp[r] = "created" =>
    /\ Taken(req[r])
    /\ req[r].kind = "register" => users[EmailRow(req[r])] = req[r].stack
    /\ \A s \in Requests :
         (s # r /\ resp[s] = "created") => ~SameRow(req[r], req[s])

Creator(r, kind) == req[r].kind = kind /\ resp[r] \in {"created", "lost"}

HaveCreators ==
  /\ \A e \in Emails : Registered(e) =>
       \E r \in Requests : Creator(r, "register") /\ EmailRow(req[r]) = e
  /\ \A w \in wallets :
       \E r \in Requests : Creator(r, "wallet") /\ WalletRow(req[r]) = w

Refusal(p, answer) ==
  \/ Taken(p)
  \/ answer = "rejected" /\ p.kind = "register" /\ Registered(p.email)
  \/ answer = "rejected" /\ p.stack = "django" /\ ~Fits(p)
  \/ answer = "error" /\ p.stack = "dotnet" /\ (~Fits(p) \/ Stranger(p))

RefusedForARow ==
  \A r \in Requests :
    (resp[r] \in {"error", "rejected"} /\ req[r].kind # "login")
      => Refusal(req[r], resp[r])

DirectoryInv ==
  /\ TypeOK
  /\ Progress
  /\ Created
  /\ HaveCreators
  /\ RefusedForARow

LEMMA InitDirectory == Init => DirectoryInv
BY DEF Init, DirectoryInv, TypeOK, Home, Progress, Created, HaveCreators,
       RefusedForARow, Registered, Owners

LEMMA RowTypes ==
  ASSUME NEW p \in Payload
  PROVE  /\ p.kind \in Kinds /\ p.stack \in Stacks /\ p.email \in Emails
         /\ EmailRow(p) \in Emails
         /\ p.currency \in Currencies /\ p.name \in Names
         /\ EmailRow(p) \in TooLong <=> p.email \in TooLong
BY DirectoryAssumption DEF Payload, EmailRow

LEMMA RequestTypes ==
  ASSUME TypeOK, NEW r \in Requests
  PROVE  /\ req[r] \in Payload
         /\ users \in Home /\ req \in [Requests -> Wanted]
         /\ pc \in [Requests -> {"check", "insert", "done"}]
         /\ resp \in [Requests -> {"none", "ok", "created", "rejected",
                                   "denied", "error", "lost"}]
BY DirectoryAssumption DEF TypeOK

-----------------------------------------------------------------------------
(* Steps.                                                                  *)

\* A step that writes no row and answers no 201.
LEMMA AnswerStep ==
  ASSUME DirectoryInv, UNCHANGED <<users, wallets, req>>,
         NEW r \in Requests,
         NEW s \in {"insert", "done"},
         NEW a \in {"none", "ok", "rejected", "denied", "error", "lost"},
         pc' = [pc EXCEPT ![r] = s], resp' = [resp EXCEPT ![r] = a],
         s = "insert" => /\ a = "none" /\ req[r].kind # "login"
                         /\ req[r].kind = "wallet" =>
                              AtHome(req[r]) \/ Stranger(req[r])
                         /\ req[r].stack = "django" => Fits(req[r]),
         resp[r] # "none" => resp[r] = "created" /\ a = "lost",
         (a \in {"error", "rejected"} /\ req[r].kind # "login")
           => Refusal(req[r], a)
  PROVE  DirectoryInv'
<1> USE DEF DirectoryInv, Registered
<1>1. /\ pc \in [Requests -> {"check", "insert", "done"}]
      /\ resp \in [Requests -> {"none", "ok", "created", "rejected",
                                "denied", "error", "lost"}]
  BY RequestTypes
<1>2. TypeOK'
  BY <1>1 DEF TypeOK, Owners
<1>3. Progress'
  BY <1>1 DEF Progress, AtHome, Stranger
<1>4. Created'
  BY <1>1 DEF Created, Taken
<1>5. HaveCreators'
  BY <1>1 DEF HaveCreators, Creator
<1>6. RefusedForARow'
  BY <1>1 DEF RefusedForARow, Refusal, Taken, Stranger
<1>7. QED
  BY <1>2, <1>3, <1>4, <1>5, <1>6

\* The INSERT of a user whose email no row has.
LEMMA UserInserted ==
  ASSUME DirectoryInv, NEW r \in Requests, InsertUser(r),
         ~Registered(EmailRow(req[r])), Fits(req[r])
  PROVE  DirectoryInv'
<1> USE DEF DirectoryInv, InsertUser, Answer
<1>1. /\ users \in Home /\ req \in [Requests -> Wanted]
      /\ pc \in [Requests -> {"check", "insert", "done"}]
      /\ resp \in [Requests -> {"none", "ok", "created", "rejected",
                                "denied", "error", "lost"}]
      /\ \A q \in Requests : req[q] \in Payload
  BY RequestTypes
<1>2. \A q \in Requests : /\ EmailRow(req[q]) \in Emails
                          /\ req[q].stack \in Stacks
                          /\ req[q].email \in Emails
  BY <1>1, RowTypes
<1>3. /\ users' = [users EXCEPT ![EmailRow(req[r])] = req[r].stack]
      /\ req' = req /\ wallets' = wallets
      /\ pc' = [pc EXCEPT ![r] = "done"]
      /\ resp' = [resp EXCEPT ![r] = "created"]
      /\ req[r].kind = "register" /\ pc[r] = "insert"
  OBVIOUS
<1> HIDE DEF InsertUser, Answer
<1>4. req[r].stack # "none"
  BY <1>2 DEF Stacks
<1>5. /\ \A e \in Emails : Registered(e)' <=> Registered(e) \/ e = EmailRow(req[r])
      /\ \A q \in Requests : EmailRow(req[q])' = EmailRow(req[q])
  BY <1>1, <1>2, <1>3, <1>4 DEF Registered, Home, EmailRow
<1>6. TypeOK'
  <2>1. users' \in Home
    BY <1>1, <1>2, <1>3 DEF Home
  <2>2. Owners' = Owners \cup {EmailRow(req[r])}
    BY <1>2, <1>5 DEF Owners
  <2>3. EmailRow(req[r]) \notin TooLong
    BY <1>1, <1>3, RowTypes DEF Fits
  <2>4. QED
    BY <1>1, <1>3, <2>1, <2>2, <2>3 DEF TypeOK
<1>7. Progress' /\ \A q \in Requests : Stranger(req[q]) => Stranger(req[q])'
  <2>1. \A e \in Emails : users[e] # "none" => users'[e] = users[e]
    BY <1>1, <1>2, <1>3 DEF Registered, Home
  <2>2. \A q \in Requests : req[q].email \in Emails /\ req[q].stack # "none"
    BY <1>2 DEF Stacks
  <2>3. \A q \in Requests : /\ AtHome(req[q]) => AtHome(req[q])'
                            /\ Stranger(req[q]) => Stranger(req[q])'
    BY <1>3, <2>1, <2>2 DEF AtHome, Stranger
  <2>4. QED
    BY <1>1, <1>3, <2>3 DEF Progress, Fits
<1>8. ASSUME NEW q \in Requests, resp'[q] = "created"
      PROVE  /\ Taken(req[q])'
             /\ req[q].kind = "register" =>
                  users'[EmailRow(req[q])] = req[q].stack
             /\ \A s \in Requests : (s # q /\ resp'[s] = "created") =>
                  ~SameRow(req[q], req[s])
  <2>1. CASE q = r
    BY <1>1, <1>2, <1>3, <1>5, <2>1 DEF Created, Taken, SameRow, Home
  <2>2. CASE q # r
    BY <1>1, <1>2, <1>3, <1>5, <1>8, <2>2
       DEF Created, Taken, SameRow, WalletRow, Home
  <2>3. QED
    BY <2>1, <2>2
<1>9. Created'
  BY <1>3, <1>5, <1>8 DEF Created, SameRow, EmailRow, WalletRow
<1>10. HaveCreators'
  BY <1>1, <1>2, <1>3, <1>5 DEF HaveCreators, Creator, WalletRow, Progress
<1>11. RefusedForARow'
  BY <1>1, <1>2, <1>3, <1>5, <1>7
     DEF RefusedForARow, Refusal, Taken, WalletRow, Fits
<1>12. QED
  BY <1>6, <1>7, <1>9, <1>10, <1>11

\* The INSERT of a wallet its owner does not have.
LEMMA WalletInserted ==
  ASSUME DirectoryInv, NEW r \in Requests, InsertWallet(r),
         WalletRow(req[r]) \notin wallets, ~Stranger(req[r]), Fits(req[r])
  PROVE  DirectoryInv'
<1> USE DEF DirectoryInv, InsertWallet, Answer
<1>1. /\ users \in Home /\ req \in [Requests -> Wanted]
      /\ pc \in [Requests -> {"check", "insert", "done"}]
      /\ resp \in [Requests -> {"none", "ok", "created", "rejected",
                                "denied", "error", "lost"}]
      /\ \A q \in Requests : req[q] \in Payload
  BY RequestTypes
<1>2. \A q \in Requests : /\ req[q].email \in Emails
                          /\ req[q].stack \in Stacks
                          /\ req[q].currency \in Currencies
                          /\ req[q].name \in Names
  BY <1>1, RowTypes
<1>3. /\ wallets' = wallets \cup {WalletRow(req[r])}
      /\ req' = req /\ users' = users
      /\ pc' = [pc EXCEPT ![r] = "done"]
      /\ resp' = [resp EXCEPT ![r] = "created"]
      /\ req[r].kind = "wallet" /\ pc[r] = "insert"
  OBVIOUS
<1> HIDE DEF InsertWallet, Answer
<1>4. /\ \A e : Registered(e)' <=> Registered(e)
      /\ \A q \in Requests : WalletRow(req[q])' = WalletRow(req[q])
      /\ \A q \in Requests : EmailRow(req[q])' = EmailRow(req[q])
  BY <1>3 DEF Registered, WalletRow, EmailRow
<1>5. TypeOK'
  <2>1. req[r].email \in Owners
    BY <1>2, <1>3 DEF Progress, AtHome, Owners, Registered, Stacks
  <2>2. WalletRow(req[r]) \in Owners \X Codes \X (Names \ TooLong)
    BY <1>2, <1>3, <2>1 DEF WalletRow, Codes, Fits
  <2>3. Owners' = Owners
    BY <1>4 DEF Owners
  <2>4. QED
    BY <1>1, <1>3, <2>2, <2>3 DEF TypeOK
<1>6. Progress'
  BY <1>1, <1>3, <1>4 DEF Progress, AtHome, Stranger, Fits
<1>7. ASSUME NEW q \in Requests, resp'[q] = "created"
      PROVE  /\ Taken(req[q])'
             /\ req[q].kind = "register" =>
                  users'[EmailRow(req[q])] = req[q].stack
             /\ \A s \in Requests : (s # q /\ resp'[s] = "created") =>
                  ~SameRow(req[q], req[s])
  <2>1. CASE q = r
    BY <1>1, <1>3, <1>4, <2>1 DEF Created, Taken, SameRow
  <2>2. CASE q # r
    BY <1>1, <1>3, <1>4, <1>7, <2>2 DEF Created, Taken, SameRow
  <2>3. QED
    BY <2>1, <2>2
<1>8. Created'
  BY <1>3, <1>4, <1>7 DEF Created, SameRow, EmailRow, WalletRow
<1>9. HaveCreators'
  BY <1>1, <1>3, <1>4 DEF HaveCreators, Creator, Progress
<1>10. RefusedForARow'
  BY <1>1, <1>3, <1>4 DEF RefusedForARow, Refusal, Taken, Stranger, Fits
<1>11. QED
  BY <1>5, <1>6, <1>8, <1>9, <1>10

LEMMA DirectoryStep ==
  ASSUME DirectoryInv, [Next]_vars
  PROVE  DirectoryInv'
<1> USE DEF Answer, Proceed
<1>1. ASSUME NEW r \in Requests, pc[r] # "done"
      PROVE  /\ resp[r] = "none"
             /\ resp = [resp EXCEPT ![r] = "none"]
  BY <1>1, RequestTypes DEF DirectoryInv, Progress
<1>2. ASSUME NEW r \in Requests, CheckEmail(r)
      PROVE  DirectoryInv'
  <2> DEFINE refused == \/ Registered(req[r].email)
                        \/ req[r].stack = "django" /\ ~Fits(req[r])
  <2>1. CASE refused
    BY <1>1, <1>2, <2>1, AnswerStep DEF CheckEmail, Refusal
  <2>2. CASE ~refused
    BY <1>1, <1>2, <2>2, AnswerStep DEF CheckEmail
  <2>3. QED
    BY <2>1, <2>2
<1>3. ASSUME NEW r \in Requests, InsertUser(r)
      PROVE  DirectoryInv'
  <2>1. CASE Registered(EmailRow(req[r])) \/ ~Fits(req[r])
    <3>1. req[r].stack = "dotnet" \/ Fits(req[r])
      BY <1>3, RequestTypes, RowTypes
         DEF InsertUser, DirectoryInv, Progress, Stacks
    <3>2. QED
      BY <1>1, <1>3, <2>1, <3>1, AnswerStep DEF InsertUser, Refusal, Taken
  <2>2. QED
    BY <1>3, <2>1, UserInserted
<1>4. ASSUME NEW r \in Requests, Login(r)
      PROVE  DirectoryInv'
  <2>1. PICK a \in {"ok", "error", "denied"} : Answer(r, a)
    BY <1>4 DEF Login
  <2>2. QED
    BY <1>1, <1>4, <2>1, AnswerStep DEF Login
<1>5. ASSUME NEW r \in Requests, NotAuthenticated(r) \/ Crash(r) \/ LoseAnswer(r)
      PROVE  DirectoryInv'
  <2>1. CASE NotAuthenticated(r)
    BY <1>1, <2>1, AnswerStep DEF NotAuthenticated
  <2>2. CASE Crash(r)
    BY <1>1, <2>2, AnswerStep DEF Crash
  <2>3. CASE LoseAnswer(r)
    BY <2>3, AnswerStep DEF LoseAnswer
  <2>4. QED
    BY <1>5, <2>1, <2>2, <2>3
<1>6. ASSUME NEW r \in Requests, CheckWallet(r)
      PROVE  DirectoryInv'
  <2> DEFINE refused == \/ AtHome(req[r]) /\ WalletRow(req[r]) \in wallets
                        \/ req[r].stack = "django" /\ ~Fits(req[r])
  <2>1. CASE refused
    BY <1>1, <1>6, <2>1, AnswerStep DEF CheckWallet, Refusal, Taken
  <2>2. CASE ~refused
    BY <1>1, <1>6, <2>2, AnswerStep DEF CheckWallet
  <2>3. QED
    BY <2>1, <2>2
<1>7. ASSUME NEW r \in Requests, InsertWallet(r)
      PROVE  DirectoryInv'
  <2>1. CASE WalletRow(req[r]) \in wallets \/ Stranger(req[r]) \/ ~Fits(req[r])
    <3>1. req[r].stack = "dotnet" \/ (Fits(req[r]) /\ ~Stranger(req[r]))
      BY <1>7, RequestTypes, RowTypes
         DEF InsertWallet, DirectoryInv, Progress, Stacks, Stranger
    <3>2. QED
      BY <1>1, <1>7, <2>1, <3>1, AnswerStep DEF InsertWallet, Refusal, Taken
  <2>2. QED
    BY <1>7, <2>1, WalletInserted
<1>8. CASE UNCHANGED vars
  BY <1>8 DEF vars, DirectoryInv, TypeOK, Progress, Created, HaveCreators,
              RefusedForARow, Taken, SameRow, Creator, Refusal, Registered,
              EmailRow, WalletRow, Owners, AtHome, Stranger, Fits
<1>9. QED
  BY <1>2, <1>3, <1>4, <1>5, <1>6, <1>7, <1>8 DEF Next, Quiescent

LEMMA DirectoryInvHolds == Spec => []DirectoryInv
BY InitDirectory, DirectoryStep, PTL DEF Spec

-----------------------------------------------------------------------------
(* What follows.                                                           *)

\* Users and wallets keep their types: every wallet has a registered owner and
\* an upper-case currency, and no row holds what its columns are too short for.
THEOREM DirectoryTypes == Spec => []TypeOK
BY DirectoryInvHolds, PTL DEF DirectoryInv

\* A row of users is never a row of wallets.
LEMMA RowsOfKinds ==
  ASSUME NEW a, NEW b, NEW c, NEW d
  PROVE  <<a>> # <<b, c, d>>
<1>1. Len(<<a>>) = 1 /\ Len(<<b, c, d>>) = 3
  OBVIOUS
<1>2. QED
  BY <1>1

LEMMA TakenIsInRows ==
  ASSUME DirectoryInv, NEW r \in Requests, Taken(req[r])
  PROVE  RowOf(req[r]) \in Rows
BY RequestTypes, RowTypes DEF DirectoryInv, Taken, RowOf, Rows, Owners

\* The unique indexes decide the races of check and insert: no two requests
\* are told 201 for one row, a 201 means that the row exists, and every row has
\* a creator that was told so or lost its answer.
THEOREM OneCreator == Spec => []OneCreatorPerRow
<1>1. ASSUME DirectoryInv PROVE OneCreatorPerRow
  <2>1. ASSUME NEW r \in Creations, NEW s \in Creations,
               r # s, resp[r] = "created", resp[s] = "created"
        PROVE  RowOf(req[r]) # RowOf(req[s])
    <3>1. ~SameRow(req[r], req[s])
      BY <1>1, <2>1 DEF DirectoryInv, Created, Creations
    <3>2. req[r].kind \in {"register", "wallet"} /\ req[s].kind \in {"register", "wallet"}
      BY <1>1, RequestTypes, RowTypes DEF Creations, Kinds, DirectoryInv
    <3>3. CASE req[r].kind = req[s].kind
      BY <3>1, <3>2, <3>3 DEF SameRow, RowOf
    <3>4. CASE req[r].kind # req[s].kind
      BY <3>2, <3>4, RowsOfKinds DEF RowOf, WalletRow
    <3>5. QED
      BY <3>3, <3>4
  <2>2. \A r \in Creations : resp[r] = "created" => RowOf(req[r]) \in Rows
    BY <1>1, TakenIsInRows DEF DirectoryInv, Created, Creations
  <2>3. ASSUME NEW row \in Rows
        PROVE  \E r \in Creations :
                 RowOf(req[r]) = row /\ resp[r] \in {"created", "lost"}
    BY <1>1, <2>3
       DEF DirectoryInv, HaveCreators, Creator, Creations, Rows, RowOf, Owners
  <2>4. QED
    BY <2>1, <2>2, <2>3 DEF OneCreatorPerRow
<1>2. QED
  BY <1>1, DirectoryInvHolds, PTL

\* While PostgreSQL answers, no creation is refused or fails but for a row that
\* exists, an email that is a row as typed, a length, or a token of Django used
\* on the .NET API.
THEOREM RefusalsAreFounded == Spec => []RefusedForCause
<1>1. ASSUME DirectoryInv PROVE RefusedForCause
  <2>1. ASSUME NEW r \in Creations, resp[r] \in {"error", "rejected"}
        PROVE  Cause(req[r], resp[r])
    <3>1. r \in Requests /\ Refusal(req[r], resp[r])
      BY <1>1, <2>1 DEF DirectoryInv, RefusedForARow, Creations
    <3>2. QED
      BY <1>1, <3>1, TakenIsInRows DEF Refusal, Cause
  <2>2. QED
    BY <2>1 DEF RefusedForCause
<1>2. QED
  BY <1>1, DirectoryInvHolds, PTL

\* Who was told 201 by a stack can log in there with the email of the answer.
THEOREM RegisteredCanLogIn == Spec => LoginSeesRegistration
<1>1. ASSUME DirectoryInv, [Next]_vars,
             NEW r \in Requests, NEW s \in Requests, Disowns(r, s)
      PROVE  FALSE
  <2>1. resp \in [Requests -> {"none", "ok", "created", "rejected",
                               "denied", "error", "lost"}]
    BY <1>1, RequestTypes DEF DirectoryInv
  <2>2. users[EmailRow(req[r])] = req[r].stack
    BY <1>1 DEF DirectoryInv, Created, Disowns
  <2>3. ~AtHome(req[s])
    BY <1>1, <2>1
       DEF Next, CheckEmail, InsertUser, Login, NotAuthenticated, CheckWallet,
           InsertWallet, Crash, LoseAnswer, Quiescent, Answer, Proceed, vars,
           Disowns
  <2>4. QED
    BY <1>1, <2>2, <2>3 DEF AtHome, Disowns
<1>2. DirectoryInv /\ [Next]_vars => [KnowsItsUsers]_vars
  BY <1>1 DEF KnowsItsUsers
<1>3. QED
  BY <1>2, DirectoryInvHolds, PTL DEF Spec, LoginSeesRegistration

=============================================================================
