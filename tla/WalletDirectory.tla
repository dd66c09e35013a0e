-------------------------- MODULE WalletDirectory --------------------------
(***************************************************************************)
(* Registration, login and wallet creation on both stacks, which share the  *)
(* tables user_user and wallet_wallet.  Every creation first asks whether   *)
(* its row exists and then inserts it, with no lock between the two; the    *)
(* unique indexes decide.  Rows are never deleted.  Each stack hashes       *)
(* passwords in a form of its own, so a user can log in, and gets tokens,    *)
(* only where the row was registered.  Both sign tokens with one key, but    *)
(* each puts the user's id in a claim of its own.                           *)
(***************************************************************************)
EXTENDS FiniteSets

CONSTANTS
  Emails,      \* emails as typed
  Normalize,   \* BaseUserManager.normalize_email: the domain in lower case
  Currencies,  \* currency codes as typed
  Upper,       \* their upper-case form
  Names,       \* names of wallets, or of users
  TooLong,     \* what is longer than its column
  Requests,
  Wanted       \* what the requests may ask for

Kinds == {"register", "login", "wallet"}
Stacks == {"django", "dotnet"}
Payload == [kind : Kinds, stack : Stacks, email : Emails,
            currency : Currencies, name : Names]

ASSUME DirectoryAssumption ==
  /\ Normalize \in [Emails -> Emails]
  /\ \A e \in Emails : Normalize[Normalize[e]] = Normalize[e]
  /\ Upper \in [Currencies -> Currencies]
  /\ \A c \in Currencies : Upper[Upper[c]] = Upper[c]
  /\ \A e \in Emails : Normalize[e] \in TooLong <=> e \in TooLong
  /\ Wanted \subseteq Payload

VARIABLES
  users,    \* the emails of user_user, and who hashed the password of each
  wallets,  \* <<email of the owner, currency, name>> of wallet_wallet
  req, pc, resp

vars == <<users, wallets, req, pc, resp>>

\* The row a request asks for: Django stores the normalized email of a user,
\* the .NET API the email as it was typed; both store the currency in upper
\* case.
EmailRow(p) == IF p.stack = "django" THEN Normalize[p.email] ELSE p.email
Home == [Emails -> Stacks \cup {"none"}]
Registered(e) == users[e] # "none"
AtHome(p) == users[p.email] = p.stack
WalletRowAsTyped(p) == <<p.email, p.currency, p.name>>
WalletRow(p) == <<p.email, Upper[p.currency], p.name>>

Fits(p) ==
  /\ p.name \notin TooLong
  /\ p.kind = "register" => p.email \notin TooLong
  /\ p.kind = "wallet" => p.currency \notin TooLong

\* What the two tables may hold, given the lengths of their columns.
Owners == {e \in Emails : Registered(e)}
Codes == {Upper[c] : c \in Currencies \ TooLong}

\* "lost": no answer, or a 500 that only says that PostgreSQL is gone.
TypeOK ==
  /\ users \in Home
  /\ Owners \cap TooLong = {}
  /\ wallets \subseteq Owners \X Codes \X (Names \ TooLong)
  /\ req \in [Requests -> Wanted]
  /\ pc \in [Requests -> {"check", "insert", "done"}]
  /\ resp \in [Requests -> {"none", "ok", "created", "rejected", "denied",
                            "error", "lost"}]

Init ==
  /\ users = [e \in Emails |-> "none"]
  /\ wallets = {}
  /\ req \in [Requests -> Wanted]
  /\ pc = [r \in Requests |-> "check"]
  /\ resp = [r \in Requests |-> "none"]

Answer(r, answer) ==
  /\ pc' = [pc EXCEPT ![r] = "done"]
  /\ resp' = [resp EXCEPT ![r] = answer]

Proceed(r) ==
  /\ pc' = [pc EXCEPT ![r] = "insert"]
  /\ UNCHANGED resp

-----------------------------------------------------------------------------
(* Registration.  Both stacks look for the email as typed; the serializer of *)
(* Django also checks the lengths, the .NET API leaves them to the columns.  *)

CheckEmailNormalized(r) ==
  /\ pc[r] = "check"
  /\ req[r].kind = "register"
  /\ IF \/ Registered(Normalize[req[r].email])
        \/ req[r].stack = "django" /\ ~Fits(req[r])
     THEN Answer(r, "rejected") ELSE Proceed(r)
  /\ UNCHANGED <<users, wallets, req>>
CheckEmail(r) ==
  /\ pc[r] = "check"
  /\ req[r].kind = "register"
  /\ IF \/ Registered(req[r].email)
        \/ req[r].stack = "django" /\ ~Fits(req[r])
     THEN Answer(r, "rejected") ELSE Proceed(r)
  /\ UNCHANGED <<users, wallets, req>>

\* A 201 carries the tokens; what the unique index or a column refuses is an
\* unhandled exception.
InsertUserUnchecked(r) ==
  /\ pc[r] = "insert"
  /\ req[r].kind = "register"
  /\ users' = [users EXCEPT ![EmailRow(req[r])] = req[r].stack]
  /\ Answer(r, "created")
  /\ UNCHANGED <<wallets, req>>
InsertUserNotAwaited(r) ==
  /\ pc[r] = "insert"
  /\ req[r].kind = "register"
  /\ Answer(r, "created")
  /\ UNCHANGED <<users, wallets, req>>
InsertUser(r) ==
  /\ pc[r] = "insert"
  /\ req[r].kind = "register"
  /\ IF Registered(EmailRow(req[r])) \/ ~Fits(req[r])
     THEN users' = users /\ Answer(r, "error")
     ELSE /\ users' = [users EXCEPT ![EmailRow(req[r])] = req[r].stack]
          /\ Answer(r, "created")
  /\ UNCHANGED <<wallets, req>>

\* Both stacks look the email up as typed; the right password is given.  To
\* Django a .NET hash is one of no known algorithm (401); the .NET hasher
\* throws on a Django hash, which is not base64 (500).
Login(r) ==
  /\ pc[r] = "check"
  /\ req[r].kind = "login"
  /\ Answer(r, IF AtHome(req[r]) THEN "ok"
               ELSE IF Registered(req[r].email) /\ req[r].stack = "dotnet"
               THEN "error" ELSE "denied")
  /\ UNCHANGED <<users, wallets, req>>

-----------------------------------------------------------------------------
(* Wallet creation, with the token of a user.                               *)

\* A token of Django passes [Authorize] of the .NET API, which checks nothing
\* but signature and lifetime; but it lacks the claim that CurrentUserId reads,
\* so its user is the empty id there, which no row has.
Stranger(p) ==
  p.kind = "wallet" /\ p.stack = "dotnet" /\ users[p.email] = "django"

\* Django refuses a token of the .NET API: it has no token_type.
NotAuthenticated(r) ==
  /\ pc[r] = "check"
  /\ req[r].kind = "wallet"
  /\ ~AtHome(req[r]) /\ ~Stranger(req[r])
  /\ Answer(r, "denied")
  /\ UNCHANGED <<users, wallets, req>>

\* The empty id has no wallets; the lengths are checked as in registration.
CheckWallet(r) ==
  /\ pc[r] = "check"
  /\ req[r].kind = "wallet"
  /\ AtHome(req[r]) \/ Stranger(req[r])
  /\ IF \/ AtHome(req[r]) /\ WalletRow(req[r]) \in wallets
        \/ req[r].stack = "django" /\ ~Fits(req[r])
     THEN Answer(r, "rejected") ELSE Proceed(r)
  /\ UNCHANGED <<users, wallets, req>>

\* The unique index, the foreign key or a column may refuse the row.
InsertWallet(r) ==
  /\ pc[r] = "insert"
  /\ req[r].kind = "wallet"
  /\ IF WalletRow(req[r]) \in wallets \/ Stranger(req[r]) \/ ~Fits(req[r])
     THEN wallets' = wallets /\ Answer(r, "error")
     ELSE wallets' = wallets \cup {WalletRow(req[r])} /\ Answer(r, "created")
  /\ UNCHANGED <<users, req>>

-----------------------------------------------------------------------------
\* The worker dies, or its connection to PostgreSQL does, before the row is in.
Crash(r) ==
  /\ pc[r] # "done"
  /\ Answer(r, "lost")
  /\ UNCHANGED <<users, wallets, req>>

\* The row is in the table, but the worker or a connection dies before the
\* answer is out.
LoseAnswer(r) ==
  /\ resp[r] = "created"
  /\ Answer(r, "lost")
  /\ UNCHANGED <<users, wallets, req>>

Quiescent ==
  /\ \A r \in Requests : pc[r] = "done"
  /\ UNCHANGED vars

Next ==
  \/ \E r \in Requests :
       \/ CheckEmail(r) \/ InsertUser(r) \/ Login(r)
       \/ NotAuthenticated(r) \/ CheckWallet(r) \/ InsertWallet(r)
       \/ Crash(r) \/ LoseAnswer(r)
  \/ Quiescent

Spec == Init /\ [][Next]_vars

-----------------------------------------------------------------------------
(* Properties.                                                             *)

RowOf(p) == IF p.kind = "register" THEN <<EmailRow(p)>> ELSE WalletRow(p)
Rows == {<<e>> : e \in Owners} \cup wallets
Creations == {r \in Requests : req[r].kind # "login"}

\* user/models.py, wallet/models.py and AppDbContext.cs: check and insert
\* race, but each row has one creator.  No two requests are told 201 for one
\* row, who is told 201 finds the row, and each row was created by a request
\* that was told so or whose answer was lost.
OneCreatorPerRow ==
  /\ \A r, s \in Creations :
       (r # s /\ resp[r] = "created" /\ resp[s] = "created")
         => RowOf(req[r]) # RowOf(req[s])
  /\ \A r \in Creations : resp[r] = "created" => RowOf(req[r]) \in Rows
  /\ \A row \in Rows :
       \E r \in Creations : RowOf(req[r]) = row /\ resp[r] \in {"created", "lost"}

Cause(p, answer) ==
  \/ RowOf(p) \in Rows
  \/ answer = "rejected" /\ p.kind = "register" /\ Registered(p.email)
  \/ answer = "rejected" /\ p.stack = "django" /\ ~Fits(p)
  \/ answer = "error" /\ p.stack = "dotnet" /\ (~Fits(p) \/ Stranger(p))

\* As long as PostgreSQL answers, a creation is refused (400) or fails (500)
\* for a cause: its row exists; or the email as typed is one of the rows; or
\* something is too long, a 400 of Django and a 500 of the .NET API; or a token
\* of Django was used on the .NET API, a 500 of the foreign key.  So a 500 of
\* Django is always a lost race, and a 400 of .NET always a row that exists.
RefusedForCause ==
  \A r \in Creations :
    resp[r] \in {"error", "rejected"} => Cause(req[r], resp[r])

\* A login with the email that a 201 carried is accepted by the stack that
\* sent the 201.
Disowns(r, s) ==
  /\ req[s].kind = "login" /\ resp[s] = "none"
  /\ resp'[s] \in {"denied", "error"}
  /\ req[r].kind = "register" /\ resp[r] = "created"
  /\ req[r].stack = req[s].stack
  /\ EmailRow(req[r]) = req[s].email

KnowsItsUsers == \A r, s \in Requests : ~Disowns(r, s)
LoginSeesRegistration == [][KnowsItsUsers]_vars

=============================================================================
