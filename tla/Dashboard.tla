----------------------------- MODULE Dashboard -----------------------------
(***************************************************************************)
(* The React dashboard (App.jsx) in one browser: its state, the effects that *)
(* fetch when the state changes, the handlers, and the calls in flight to    *)
(* the Django API.  A handler goes on after its await with the values its    *)
(* closure captured when it was called.  A wallet's data is the number of    *)
(* its ledger entries: balance and history change together.  The history is  *)
(* not paginated by the API, so the page stays 1.                            *)
(***************************************************************************)
EXTENDS Naturals, SequencesExt

CONSTANTS
  Users, NoUser,
  Wallets, NoWallet,
  Owner,       \* the user of each wallet
  Existing,    \* each user's wallets at the start, the newest first
  MaxCalls,    \* bound: calls in flight
  MaxForms,    \* bound: posting forms opened
  MaxPostings  \* bound: postings committed

ASSUME DashboardAssumption ==
  /\ NoUser \notin Users
  /\ NoWallet \notin Wallets
  /\ Owner \in [Wallets -> Users]
  /\ Existing \in [Users -> Seq(Wallets)]
  /\ \A u \in Users : /\ IsInjective(Existing[u])
                       /\ \A w \in ToSet(Existing[u]) : Owner[w] = u
  /\ MaxCalls \in Nat \ {0} /\ {MaxForms, MaxPostings} \subseteq Nat

VARIABLES
  token,    \* whose token is in the state and in localStorage
  user,     \* the profile shown
  shown,    \* wallets listed, as [id, entries]
  active,   \* activeWallet
  rows,     \* transactions: the history shown, as [wallet, entries]
  tab,      \* activeTab
  form,     \* the open modal
  blank,    \* rendering has thrown and React has unmounted the page
  calls,    \* calls in flight, in the order they were sent
  stored,   \* each user's wallets in the database, the newest first
  entries,  \* ledger entries of each wallet in the database
  posted,   \* the postings committed, by the form they were typed in
  forms,    \* number of posting forms opened
  calm      \* no reply so far was late, lost or denied

page == <<token, user, shown, active, rows, tab, form, blank>>
database == <<stored, entries, posted>>
vars == <<page, calls, database, forms, calm>>

NoRows == [wallet |-> NoWallet, entries |-> 0]
Closed == [kind |-> "none", id |-> 0, wallet |-> NoWallet, refreshing |-> FALSE]
Unserved == [status |-> "none", wallets |-> <<>>, rows |-> NoRows]

\* A call carries the token and the activeWallet of the render it was sent
\* from; arg is the user who logs in or the wallet that is asked for.
Call(kind, t, a, f, arg, to) ==
  [kind |-> kind, token |-> t, active |-> a, form |-> f,
   arg |-> arg, to |-> to, reply |-> Unserved]
Login(u) == Call("login", NoUser, NoWallet, Closed, u, NoWallet)
Me(t) == Call("me", t, NoWallet, Closed, NoWallet, NoWallet)
FetchWallets(t, a) == Call("wallets", t, a, Closed, NoWallet, NoWallet)
FetchTransactions(t, w) == Call("history", t, w, Closed, w, NoWallet)

Stored(w) == w \in ToSet(stored[Owner[w]])
List(u) == [i \in DOMAIN stored[u] |->
              [id |-> stored[u][i], entries |-> entries[stored[u][i]]]]
Listed == {shown[i].id : i \in DOMAIN shown}
InFlight(kinds) == \E i \in DOMAIN calls : calls[i].kind \in kinds

TypeOK ==
  /\ token \in Users \cup {NoUser}
  /\ user \in Users \cup {NoUser}
  /\ (calm /\ user # NoUser) => user = token
  /\ (calm /\ active # NoWallet) => Owner[active] = token
  /\ \A w \in Listed : Stored(w)
  /\ active \in Wallets \cup {NoWallet}
  /\ rows.wallet # NoWallet => rows.entries <= entries[rows.wallet]
  /\ tab \in {"dashboard", "transactions"}
  /\ form.kind \in {"none", "post", "create"}
  /\ Len(calls) <= MaxCalls
  /\ stored \in [Users -> Seq(Wallets)]
  /\ \A u \in Users : /\ IsInjective(stored[u])
                       /\ \A w \in ToSet(stored[u]) : Owner[w] = u
  /\ forms \in 0 .. MaxForms
  /\ Len(posted) <= MaxPostings

Init ==
  /\ token = NoUser /\ user = NoUser
  /\ shown = <<>> /\ active = NoWallet /\ rows = NoRows
  /\ tab = "dashboard" /\ form = Closed
  /\ blank = FALSE
  /\ calls = <<>>
  /\ stored = Existing
  /\ entries = [w \in Wallets |-> 0]
  /\ posted = <<>>
  /\ forms = 0
  /\ calm = TRUE

-----------------------------------------------------------------------------
(* What every update of the page ends with.                                 *)

\* The dashboard tab takes a substring of the reference of each history row,
\* but a row of WalletHistoryView has its reference one level down.
Render ==
  blank' = \/ blank
           \/ /\ token' # NoUser /\ active' # NoWallet
              /\ tab' = "dashboard" /\ rows'.entries > 0

\* The calls left over, and those the handler and the effects send.
Send(rest, more) ==
  /\ Len(rest \o more) <= MaxCalls
  /\ calls' = rest \o more

\* The effect on [user, activeWallet, txPage, txSearch], when one changed.
HistoryEffect(t, u, w) ==
  IF t # NoUser /\ u # NoUser /\ w # NoWallet
  THEN <<FetchTransactions(t, w)>> ELSE <<>>

-----------------------------------------------------------------------------
(* Handlers, up to their first await.                                       *)

Visible == ~blank /\ token # NoUser
Clickable == Visible /\ form = Closed

\* handleLogin and handleRegister.
SignIn(u) ==
  /\ ~blank /\ token = NoUser
  /\ Send(calls, <<Login(u)>>)
  /\ UNCHANGED <<page, database, forms, calm>>

Select(w) ==
  /\ Clickable /\ tab = "dashboard"
  /\ w \in Listed /\ w # active
  /\ active' = w
  /\ Send(calls, HistoryEffect(token, user, w))
  /\ UNCHANGED <<token, user, shown, rows, tab, form, database, forms, calm>>
  /\ Render

\* The Deposit, Withdraw and Send Money buttons of a wallet card.
OpenWithoutSelecting(w) ==
  /\ Clickable /\ tab = "dashboard"
  /\ w \in Listed
  /\ forms < MaxForms
  /\ forms' = forms + 1
  /\ form' = [kind |-> "post", id |-> forms', wallet |-> w,
              refreshing |-> InFlight({"login", "me", "wallets"})]
  /\ calls' = calls
  /\ UNCHANGED <<token, user, shown, active, rows, tab, database, calm>>
  /\ Render
Open(w) ==
  /\ Clickable /\ tab = "dashboard"
  /\ w \in Listed
  /\ forms < MaxForms
  /\ forms' = forms + 1
  /\ form' = [kind |-> "post", id |-> forms', wallet |-> w,
              refreshing |-> InFlight({"login", "me", "wallets"})]
  /\ active' = w
  /\ Send(calls, IF w = active THEN <<>> ELSE HistoryEffect(token, user, w))
  /\ UNCHANGED <<token, user, shown, rows, tab, database, calm>>
  /\ Render

OpenCreate ==
  /\ Clickable /\ tab = "dashboard"
  /\ form' = [Closed EXCEPT !.kind = "create"]
  /\ UNCHANGED <<token, user, shown, active, rows, tab, blank,
                 calls, database, forms, calm>>

Close ==
  /\ Visible /\ form # Closed
  /\ form' = Closed
  /\ UNCHANGED <<token, user, shown, active, rows, tab, blank,
                 calls, database, forms, calm>>

\* handleDeposit, handleWithdraw and handleTransfer, whose recipient is "to".
\* The form stays open, and its button enabled, until the reply.
Submit(to) ==
  /\ Visible /\ form.kind = "post"
  /\ active # NoWallet
  /\ Send(calls, <<Call("post", token, active, form, active, to)>>)
  /\ UNCHANGED <<page, database, forms, calm>>

SubmitCreate(w) ==
  /\ Visible /\ form.kind = "create"
  /\ Send(calls, <<Call("create", token, active, form, w, NoWallet)>>)
  /\ UNCHANGED <<page, database, forms, calm>>

\* The Dashboard and History tabs.
Tab(t) ==
  /\ Clickable /\ t # tab
  /\ tab' = t
  /\ UNCHANGED <<token, user, shown, active, rows, form,
                 calls, database, forms, calm>>
  /\ Render

\* Typing into the search box of the history; the API ignores the query.
Search ==
  /\ Clickable /\ tab = "transactions" /\ active # NoWallet
  /\ Send(calls, HistoryEffect(token, user, active))
  /\ UNCHANGED <<page, database, forms, calm>>

\* handleLogout: the modal and the tab stay.
SignedOutKeepingUser ==
  /\ token' = NoUser
  /\ shown' = <<>> /\ active' = NoWallet /\ rows' = NoRows
  /\ UNCHANGED <<user, tab, form, blank>>
SignedOut ==
  /\ token' = NoUser /\ user' = NoUser
  /\ shown' = <<>> /\ active' = NoWallet /\ rows' = NoRows
  /\ UNCHANGED <<tab, form, blank>>

Logout ==
  /\ Clickable
  /\ SignedOut
  /\ UNCHANGED <<calls, database, forms, calm>>

\* The browser loads the page anew: only the token survives.  A call that was
\* not served yet is as good as never sent.
Reload ==
  /\ user' = NoUser
  /\ shown' = <<>> /\ active' = NoWallet /\ rows' = NoRows
  /\ tab' = "dashboard" /\ form' = Closed /\ blank' = FALSE
  /\ calls' = IF token = NoUser THEN <<>> ELSE <<Me(token)>>
  /\ calm' = ~InFlight({"post", "create"})
  /\ UNCHANGED <<token, database, forms>>

-----------------------------------------------------------------------------
(* The server.  Only this browser writes.                                   *)

Answer(i, reply) == calls' = [calls EXCEPT ![i].reply = reply]
Waiting(i) == i <= Len(calls) /\ calls[i].reply = Unserved
Ok == [Unserved EXCEPT !.status = "ok"]

\* WalletListCreateView and WalletHistoryView show a user's own wallets only.
ServeRead(i) ==
  LET c == calls[i] IN
  /\ Waiting(i) /\ c.kind \in {"login", "me", "wallets", "history"}
  /\ Answer(i, CASE c.kind = "wallets" -> [Ok EXCEPT !.wallets = List(c.token)]
                 [] c.kind = "history" ->
                      [Ok EXCEPT !.rows =
                         [wallet |-> c.arg,
                          entries |-> IF Owner[c.arg] = c.token
                                      THEN entries[c.arg] ELSE 0]]
                 [] OTHER -> Ok)
  /\ UNCHANGED <<page, database, forms, calm>>

\* Every submit has a key of its own, so each one is posted.
ServePost(i) ==
  LET c == calls[i]
      touched == {c.arg, c.to} \ {NoWallet} IN
  /\ Waiting(i) /\ c.kind = "post"
  /\ Owner[c.arg] = c.token
  /\ c.to # c.arg /\ \A w \in touched : Stored(w)
  /\ Len(posted) < MaxPostings
  /\ entries' = [w \in Wallets |-> IF w \in touched THEN entries[w] + 1
                                                     ELSE entries[w]]
  /\ posted' = Append(posted, [form |-> c.form, wallet |-> c.arg])
  /\ Answer(i, Ok)
  /\ UNCHANGED <<page, stored, forms, calm>>

ServeCreate(i) ==
  LET c == calls[i] IN
  /\ Waiting(i) /\ c.kind = "create"
  /\ Owner[c.arg] = c.token
  /\ ~Stored(c.arg)
  /\ stored' = [stored EXCEPT ![c.token] = <<c.arg>> \o @]
  /\ Answer(i, Ok)
  /\ UNCHANGED <<page, entries, posted, forms, calm>>

\* A wrong password, an expired token, or a posting or wallet that is refused.
Deny(i) ==
  /\ Waiting(i)
  /\ Answer(i, [Unserved EXCEPT !.status = "denied"])
  /\ UNCHANGED <<page, database, forms, calm>>

-----------------------------------------------------------------------------
(* Handlers, from their await on.                                           *)

Rest(i) == RemoveAt(calls, i)
Arrived(i, kinds, status) ==
  /\ ~blank
  /\ i <= Len(calls)
  /\ calls[i].kind \in kinds
  /\ calls[i].reply.status = status

\* Calm ends with a reply that another one has overtaken, that was asked for
\* with another token, or that leaves the page as it was.
StaysCalm(i) ==
  calm' = /\ calm
          /\ calls[i].token = token
          /\ \A j \in 1 .. i - 1 : calls[j].kind # calls[i].kind
          /\ ~(calls[i].kind \in {"wallets", "history"}
                /\ calls[i].reply.status = "denied")

LoggedIn(i) ==
  /\ Arrived(i, {"login"}, "ok")
  /\ token' = calls[i].arg
  /\ Send(Rest(i), <<Me(token')>>)
  /\ UNCHANGED <<user, shown, active, rows, tab, form, database, forms>>
  /\ StaysCalm(i) /\ Render

GotProfile(i) ==
  /\ Arrived(i, {"me"}, "ok")
  /\ user' = calls[i].token
  /\ Send(Rest(i), IF token = NoUser THEN <<>>
                    ELSE <<FetchWallets(token, active)>>
                         \o HistoryEffect(token, user', active))
  /\ UNCHANGED <<token, shown, active, rows, tab, form, blank, database, forms>>
  /\ StaysCalm(i)

ProfileRefused(i) ==
  /\ Arrived(i, {"me"}, "denied")
  /\ SignedOut
  /\ calls' = Rest(i)
  /\ UNCHANGED <<database, forms>>
  /\ StaysCalm(i)

\* The wallet to select is the one that was active when the call was sent.
GotWallets(i) ==
  LET c == calls[i]
      data == c.reply.wallets
      chosen == IF data = <<>> THEN {}
                ELSE IF c.active = NoWallet THEN {data[1].id}
                ELSE {c.active} \cap {data[j].id : j \in DOMAIN data} IN
  /\ Arrived(i, {"wallets"}, "ok")
  /\ shown' = data
  /\ active' \in IF chosen = {} THEN {active} ELSE chosen
  /\ Send(Rest(i), IF chosen = {} THEN <<>>
                    ELSE HistoryEffect(token, user, active'))
  /\ UNCHANGED <<token, user, rows, tab, form, database, forms>>
  /\ StaysCalm(i) /\ Render

GotTransactions(i) ==
  /\ Arrived(i, {"history"}, "ok")
  /\ rows' = calls[i].reply.rows
  /\ calls' = Rest(i)
  /\ UNCHANGED <<token, user, shown, active, tab, form, database, forms>>
  /\ StaysCalm(i) /\ Render

\* Whichever form is open now is closed, and the wallets are fetched with the
\* token and the active wallet of the submit.
DoneWithoutRefresh(i) ==
  /\ Arrived(i, {"post", "create"}, "ok")
  /\ form' = Closed
  /\ calls' = Rest(i)
  /\ UNCHANGED <<token, user, shown, active, rows, tab, blank, database, forms>>
  /\ StaysCalm(i)
Done(i) ==
  /\ Arrived(i, {"post", "create"}, "ok")
  /\ form' = Closed
  /\ Send(Rest(i), <<FetchWallets(calls[i].token, calls[i].active)>>)
  /\ UNCHANGED <<token, user, shown, active, rows, tab, blank, database, forms>>
  /\ StaysCalm(i)

\* Only a toast, or no await left to go on with.
Ignored(i) ==
  /\ \/ Arrived(i, {"login", "wallets", "history", "post", "create"}, "denied")
     \/ blank /\ i <= Len(calls) /\ ~Waiting(i)
  /\ calls' = Rest(i)
  /\ UNCHANGED <<page, database, forms>>
  /\ StaysCalm(i)

\* fetch throws: the call or its reply is lost.  The 500 of a posting that was
\* committed is the same to the page: a toast, and nothing is fetched.
Lose(i) ==
  /\ i <= Len(calls)
  /\ calls' = Rest(i)
  /\ calm' = FALSE
  /\ UNCHANGED <<page, database, forms>>

-----------------------------------------------------------------------------
Next ==
  \/ \E u \in Users : SignIn(u)
  \/ \E w \in Wallets : Select(w) \/ Open(w) \/ SubmitCreate(w)
  \/ \E to \in Wallets \cup {NoWallet} : Submit(to)
  \/ OpenCreate \/ Close \/ Search \/ Logout \/ Reload
  \/ \E t \in {"dashboard", "transactions"} : Tab(t)
  \/ \E i \in 1 .. MaxCalls :
       \/ ServeRead(i) \/ ServePost(i) \/ ServeCreate(i) \/ Deny(i)
       \/ LoggedIn(i) \/ GotProfile(i) \/ ProfileRefused(i) \/ GotWallets(i)
       \/ GotTransactions(i) \/ Done(i) \/ Ignored(i) \/ Lose(i)

Spec == Init /\ [][Next]_vars

-----------------------------------------------------------------------------
(* Properties.                                                             *)

\* The chain of effects: once nothing is in flight, the page shows the user
\* the token is for, that user's wallets with all their postings, and the
\* history of the active one.  Left out are pages on which a call failed or was
\* overtaken (not "calm"), and those that have gone blank.  Signed out, the page
\* holds nothing.
SettledViewIsCurrent ==
  (calm /\ calls = <<>> /\ ~blank) =>
    IF token = NoUser
    THEN user = NoUser /\ shown = <<>> /\ active = NoWallet /\ rows = NoRows
    ELSE /\ user = token
         /\ shown = List(token)
         /\ active = NoWallet <=> shown = <<>>
         /\ active # NoWallet =>
              active \in Listed /\ rows = [wallet |-> active,
                                          entries |-> entries[active]]

\* A posting debits or credits the wallet on whose card the form was opened.
\* A list of wallets still on its way at that moment can select another one
\* under the open form: nothing else does.
PostsToOpenedWallet ==
  \A i \in DOMAIN posted :
    posted[i].wallet = posted[i].form.wallet \/ posted[i].form.refreshing

\* README line 101: "To prevent duplicate requests (e.g. from network retries
\* or client double-clicks), the API enforces unique transaction references".
OneFormOnePosting ==
  \A i, j \in DOMAIN posted :
    i # j => posted[i].form.id # posted[j].form.id

=============================================================================
