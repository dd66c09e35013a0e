---------------------------- MODULE BrowserProofs ----------------------------
(***************************************************************************)
(* For any users, wallets, contacts and bounds: the dashboard keeps its      *)
(* types, a form posts what it shows, and a page whose calls have all        *)
(* returned in order shows what the database holds.                         *)
(***************************************************************************)
EXTENDS Browser, SequenceTheorems, TLAPS

-----------------------------------------------------------------------------
(* The transfer form.                                                      *)

\* A wallet id that a suggestion filled in belongs to the recipient shown.
FormInv ==
  /\ FormTypeOK
  /\ api \in {"django", "dotnet"} /\ currency \in Currencies
  /\ open \in BOOLEAN /\ due \in BOOLEAN
  /\ origin \in {"none", "picked", "pasted", "kept"}
  /\ origin = "picked" => walletId.owner = email
  /\ \A i \in DOMAIN transfers :
       transfers[i].origin = "picked" => transfers[i].to.owner = transfers[i].email

-----------------------------------------------------------------------------
(* The types of the page.                                                  *)

Forms == [kind : {"none", "post", "create"}, id : 0 .. MaxForms,
          wallet : Wallets \cup {NoWallet}, refreshing : BOOLEAN]
Rows == [wallet : Wallets \cup {NoWallet}, entries : Nat]
Cards == [id : Wallets, entries : Nat]
Replies == [status : {"none", "ok", "denied"}, wallets : Seq(Cards), rows : Rows]
Calls == [kind : {"login", "me", "wallets", "history", "post", "create"},
          token : Users \cup {NoUser}, active : Wallets \cup {NoWallet},
          form : Forms, arg : Users \cup Wallets \cup {NoWallet},
          to : Wallets \cup {NoWallet}, reply : Replies]
Postings == [form : Forms, wallet : Wallets]

\* Who a call is from and what it is about.
Addressed(c) ==
  /\ c.kind = "login" => c.token = NoUser /\ c.arg \in Users
  /\ c.kind # "login" => c.token \in Users
  /\ c.kind \in {"history", "post", "create"} => c.arg \in Wallets

\* A reply holds what the database held when it was made, and rows and wallets
\* are never taken away.
Truthful(r, t) ==
  /\ \A j \in DOMAIN r.wallets : t \in Users /\ r.wallets[j].id \in ToSet(stored[t])
  /\ r.rows.wallet # NoWallet => r.rows.entries <= entries[r.rows.wallet]

PageTypes ==
  /\ token \in Users \cup {NoUser} /\ user \in Users \cup {NoUser}
  /\ shown \in Seq(Cards) /\ active \in Wallets \cup {NoWallet} /\ rows \in Rows
  /\ tab \in {"dashboard", "transactions"} /\ form \in Forms
  /\ blank \in BOOLEAN /\ calm \in BOOLEAN
  /\ calls \in Seq(Calls) /\ Len(calls) <= MaxCalls
  /\ stored \in [Users -> Seq(Wallets)]
  /\ \A u \in Users : /\ IsInjective(stored[u])
                      /\ \A w \in ToSet(stored[u]) : Owner[w] = u
  /\ entries \in [Wallets -> Nat]
  /\ posted \in Seq(Postings) /\ Len(posted) <= MaxPostings
  /\ forms \in 0 .. MaxForms

\* Undisturbed, a call asks for what its user has.
Belongs(w, u) == Owner[w] = u /\ Stored(w)
CallsTruth ==
  \A i \in DOMAIN calls :
    /\ Addressed(calls[i])
    /\ Truthful(calls[i].reply, calls[i].token)
    /\ calm /\ calls[i].active # NoWallet => Belongs(calls[i].active, calls[i].token)

PageTruth ==
  /\ \A w \in Listed : Stored(w)
  /\ rows.wallet # NoWallet => rows.entries <= entries[rows.wallet]

\* Undisturbed, everything on the page is of the user whose token it is.
Calm ==
  calm =>
    /\ token = NoUser => /\ user = NoUser /\ shown = <<>>
                         /\ active = NoWallet /\ rows = NoRows
    /\ user # NoUser => user = token
    /\ active # NoWallet => Belongs(active, token)
    /\ \A w \in Listed : Owner[w] = token

PageInv == PageTypes /\ CallsTruth /\ PageTruth /\ Calm

-----------------------------------------------------------------------------
\* A form whose card was clicked while nothing was being refreshed is the form
\* of the active wallet, and nothing comes that could select another.
Steady == form.kind = "post" /\ ~form.refreshing
FromItsCard(c) == c.kind = "post" => c.arg = c.form.wallet \/ c.form.refreshing
Refreshes == {"login", "me", "wallets"}

Opened ==
  /\ Steady => token # NoUser /\ form.wallet = active /\ ~InFlight(Refreshes)
  /\ \A i \in DOMAIN calls : FromItsCard(calls[i])
  /\ PostsToOpenedWallet

-----------------------------------------------------------------------------
\* The last call of a kind that was sent.
LastOf(c, kind, i) ==
  /\ i \in DOMAIN c /\ c[i].kind = kind
  /\ \A j \in DOMAIN c : j > i => c[j].kind # kind
NoneOf(c, kind) == \A i \in DOMAIN c : c[i].kind # kind

\* A change of the database whose handler will fetch the wallets.
Unrefreshed ==
  \E i \in DOMAIN calls : /\ calls[i].kind \in {"post", "create"}
                          /\ calls[i].reply.status = "ok"

CurrentRows == [wallet |-> active, entries |-> entries[active]]

WalletsShown ==
  /\ shown = List(token)
  /\ active = NoWallet <=> shown = <<>>
  /\ active # NoWallet => active \in Listed

RowsComing ==
  \A i \in DOMAIN calls :
    LastOf(calls, "history", i) =>
      /\ calls[i].token = token /\ calls[i].arg = active
      /\ calls[i].reply.status = "ok" => calls[i].reply.rows = CurrentRows
RowsShownOrComing ==
  active # NoWallet => /\ NoneOf(calls, "history") => rows = CurrentRows
                       /\ RowsComing

WalletsComing ==
  \A i \in DOMAIN calls :
    LastOf(calls, "wallets", i) =>
      /\ calls[i].token = token
      /\ calls[i].reply.status = "ok" => calls[i].reply.wallets = List(token)

ProfileComing == \E i \in DOMAIN calls : calls[i].kind = "me" /\ calls[i].token = token

\* What is not on the page yet is in a call that will bring it.
Coming ==
  (calm /\ ~blank /\ token # NoUser) =>
    /\ user = NoUser => ProfileComing
    /\ (user # NoUser /\ ~Unrefreshed) =>
         /\ NoneOf(calls, "wallets") => WalletsShown /\ RowsShownOrComing
         /\ WalletsComing

-----------------------------------------------------------------------------
(* Sequences of calls, lookups and transfers.                              *)

LEMMA RemoveAtProperties ==
  ASSUME NEW S, NEW s \in Seq(S), NEW i \in 1 .. Len(s)
  PROVE  /\ RemoveAt(s, i) \in Seq(S)
         /\ Len(RemoveAt(s, i)) = Len(s) - 1
         /\ \A j \in 1 .. Len(s) - 1 :
              RemoveAt(s, i)[j] = IF j < i THEN s[j] ELSE s[j + 1]
<1> DEFINE a == SubSeq(s, 1, i - 1)
           b == SubSeq(s, i + 1, Len(s))
<1>1. /\ a \in Seq(S) /\ Len(a) = i - 1
      /\ \A j \in 1 .. i - 1 : a[j] = s[j]
  <2>1. i - 1 \in Int /\ \A j \in 1 .. i - 1 : s[j] \in S
    BY LenProperties, ElementOfSeq
  <2>2. /\ a \in Seq(S)
        /\ Len(a) = IF 1 <= i - 1 THEN i - 1 - 1 + 1 ELSE 0
        /\ \A j \in 1 .. i - 1 - 1 + 1 : a[j] = s[1 + j - 1]
    BY <2>1, SubSeqProperties
  <2>3. QED
    BY <2>2
<1>2. /\ b \in Seq(S) /\ Len(b) = Len(s) - i
      /\ \A j \in 1 .. Len(s) - i : b[j] = s[i + j]
  <2>1. i + 1 \in Int /\ Len(s) \in Int /\ \A j \in i + 1 .. Len(s) : s[j] \in S
    BY LenProperties, ElementOfSeq
  <2>2. /\ b \in Seq(S)
        /\ Len(b) = IF i + 1 <= Len(s) THEN Len(s) - (i + 1) + 1 ELSE 0
        /\ \A j \in 1 .. Len(s) - (i + 1) + 1 : b[j] = s[i + 1 + j - 1]
    BY <2>1, SubSeqProperties
  <2>3. QED
    BY <2>1, <2>2
<1>3. RemoveAt(s, i) = a \o b
  BY DEF RemoveAt
<1>4. /\ a \o b \in Seq(S)
      /\ Len(a \o b) = Len(a) + Len(b)
      /\ \A j \in 1 .. Len(a) + Len(b) :
           (a \o b)[j] = IF j <= Len(a) THEN a[j] ELSE b[j - Len(a)]
  BY <1>1, <1>2, ConcatProperties
<1> HIDE DEF a, b
<1>5. Len(s) \in Nat
  OBVIOUS
<1>6. Len(a) + Len(b) = Len(s) - 1
  BY <1>1, <1>2, <1>5
<1>7. ASSUME NEW j \in 1 .. Len(s) - 1
      PROVE  (a \o b)[j] = IF j < i THEN s[j] ELSE s[j + 1]
  <2>1. CASE j < i
    BY <1>1, <1>4, <1>5, <1>6, <2>1
  <2>2. CASE ~(j < i)
    <3>1. /\ (a \o b)[j] = b[j - (i - 1)]
          /\ j - (i - 1) \in 1 .. Len(s) - i
      BY <1>1, <1>4, <1>5, <1>6, <2>2
    <3>2. b[j - (i - 1)] = s[i + (j - (i - 1))]
      BY <1>2, <3>1
    <3>3. i + (j - (i - 1)) = j + 1
      OBVIOUS
    <3>4. QED
      BY <2>2, <3>1, <3>2, <3>3
  <2>3. QED
    BY <2>1, <2>2
<1>8. QED
  BY <1>3, <1>4, <1>6, <1>7

-----------------------------------------------------------------------------
(* The form keeps FormInv.                                                 *)

LEMMA FormConstants ==
  /\ MaxLookups \in Nat /\ MaxTransfers \in Nat
  /\ NoId \notin WalletIds
  /\ \A c \in Contacts : c \in Texts /\ c \notin Short
  /\ \A t \in Texts : Finds[t] \subseteq Contacts
BY FormAssumption

LEMMA EmptyText == "" \in Texts
BY FormAssumption, Zenon

LEMMA ResetFields ==
  ASSUME ResetForm
  PROVE  /\ email' \in Texts /\ walletId' = NoId /\ origin' = "none"
         /\ suggestions' = {} /\ due' = FALSE
BY EmptyText, Zenon DEF ResetForm

LEMMA InitForm == FormInit => FormInv
<1> SUFFICES ASSUME FormInit
             PROVE  FormInv
  OBVIOUS
<1>1. <<>> \in Seq(Texts \ Short) /\ <<>> \in Seq(Transfer)
      /\ Len(<<>>) = 0 /\ DOMAIN <<>> = {}
  OBVIOUS
<1>2. /\ email \in Texts /\ walletId = NoId /\ origin = "none"
      /\ suggestions = {} /\ due = FALSE /\ open = FALSE
      /\ lookups = <<>> /\ transfers = <<>>
      /\ api \in {"django", "dotnet"} /\ currency \in Currencies
  BY EmptyText, Zenon DEF FormInit
<1>3. /\ lookups \in Seq(Texts \ Short) /\ Len(lookups) = 0
      /\ transfers \in Seq(Transfer) /\ Len(transfers) = 0 /\ DOMAIN transfers = {}
  <2>1. lookups = <<>> /\ transfers = <<>>
    BY <1>2
  <2>2. lookups \in Seq(Texts \ Short) /\ Len(lookups) = 0
    BY <1>1, <2>1
  <2>3. transfers \in Seq(Transfer) /\ Len(transfers) = 0 /\ DOMAIN transfers = {}
    BY <1>1, <2>1
  <2>4. QED
    BY <2>2, <2>3
<1>4. FormTypeOK
  <2>1. email \in Texts /\ walletId \in WalletIds \cup {NoId} /\ suggestions \subseteq Contacts
    BY <1>2
  <2>2. walletId = NoId <=> origin = "none"
    BY <1>2
  <2>3. due => email \notin Short
    BY <1>2
  <2>4. Len(lookups) <= MaxLookups /\ Len(transfers) <= MaxTransfers
    BY <1>3, FormConstants
  <2>5. QED
    BY <1>3, <2>1, <2>2, <2>3, <2>4 DEF FormTypeOK
<1>5. QED
  BY <1>2, <1>3, <1>4 DEF FormInv

\* Steps that leave what was sent as it is.
LEMMA FormFields ==
  ASSUME FormInv,
         UNCHANGED <<api, lookups, transfers>>,
         email' \in Texts, walletId' \in WalletIds \cup {NoId},
         currency' \in Currencies, open' \in BOOLEAN, due' \in BOOLEAN,
         origin' \in {"none", "picked", "pasted", "kept"},
         suggestions' \subseteq Contacts,
         walletId' = NoId <=> origin' = "none",
         due' => email' \notin Short,
         origin' = "picked" => walletId'.owner = email'
  PROVE  FormInv'
BY DEF FormInv, FormTypeOK

LEMMA FormNextInv ==
  ASSUME FormInv, FormNext
  PROVE  FormInv'
<1> USE DEF fieldVars
<1>1. ASSUME NEW c \in Currencies, OpenForm(c) \/ SwitchWallet(c)
      PROVE  FormInv'
  <2>1. CASE OpenForm(c)
    BY <2>1 DEF FormInv, FormTypeOK, OpenForm
  <2>2. CASE SwitchWallet(c)
    BY <2>2 DEF FormInv, FormTypeOK, SwitchWallet
  <2>3. QED
    BY <1>1, <2>1, <2>2
<1>2. CASE CloseForm
  BY <1>2, FormFields DEF FormInv, FormTypeOK, CloseForm
<1>3. CASE OtherFormEnds
  BY <1>3, ResetFields, FormFields, FormConstants
     DEF FormInv, FormTypeOK, OtherFormEnds
<1>4. CASE ReloadPage
  <2>1. <<>> \in Seq(Texts \ Short) /\ Len(<<>>) = 0 /\ 0 <= MaxLookups
    BY FormConstants
  <2>2. \A i \in DOMAIN transfers :
          transfers'[i] = IF transfers[i].status = "posted"
                          THEN [transfers[i] EXCEPT !.status = "ended"]
                          ELSE transfers[i]
    BY <1>4 DEF ReloadPage
  <2>3. DOMAIN transfers' = DOMAIN transfers /\ transfers \in Seq(Transfer)
    BY <1>4 DEF ReloadPage, FormInv, FormTypeOK
  <2>4. ASSUME NEW i \in DOMAIN transfers
        PROVE  /\ transfers'[i] \in Transfer
               /\ transfers'[i].origin = transfers[i].origin
               /\ transfers'[i].to = transfers[i].to
               /\ transfers'[i].email = transfers[i].email
    <3>1. transfers[i] \in Transfer
      BY <2>3
    <3>2. LET t == [transfers[i] EXCEPT !.status = "ended"] IN
          /\ t \in Transfer /\ t.origin = transfers[i].origin
          /\ t.to = transfers[i].to /\ t.email = transfers[i].email
      BY <3>1 DEF Transfer
    <3>3. QED
      BY <2>2, <3>1, <3>2
  <2>5. transfers' \in Seq(Transfer) /\ Len(transfers') = Len(transfers)
    BY <1>4, <2>3, <2>4 DEF ReloadPage
  <2>6. lookups' \in Seq(Texts \ Short) /\ Len(lookups') <= MaxLookups
    BY <1>4, <2>1 DEF ReloadPage
  <2>7. open' = FALSE /\ ResetForm /\ UNCHANGED <<api, currency>>
    BY <1>4 DEF ReloadPage
  <2>8. QED
    BY <2>3, <2>4, <2>5, <2>6, <2>7, ResetFields, FormConstants
       DEF FormInv, FormTypeOK
<1>5. ASSUME NEW t \in Texts, TypeEmail(t)
      PROVE  FormInv'
  BY <1>5, FormFields, FormConstants DEF FormInv, FormTypeOK, TypeEmail
<1>6. CASE LookUp
  <2>1. email \in Texts \ Short /\ lookups \in Seq(Texts \ Short)
    BY <1>6 DEF LookUp, FormInv, FormTypeOK
  <2>2. lookups' \in Seq(Texts \ Short) /\ Len(lookups') = Len(lookups) + 1
    BY <1>6, <2>1, AppendProperties DEF LookUp
  <2>3. Len(lookups') <= MaxLookups
    BY <1>6, <2>1, <2>2, FormConstants DEF LookUp
  <2>4. QED
    BY <1>6, <2>2, <2>3 DEF LookUp, FormInv, FormTypeOK
<1>7. ASSUME NEW i \in 1 .. MaxLookups, Suggest(i) \/ LookUpFails(i)
      PROVE  FormInv'
  <2>1. i \in 1 .. Len(lookups) /\ lookups' = RemoveAt(lookups, i)
        /\ lookups \in Seq(Texts \ Short)
    BY <1>7 DEF Suggest, LookUpFails, FormInv, FormTypeOK
  <2>2. lookups' \in Seq(Texts \ Short) /\ Len(lookups') = Len(lookups) - 1
    BY <2>1, RemoveAtProperties
  <2>3. Len(lookups') <= MaxLookups
    BY <2>1, <2>2, FormConstants DEF FormInv, FormTypeOK
  <2>4. lookups[i] \in Texts
    BY <2>1
  <2>5. suggestions' \subseteq Contacts
    BY <1>7, <2>4, FormConstants DEF Suggest, LookUpFails, FormInv, FormTypeOK
  <2>6. QED
    BY <1>7, <2>2, <2>3, <2>5 DEF Suggest, LookUpFails, FormInv, FormTypeOK
<1>8. ASSUME NEW c \in Contacts, PickRecipient(c)
      PROVE  FormInv'
  <2>1. c \in Texts \ Short
    BY FormConstants
  <2>2. CASE currency \in ListedCurrencies(c)
    <3> DEFINE id == [owner |-> c, currency |-> currency]
    <3>1. walletId' = id /\ origin' = "picked"
      BY <1>8, <2>2 DEF PickRecipient
    <3>2. id \in WalletIds /\ id.owner = c
      BY DEF FormInv, WalletIds
    <3> HIDE DEF id
    <3>3. QED
      BY <1>8, <2>1, <3>1, <3>2, FormFields, FormConstants
         DEF FormInv, FormTypeOK, PickRecipient
  <2>3. CASE currency \notin ListedCurrencies(c)
    BY <1>8, <2>1, <2>3, FormFields, FormConstants
       DEF FormInv, FormTypeOK, PickRecipient
  <2>4. QED
    BY <2>2, <2>3
<1>9. ASSUME NEW id \in WalletIds \cup {NoId}, PasteWallet(id)
      PROVE  FormInv'
  BY <1>9, FormFields, FormConstants DEF FormInv, FormTypeOK, PasteWallet
<1>10. CASE SendTransfer
  <2> DEFINE t == [email |-> email, to |-> walletId, origin |-> origin,
                   currency |-> currency, status |-> "sent"]
  <2>1. /\ t \in Transfer
        /\ t.origin = "picked" => t.to.owner = t.email
    <3>1. walletId # NoId
      BY <1>10, Zenon DEF SendTransfer
    <3>2. QED
      BY <3>1 DEF FormInv, FormTypeOK, Transfer
  <2>2. transfers' = Append(transfers, t) /\ Len(transfers) < MaxTransfers
        /\ UNCHANGED <<api, currency, fieldVars, lookups>>
    BY <1>10, Zenon DEF SendTransfer
  <2>6. transfers \in Seq(Transfer)
    BY DEF FormInv, FormTypeOK
  <2> HIDE DEF t
  <2>3. /\ transfers' \in Seq(Transfer)
        /\ Len(transfers') = Len(transfers) + 1
        /\ \A i \in 1 .. Len(transfers) : transfers'[i] = transfers[i]
        /\ transfers'[Len(transfers) + 1] = t
    BY <2>1, <2>2, <2>6, AppendProperties
  <2>4. Len(transfers') <= MaxTransfers
    BY <2>2, <2>3, <2>6, FormConstants
  <2>5. \A i \in DOMAIN transfers' :
          transfers'[i].origin = "picked" =>
            transfers'[i].to.owner = transfers'[i].email
    BY <2>1, <2>2, <2>3, <2>6 DEF FormInv
  <2>7. QED
    BY <2>2, <2>3, <2>4, <2>5 DEF FormInv, FormTypeOK
<1>11. ASSUME NEW i, NEW from, NEW to \in {"posted", "ended"}, SetStatus(i, from, to)
       PROVE  /\ transfers' \in Seq(Transfer) /\ Len(transfers') = Len(transfers)
              /\ \A j \in DOMAIN transfers' :
                   transfers'[j].origin = "picked" =>
                     transfers'[j].to.owner = transfers'[j].email
  <2> DEFINE t == [transfers[i] EXCEPT !.status = to]
  <2>1. /\ i \in DOMAIN transfers /\ transfers' = [transfers EXCEPT ![i] = t]
        /\ transfers \in Seq(Transfer)
    BY <1>11 DEF SetStatus, FormInv, FormTypeOK
  <2>2. transfers[i] \in Transfer
    BY <2>1
  <2>3. t \in Transfer /\ t.origin = transfers[i].origin
        /\ t.to = transfers[i].to /\ t.email = transfers[i].email
    BY <2>2 DEF Transfer
  <2> HIDE DEF t
  <2>4. QED
    BY <2>1, <2>3 DEF FormInv
<1>12. ASSUME NEW i, SetStatus(i, "sent", "posted") \/ SetStatus(i, "posted", "ended"),
              UNCHANGED <<api, currency, lookups>>,
              (open' = FALSE /\ ResetForm) \/ UNCHANGED fieldVars
       PROVE  FormInv'
  <2>1. /\ transfers' \in Seq(Transfer) /\ Len(transfers') = Len(transfers)
        /\ \A j \in DOMAIN transfers' :
             transfers'[j].origin = "picked" =>
               transfers'[j].to.owner = transfers'[j].email
    BY <1>11, <1>12
  <2>2. CASE open' = FALSE /\ ResetForm
    BY <1>12, <2>1, <2>2, ResetFields, FormConstants DEF FormInv, FormTypeOK
  <2>3. CASE UNCHANGED fieldVars
    BY <1>12, <2>1, <2>3 DEF FormInv, FormTypeOK
  <2>4. QED
    BY <1>12, <2>2, <2>3
<1>13. ASSUME NEW i \in 1 .. MaxTransfers, PostTransfer(i) \/ EndTransfer(i)
       PROVE  FormInv'
  BY <1>12, <1>13 DEF PostTransfer, EndTransfer
<1>14. ASSUME NEW i \in 1 .. MaxTransfers, DropTransfer(i)
       PROVE  FormInv'
  <2>1. CASE SetStatus(i, "posted", "ended")
    BY <1>12, <1>14, <2>1 DEF DropTransfer
  <2>2. CASE transfers' = RemoveAt(transfers, i)
    <3>1. i \in 1 .. Len(transfers) /\ transfers \in Seq(Transfer)
      BY <1>14 DEF DropTransfer, FormInv, FormTypeOK
    <3>2. /\ transfers' \in Seq(Transfer)
          /\ Len(transfers') = Len(transfers) - 1
          /\ \A j \in 1 .. Len(transfers) - 1 :
               transfers'[j] = IF j < i THEN transfers[j] ELSE transfers[j + 1]
      BY <2>2, <3>1, RemoveAtProperties
    <3>3. Len(transfers') <= MaxTransfers
      BY <3>1, <3>2, FormConstants DEF FormInv, FormTypeOK
    <3>4. \A j \in DOMAIN transfers' :
            transfers'[j].origin = "picked" =>
              transfers'[j].to.owner = transfers'[j].email
      <4>1. \A j \in DOMAIN transfers' :
              \E k \in DOMAIN transfers : transfers'[j] = transfers[k]
        <5> SUFFICES ASSUME NEW j \in DOMAIN transfers'
                     PROVE  \E k \in DOMAIN transfers : transfers'[j] = transfers[k]
          OBVIOUS
        <5>1. j \in 1 .. Len(transfers) - 1
          BY <3>1, <3>2
        <5>2. CASE j < i
          BY <3>1, <3>2, <5>1, <5>2
        <5>3. CASE ~(j < i)
          <6>1. j + 1 \in DOMAIN transfers /\ transfers'[j] = transfers[j + 1]
            BY <3>1, <3>2, <5>1, <5>3
          <6>2. QED
            BY <6>1
        <5>4. QED
          BY <5>2, <5>3
      <4>2. QED
        BY <4>1 DEF FormInv
    <3>5. QED
      BY <1>14, <3>2, <3>3, <3>4 DEF DropTransfer, FormInv, FormTypeOK
  <2>3. QED
    BY <1>14, <2>1, <2>2 DEF DropTransfer
<1>15. QED
  BY <1>1, <1>2, <1>3, <1>4, <1>5, <1>6, <1>7, <1>8, <1>9, <1>10, <1>13, <1>14
     DEF FormNext

LEMMA FormStep ==
  ASSUME FormInv, [FormNext]_formVars
  PROVE  FormInv'
<1>1. CASE UNCHANGED formVars
  BY <1>1 DEF formVars, fieldVars, FormInv, FormTypeOK
<1>2. QED
  BY <1>1, FormNextInv

-----------------------------------------------------------------------------
(* Calls.                                                                  *)

LEMMA PageConstants ==
  /\ MaxCalls \in Nat \ {0} /\ MaxForms \in Nat /\ MaxPostings \in Nat
  /\ NoUser \notin Users /\ NoWallet \notin Wallets
  /\ Owner \in [Wallets -> Users]
BY DashboardAssumption

LEMMA UnservedType == Unserved \in Replies /\ Closed \in Forms /\ NoRows \in Rows
<1>1. NoRows \in Rows
  BY DEF NoRows, Rows
<1>2. Closed \in Forms
  BY PageConstants DEF Closed, Forms
<1>3. <<>> \in Seq(Cards)
  OBVIOUS
<1>4. QED
  BY <1>1, <1>2, <1>3 DEF Unserved, Replies

LEMMA CallType ==
  ASSUME NEW kind \in {"login", "me", "wallets", "history", "post", "create"},
         NEW t \in Users \cup {NoUser}, NEW a \in Wallets \cup {NoWallet},
         NEW f \in Forms, NEW arg \in Users \cup Wallets \cup {NoWallet},
         NEW to \in Wallets \cup {NoWallet}
  PROVE  LET c == Call(kind, t, a, f, arg, to) IN
         /\ c \in Calls
         /\ c.kind = kind /\ c.token = t /\ c.active = a /\ c.form = f
         /\ c.arg = arg /\ c.to = to /\ c.reply = Unserved
BY UnservedType DEF Call, Calls

LEMMA OneCall ==
  ASSUME NEW S, NEW x \in S
  PROVE  /\ <<x>> \in Seq(S) /\ Len(<<x>>) = 1
         /\ <<x>>[1] = x /\ \A j \in DOMAIN <<x>> : <<x>>[j] = x
OBVIOUS

LEMMA NoCall ==
  ASSUME NEW S
  PROVE  <<>> \in Seq(S) /\ Len(<<>>) = 0 /\ DOMAIN <<>> = {}
OBVIOUS

LEMMA ReplyHolds ==
  ASSUME NEW c, c.reply = Unserved
  PROVE  /\ c.reply.status = "none" /\ c.reply.wallets = <<>>
         /\ c.reply.rows = NoRows /\ c.reply.rows.wallet = NoWallet
BY DEF Unserved, NoRows

\* What is left of the calls when one has returned.
LEMMA RestCalls ==
  ASSUME calls \in Seq(Calls), NEW i \in DOMAIN calls
  PROVE  /\ Rest(i) \in Seq(Calls) /\ Len(Rest(i)) = Len(calls) - 1
         /\ \A j \in DOMAIN Rest(i) :
              LET k == IF j < i THEN j ELSE j + 1 IN
              k \in DOMAIN calls /\ k # i /\ Rest(i)[j] = calls[k]
<1>1. i \in 1 .. Len(calls)
  OBVIOUS
<1>2. /\ Rest(i) \in Seq(Calls) /\ Len(Rest(i)) = Len(calls) - 1
      /\ \A j \in 1 .. Len(calls) - 1 :
           Rest(i)[j] = IF j < i THEN calls[j] ELSE calls[j + 1]
  BY <1>1, RemoveAtProperties DEF Rest
<1>3. DOMAIN Rest(i) = 1 .. Len(calls) - 1
  BY <1>2
<1>4. ASSUME NEW j \in DOMAIN Rest(i)
      PROVE  LET k == IF j < i THEN j ELSE j + 1 IN
             k \in DOMAIN calls /\ k # i /\ Rest(i)[j] = calls[k]
  <2>1. CASE j < i
    BY <1>1, <1>2, <1>3, <2>1
  <2>2. CASE ~(j < i)
    BY <1>1, <1>2, <1>3, <2>2
  <2>3. QED
    BY <2>1, <2>2
<1>5. QED
  BY <1>2, <1>4

\* The calls after a step that sends: those left over, then the new ones.
LEMMA SentCalls ==
  ASSUME NEW rest \in Seq(Calls), NEW more \in Seq(Calls), Send(rest, more)
  PROVE  /\ calls' \in Seq(Calls) /\ Len(calls') <= MaxCalls
         /\ Len(calls') = Len(rest) + Len(more)
         /\ \A j \in DOMAIN calls' :
              \/ j \in DOMAIN rest /\ calls'[j] = rest[j]
              \/ /\ j > Len(rest) /\ j - Len(rest) \in DOMAIN more
                 /\ calls'[j] = more[j - Len(rest)]
         /\ \A j \in DOMAIN rest : j \in DOMAIN calls' /\ calls'[j] = rest[j]
         /\ \A j \in DOMAIN more : /\ Len(rest) + j \in DOMAIN calls'
                                   /\ calls'[Len(rest) + j] = more[j]
<1>1. calls' = rest \o more /\ Len(rest \o more) <= MaxCalls
  BY DEF Send
<1>2. /\ rest \o more \in Seq(Calls)
      /\ Len(rest \o more) = Len(rest) + Len(more)
      /\ \A j \in 1 .. Len(rest) + Len(more) :
           (rest \o more)[j] = IF j <= Len(rest) THEN rest[j] ELSE more[j - Len(rest)]
  BY ConcatProperties
<1>3. Len(rest) \in Nat /\ Len(more) \in Nat
  OBVIOUS
<1>4. DOMAIN rest = 1 .. Len(rest) /\ DOMAIN more = 1 .. Len(more)
  OBVIOUS
<1>5. DOMAIN calls' = 1 .. Len(rest) + Len(more)
  BY <1>1, <1>2
<1>6. ASSUME NEW j \in DOMAIN calls'
      PROVE  \/ j \in DOMAIN rest /\ calls'[j] = rest[j]
             \/ /\ j > Len(rest) /\ j - Len(rest) \in DOMAIN more
                /\ calls'[j] = more[j - Len(rest)]
  BY <1>1, <1>2, <1>3, <1>4, <1>5
<1>7. ASSUME NEW j \in DOMAIN rest
      PROVE  j \in DOMAIN calls' /\ calls'[j] = rest[j]
  BY <1>1, <1>2, <1>3, <1>4, <1>5
<1>8. ASSUME NEW j \in DOMAIN more
      PROVE  /\ Len(rest) + j \in DOMAIN calls'
             /\ calls'[Len(rest) + j] = more[j]
  <2>1. /\ Len(rest) + j \in 1 .. Len(rest) + Len(more)
        /\ ~(Len(rest) + j <= Len(rest)) /\ Len(rest) + j - Len(rest) = j
    BY <1>3, <1>4
  <2>2. QED
    BY <1>1, <1>2, <1>5, <2>1
<1>9. QED
  BY <1>1, <1>2, <1>6, <1>7, <1>8

\* The calls after the server has answered one.
LEMMA AnsweredCalls ==
  ASSUME calls \in Seq(Calls), NEW i \in DOMAIN calls,
         NEW r \in Replies, Answer(i, r)
  PROVE  /\ calls' \in Seq(Calls) /\ Len(calls') = Len(calls)
         /\ DOMAIN calls' = DOMAIN calls
         /\ \A j \in DOMAIN calls :
              /\ calls'[j].kind = calls[j].kind /\ calls'[j].token = calls[j].token
              /\ calls'[j].active = calls[j].active /\ calls'[j].form = calls[j].form
              /\ calls'[j].arg = calls[j].arg /\ calls'[j].to = calls[j].to
              /\ calls'[j].reply = IF j = i THEN r ELSE calls[j].reply
<1> DEFINE c == [calls[i] EXCEPT !.reply = r]
<1>1. calls[i] \in Calls
  OBVIOUS
<1>2. /\ c \in Calls
      /\ c.kind = calls[i].kind /\ c.token = calls[i].token
      /\ c.active = calls[i].active /\ c.form = calls[i].form
      /\ c.arg = calls[i].arg /\ c.to = calls[i].to /\ c.reply = r
  BY <1>1 DEF Calls
<1>3. calls' = [calls EXCEPT ![i] = c]
  BY DEF Answer
<1> HIDE DEF c
<1>4. i \in 1 .. Len(calls)
  OBVIOUS
<1>5. /\ calls' \in Seq(Calls) /\ Len(calls') = Len(calls)
      /\ \A j \in 1 .. Len(calls) : calls'[j] = IF j = i THEN c ELSE calls[j]
  BY <1>2, <1>3, <1>4, ExceptSeq
<1>6. QED
  BY <1>2, <1>5

LEMMA SentTruth ==
  ASSUME PageInv, UNCHANGED database, calm' => calm,
         NEW rest \in Seq(Calls), NEW more \in Seq(Calls), Send(rest, more),
         \A j \in DOMAIN rest : \E k \in DOMAIN calls : rest[j] = calls[k],
         \A j \in DOMAIN more :
           /\ Addressed(more[j]) /\ more[j].reply = Unserved
           /\ calm' /\ more[j].active # NoWallet => Belongs(more[j].active, more[j].token)
  PROVE  calls' \in Seq(Calls) /\ Len(calls') <= MaxCalls /\ CallsTruth'
<1>1. UNCHANGED <<stored, entries>>
  BY DEF database
<1>2. /\ calls' \in Seq(Calls) /\ Len(calls') <= MaxCalls
      /\ \A j \in DOMAIN calls' :
           \/ \E k \in DOMAIN calls : calls'[j] = calls[k]
           \/ \E k \in DOMAIN more : calls'[j] = more[k]
  BY SentCalls
<1>3. ASSUME NEW j \in DOMAIN calls', NEW c, c = calls'[j]
      PROVE  /\ Addressed(c)
             /\ Truthful(c.reply, c.token)'
             /\ calm' /\ c.active # NoWallet => Belongs(c.active, c.token)'
  <2>1. CASE \E k \in DOMAIN calls : c = calls[k]
    BY <1>1, <2>1 DEF PageInv, CallsTruth, Truthful, Belongs, Stored
  <2>2. CASE \E k \in DOMAIN more : c = more[k]
    <3>1. PICK k \in DOMAIN more : c = more[k]
      BY <2>2
    <3>2. /\ Addressed(c) /\ c.reply = Unserved
          /\ calm' /\ c.active # NoWallet => Belongs(c.active, c.token)
      BY <3>1
    <3>3. DOMAIN c.reply.wallets = {} /\ c.reply.rows.wallet = NoWallet
      BY <3>2, ReplyHolds, NoCall
    <3>4. Truthful(c.reply, c.token)'
      BY <3>3 DEF Truthful
    <3>5. calm' /\ c.active # NoWallet => Belongs(c.active, c.token)'
      BY <1>1, <3>2 DEF Belongs, Stored
    <3>6. QED
      BY <3>2, <3>4, <3>5
  <2>3. QED
    BY <1>2, <1>3, <2>1, <2>2
<1>4. CallsTruth'
  BY <1>3 DEF CallsTruth, Truthful, Belongs, Stored
<1>5. QED
  BY <1>2, <1>4

\* When nothing is sent.
LEMMA NothingSent ==
  ASSUME PageTypes
  PROVE  /\ calls' = calls => Send(calls, <<>>)
         /\ \A i \in DOMAIN calls : calls' = Rest(i) => Send(Rest(i), <<>>)
<1>1. calls \in Seq(Calls) /\ Len(calls) <= MaxCalls
  BY DEF PageTypes
<1>2. calls \o <<>> = calls
  BY <1>1, ConcatEmptySeq
<1>3. ASSUME NEW i \in DOMAIN calls, calls' = Rest(i)
      PROVE  Send(Rest(i), <<>>)
  <2>1. Rest(i) \in Seq(Calls) /\ Len(Rest(i)) = Len(calls) - 1
    BY <1>1, RestCalls
  <2>2. Rest(i) \o <<>> = Rest(i)
    BY <2>1, ConcatEmptySeq
  <2>3. Len(Rest(i)) <= MaxCalls
    BY <1>1, <2>1, PageConstants
  <2>4. QED
    BY <1>3, <2>2, <2>3 DEF Send
<1>4. QED
  BY <1>1, <1>2, <1>3 DEF Send

\* The history is asked for in the name of the session.
LEMMA HistoryCalls ==
  ASSUME NEW t \in Users \cup {NoUser}, NEW u, NEW w \in Wallets \cup {NoWallet}
  PROVE  /\ HistoryEffect(t, u, w) \in Seq(Calls)
         /\ \A j \in DOMAIN HistoryEffect(t, u, w) :
              LET c == HistoryEffect(t, u, w)[j] IN
              /\ c.kind = "history" /\ c.token = t /\ c.arg = w
              /\ c.active = w /\ c.reply = Unserved
              /\ Addressed(c)
         /\ t # NoUser /\ u # NoUser /\ w # NoWallet =>
              Len(HistoryEffect(t, u, w)) = 1
<1>1. CASE t # NoUser /\ u # NoUser /\ w # NoWallet
  <2> DEFINE c == FetchTransactions(t, w)
  <2>1. /\ c \in Calls /\ c.kind = "history" /\ c.token = t /\ c.arg = w
        /\ c.active = w /\ c.reply = Unserved
    <3>1. /\ "history" \in {"login", "me", "wallets", "history", "post", "create"}
          /\ NoWallet \in Wallets \cup {NoWallet} /\ Closed \in Forms
          /\ w \in Users \cup Wallets \cup {NoWallet}
      BY UnservedType
    <3>2. QED
      BY <3>1, UnservedType DEF Calls, Call, FetchTransactions
  <2>2. Addressed(c)
    BY <1>1, <2>1 DEF Addressed
  <2> HIDE DEF c
  <2>3. HistoryEffect(t, u, w) = <<c>>
    BY <1>1 DEF HistoryEffect, c
  <2>4. QED
    BY <2>1, <2>2, <2>3, OneCall
<1>2. CASE ~(t # NoUser /\ u # NoUser /\ w # NoWallet)
  <2>1. HistoryEffect(t, u, w) = <<>>
    BY <1>2 DEF HistoryEffect
  <2>2. QED
    BY <1>2, <2>1, NoCall
<1>3. QED
  BY <1>1, <1>2

LEMMA OtherCalls ==
  /\ \A u \in Users :
       LET c == Login(u) IN
       /\ c \in Calls /\ c.kind = "login" /\ c.token = NoUser /\ c.arg = u
       /\ c.active = NoWallet /\ c.reply = Unserved /\ Addressed(c)
  /\ \A t \in Users :
       LET c == Me(t) IN
       /\ c \in Calls /\ c.kind = "me" /\ c.token = t
       /\ c.active = NoWallet /\ c.reply = Unserved /\ Addressed(c)
  /\ \A t \in Users, a \in Wallets \cup {NoWallet} :
       LET c == FetchWallets(t, a) IN
       /\ c \in Calls /\ c.kind = "wallets" /\ c.token = t
       /\ c.active = a /\ c.reply = Unserved /\ Addressed(c)
<1>1. ASSUME NEW u \in Users
      PROVE  LET c == Login(u) IN
             /\ c \in Calls /\ c.kind = "login" /\ c.token = NoUser /\ c.arg = u
             /\ c.active = NoWallet /\ c.reply = Unserved /\ Addressed(c)
  BY CallType, UnservedType DEF Login, Addressed
<1>2. ASSUME NEW t \in Users
      PROVE  LET c == Me(t) IN
             /\ c \in Calls /\ c.kind = "me" /\ c.token = t
             /\ c.active = NoWallet /\ c.reply = Unserved /\ Addressed(c)
  <2>1. /\ "me" \in {"login", "me", "wallets", "history", "post", "create"}
        /\ NoWallet \in Wallets \cup {NoWallet} /\ Closed \in Forms
        /\ NoWallet \in Users \cup Wallets \cup {NoWallet}
        /\ t \in Users \cup {NoUser}
    BY UnservedType
  <2>2. LET c == Me(t) IN
        /\ c \in Calls /\ c.kind = "me" /\ c.token = t
        /\ c.active = NoWallet /\ c.reply = Unserved
    BY <2>1, UnservedType DEF Calls, Call, Me
  <2>3. QED
    BY <2>2 DEF Addressed
<1>3. ASSUME NEW t \in Users, NEW a \in Wallets \cup {NoWallet}
      PROVE  LET c == FetchWallets(t, a) IN
             /\ c \in Calls /\ c.kind = "wallets" /\ c.token = t
             /\ c.active = a /\ c.reply = Unserved /\ Addressed(c)
  <2>1. /\ "wallets" \in {"login", "me", "wallets", "history", "post", "create"}
        /\ NoWallet \in Wallets \cup {NoWallet} /\ Closed \in Forms
        /\ NoWallet \in Users \cup Wallets \cup {NoWallet}
        /\ t \in Users \cup {NoUser}
    BY UnservedType
  <2>2. LET c == FetchWallets(t, a) IN
        /\ c \in Calls /\ c.kind = "wallets" /\ c.token = t
        /\ c.active = a /\ c.reply = Unserved
    BY <2>1, UnservedType DEF Calls, Call, FetchWallets
  <2>3. QED
    BY <2>2 DEF Addressed
<1>4. QED
  BY <1>1, <1>2, <1>3

-----------------------------------------------------------------------------
(* The page keeps PageInv.                                                 *)

PageVarTypes ==
  /\ token \in Users \cup {NoUser} /\ user \in Users \cup {NoUser}
  /\ shown \in Seq(Cards) /\ active \in Wallets \cup {NoWallet} /\ rows \in Rows
  /\ tab \in {"dashboard", "transactions"} /\ form \in Forms
  /\ blank \in BOOLEAN /\ calm \in BOOLEAN
  /\ forms \in 0 .. MaxForms

LEMMA RenderType == ASSUME Render PROVE blank' \in BOOLEAN
BY Zenon DEF Render

\* A step of the page: calls go and come, the database stays.
LEMMA PageKept ==
  ASSUME PageInv, UNCHANGED database, calm' => calm, PageVarTypes',
         NEW rest \in Seq(Calls), NEW more \in Seq(Calls), Send(rest, more),
         \A j \in DOMAIN rest : \E k \in DOMAIN calls : rest[j] = calls[k],
         \A j \in DOMAIN more :
           /\ Addressed(more[j]) /\ more[j].reply = Unserved
           /\ calm' /\ more[j].active # NoWallet => Belongs(more[j].active, more[j].token),
         \A w \in Listed' : Stored(w),
         rows'.wallet # NoWallet => rows'.entries <= entries[rows'.wallet],
         calm' /\ token' = NoUser => /\ user' = NoUser /\ shown' = <<>>
                                     /\ active' = NoWallet /\ rows' = NoRows,
         calm' /\ user' # NoUser => user' = token',
         calm' /\ active' # NoWallet => Belongs(active', token'),
         calm' => \A w \in Listed' : Owner[w] = token'
  PROVE  PageInv'
<1>1. calls' \in Seq(Calls) /\ Len(calls') <= MaxCalls /\ CallsTruth'
  BY SentTruth
<1>2. UNCHANGED <<stored, entries, posted>>
  BY DEF database
<1>3. PageTypes'
  BY <1>1, <1>2 DEF PageInv, PageTypes, PageVarTypes
<1>4. PageTruth'
  BY <1>2 DEF PageTruth, Stored
<1>5. Calm'
  BY <1>2 DEF Calm, Belongs, Stored
<1>6. QED
  BY <1>1, <1>3, <1>4, <1>5 DEF PageInv

\* A handler that only sends, opens or closes something.
LEMMA HandlerKept ==
  ASSUME PageInv, UNCHANGED <<token, user, shown, rows, database, calm>>,
         PageVarTypes',
         NEW more \in Seq(Calls), Send(calls, more),
         \A j \in DOMAIN more :
           /\ Addressed(more[j]) /\ more[j].reply = Unserved
           /\ calm /\ more[j].active # NoWallet => Belongs(more[j].active, more[j].token),
         active' = active \/ (token # NoUser /\ active' \in Listed)
  PROVE  PageInv'
<1>1. calls \in Seq(Calls)
  BY DEF PageInv, PageTypes
<1>2. Listed' = Listed
  BY DEF Listed
<1>3. \A w \in Listed : Stored(w) /\ (calm => Owner[w] = token)
  BY DEF PageInv, PageTruth, Calm
<1>4. calm /\ active' # NoWallet => Belongs(active', token)
  BY <1>3 DEF PageInv, Calm, Belongs
<1>5. calm /\ token = NoUser => active' = active
  OBVIOUS
<1>6. QED
  BY <1>1, <1>2, <1>3, <1>4, <1>5, PageKept DEF PageInv, PageTruth, Calm

\* What a listed wallet, and the active one, may be asked about.
LEMMA HistoryFresh ==
  ASSUME PageInv, NEW u, NEW w, w \in Listed \/ w = active, w \in Wallets \cup {NoWallet}
  PROVE  /\ HistoryEffect(token, u, w) \in Seq(Calls)
         /\ \A j \in DOMAIN HistoryEffect(token, u, w) :
              /\ Addressed(HistoryEffect(token, u, w)[j])
              /\ HistoryEffect(token, u, w)[j].reply = Unserved
              /\ calm /\ HistoryEffect(token, u, w)[j].active # NoWallet =>
                   Belongs(HistoryEffect(token, u, w)[j].active,
                           HistoryEffect(token, u, w)[j].token)
<1>1. token \in Users \cup {NoUser}
  BY DEF PageInv, PageTypes
<1>2. calm /\ w # NoWallet => Belongs(w, token)
  BY DEF PageInv, PageTruth, Calm, Belongs
<1> DEFINE h == HistoryEffect(token, u, w)
<1>3. h \in Seq(Calls)
  BY <1>1, HistoryCalls
<1>4. ASSUME NEW j \in DOMAIN h
      PROVE  /\ h[j].token = token /\ h[j].active = w
             /\ Addressed(h[j]) /\ h[j].reply = Unserved
  BY <1>1, HistoryCalls
<1> HIDE DEF h
<1>5. \A j \in DOMAIN h :
        /\ Addressed(h[j]) /\ h[j].reply = Unserved
        /\ calm /\ h[j].active # NoWallet => Belongs(h[j].active, h[j].token)
  BY <1>2, <1>4
<1>6. QED
  BY <1>3, <1>5 DEF h

LEMMA ListedWallets ==
  ASSUME PageTypes, NEW w \in Listed
  PROVE  w \in Wallets
<1>1. PICK i \in DOMAIN shown : w = shown[i].id
  BY DEF Listed
<1>2. shown[i] \in Cards
  BY DEF PageTypes
<1>3. QED
  BY <1>1, <1>2 DEF Cards

LEMMA NoneSent ==
  /\ <<>> \in Seq(Calls)
  /\ \A j \in DOMAIN <<>> : FALSE
BY NoCall

LEMMA SignInKept ==
  ASSUME PageInv, NEW u \in Users, SignIn(u)
  PROVE  PageInv'
<1> DEFINE c == Login(u)
<1>1. c \in Calls /\ Addressed(c) /\ c.reply = Unserved /\ c.active = NoWallet
  BY OtherCalls
<1>2. Send(calls, <<c>>) /\ UNCHANGED <<page, database, forms, calm>>
  BY DEF SignIn
<1> HIDE DEF c
<1>3. PageVarTypes'
  BY <1>2 DEF page, PageInv, PageTypes, PageVarTypes
<1>4. UNCHANGED <<token, user, shown, rows, active>>
  BY <1>2 DEF page
<1>5. QED
  BY <1>1, <1>2, <1>3, <1>4, OneCall, HandlerKept

LEMMA SelectKept ==
  ASSUME PageInv, NEW w \in Wallets, Select(w)
  PROVE  PageInv'
<1>1. w \in Listed /\ w \in Wallets /\ token # NoUser
  BY DEF Select, Clickable, Visible
<1>2. PageVarTypes'
  BY RenderType DEF Select, PageInv, PageTypes, PageVarTypes
<1>3. QED
  BY <1>1, <1>2, HistoryFresh, HandlerKept DEF Select

LEMMA OpenKept ==
  ASSUME PageInv, NEW w \in Wallets, Open(w)
  PROVE  PageInv'
<1>1. w \in Listed /\ w \in Wallets /\ token # NoUser
  BY DEF Open, Clickable, Visible
<1>2. form' \in Forms /\ forms' \in 0 .. MaxForms
  <2>1. forms' = forms + 1 /\ forms < MaxForms /\ forms \in 0 .. MaxForms
    BY DEF Open, PageInv, PageTypes
  <2>2. forms' \in 0 .. MaxForms
    BY <2>1, PageConstants
  <2>3. InFlight({"login", "me", "wallets"}) \in BOOLEAN
    BY Zenon DEF InFlight
  <2>4. form' = [kind |-> "post", id |-> forms', wallet |-> w,
                 refreshing |-> InFlight({"login", "me", "wallets"})]
    BY DEF Open
  <2>5. QED
    BY <2>2, <2>3, <2>4 DEF Forms
<1>3. PageVarTypes'
  BY <1>2, RenderType DEF Open, PageInv, PageTypes, PageVarTypes
<1>4. CASE w = active
  BY <1>1, <1>3, <1>4, NoneSent, HandlerKept DEF Open
<1>5. CASE w # active
  BY <1>1, <1>3, <1>5, HistoryFresh, HandlerKept DEF Open
<1>6. QED
  BY <1>4, <1>5

\* Steps that send nothing and change only the modal or the tab.
LEMMA QuietKept ==
  ASSUME PageInv, OpenCreate \/ Close \/ (\E t \in {"dashboard", "transactions"} : Tab(t))
  PROVE  PageInv'
<1>1. UNCHANGED <<token, user, shown, rows, active, calls, database, calm>>
  BY DEF OpenCreate, Close, Tab
<1>2. form' \in Forms
  <2>1. [Closed EXCEPT !.kind = "create"] \in Forms
    BY UnservedType DEF Forms
  <2>2. QED
    BY <2>1, UnservedType DEF OpenCreate, Close, Tab, PageInv, PageTypes
<1>3. PageVarTypes'
  BY <1>2, RenderType DEF OpenCreate, Close, Tab, PageInv, PageTypes, PageVarTypes
<1>4. Send(calls, <<>>)
  BY <1>1, NothingSent DEF PageInv
<1>5. QED
  BY <1>1, <1>3, <1>4, NoneSent, HandlerKept

LEMMA SearchKept ==
  ASSUME PageInv, Search
  PROVE  PageInv'
<1>1. UNCHANGED <<token, user, shown, rows, active, database, calm>> /\ PageVarTypes'
  BY DEF Search, page, PageInv, PageTypes, PageVarTypes
<1>2. active \in Wallets \cup {NoWallet}
  BY DEF PageInv, PageTypes
<1>3. QED
  BY <1>1, <1>2, HistoryFresh, HandlerKept DEF Search

LEMMA SubmitKept ==
  ASSUME PageInv, (\E to \in Wallets \cup {NoWallet} : Submit(to))
                  \/ (\E w \in Wallets : SubmitCreate(w))
  PROVE  PageInv'
<1>1. PICK kind \in {"post", "create"}, w \in Wallets, to \in Wallets \cup {NoWallet} :
        Send(calls, <<Call(kind, token, active, form, w, to)>>)
  BY DEF Submit, SubmitCreate, PageInv, PageTypes
<1> DEFINE c == Call(kind, token, active, form, w, to)
<1>2. /\ token \in Users /\ active \in Wallets \cup {NoWallet}
      /\ calm /\ active # NoWallet => Belongs(active, token)
  BY DEF Submit, SubmitCreate, Visible, PageInv, PageTypes, Calm
<1>3. c \in Calls /\ Addressed(c) /\ c.reply = Unserved
      /\ c.active = active /\ c.token = token
  <2>1. form \in Forms
    BY DEF PageInv, PageTypes
  <2>2. /\ c \in Calls /\ c.kind = kind /\ c.token = token /\ c.active = active
        /\ c.arg = w /\ c.reply = Unserved
    BY <1>2, <2>1, UnservedType DEF Call, Calls
  <2>3. QED
    BY <1>2, <2>2 DEF Addressed
<1>4. Send(calls, <<c>>)
  BY <1>1
<1> HIDE DEF c
<1>5. UNCHANGED <<token, user, shown, rows, active, database, calm>> /\ PageVarTypes'
  BY DEF Submit, SubmitCreate, page, PageInv, PageTypes, PageVarTypes
<1>6. QED
  BY <1>2, <1>3, <1>4, <1>5, OneCall, HandlerKept

LEMMA CalmStays ==
  ASSUME NEW i, StaysCalm(i)
  PROVE  /\ calm' \in BOOLEAN
         /\ calm' => /\ calm /\ calls[i].token = token
                     /\ \A j \in 1 .. i - 1 : calls[j].kind # calls[i].kind
                     /\ ~(/\ calls[i].kind \in {"wallets", "history"}
                          /\ calls[i].reply.status = "denied")
BY Zenon DEF StaysCalm

LEMMA ArrivedCall ==
  ASSUME PageInv, NEW i \in 1 .. MaxCalls, i <= Len(calls)
  PROVE  /\ i \in DOMAIN calls /\ calls[i] \in Calls
         /\ Addressed(calls[i])
         /\ Truthful(calls[i].reply, calls[i].token)
         /\ calm /\ calls[i].active # NoWallet => Belongs(calls[i].active, calls[i].token)
         /\ Rest(i) \in Seq(Calls)
         /\ \A j \in DOMAIN Rest(i) : \E k \in DOMAIN calls : Rest(i)[j] = calls[k]
<1>1. calls \in Seq(Calls)
  BY DEF PageInv, PageTypes
<1>2. i \in DOMAIN calls
  BY <1>1
<1>3. calls[i] \in Calls
  BY <1>1, <1>2
<1>4. /\ Rest(i) \in Seq(Calls)
      /\ \A j \in DOMAIN Rest(i) : \E k \in DOMAIN calls : Rest(i)[j] = calls[k]
  BY <1>1, <1>2, RestCalls
<1>5. QED
  BY <1>2, <1>3, <1>4 DEF PageInv, CallsTruth

\* The handler of a reply, from its await on.
LEMMA ReplyKept ==
  ASSUME PageInv, NEW i \in 1 .. MaxCalls, i <= Len(calls),
         UNCHANGED database, calm' => calm, PageVarTypes',
         NEW more \in Seq(Calls), Send(Rest(i), more),
         \A j \in DOMAIN more :
           /\ Addressed(more[j]) /\ more[j].reply = Unserved
           /\ calm' /\ more[j].active # NoWallet => Belongs(more[j].active, more[j].token),
         \A w \in Listed' : Stored(w),
         rows'.wallet # NoWallet => rows'.entries <= entries[rows'.wallet],
         calm' /\ token' = NoUser => /\ user' = NoUser /\ shown' = <<>>
                                     /\ active' = NoWallet /\ rows' = NoRows,
         calm' /\ user' # NoUser => user' = token',
         calm' /\ active' # NoWallet => Belongs(active', token'),
         calm' => \A w \in Listed' : Owner[w] = token'
  PROVE  PageInv'
BY ArrivedCall, PageKept

LEMMA NoneListed == shown' = <<>> => Listed' = {}
BY DEF Listed

LEMMA LoggedInKept ==
  ASSUME PageInv, NEW i \in 1 .. MaxCalls, LoggedIn(i)
  PROVE  PageInv'
<1>1. i <= Len(calls) /\ calls[i].kind = "login" /\ UNCHANGED database
  BY DEF LoggedIn, Arrived
<1>2. calls[i].token = NoUser /\ token' \in Users
  BY <1>1, ArrivedCall DEF LoggedIn, Addressed
<1>3. UNCHANGED <<user, shown, active, rows, tab, form, forms>>
  BY DEF LoggedIn
<1>4. calm' \in BOOLEAN /\ (calm' => calm /\ token = NoUser)
  BY <1>2, CalmStays DEF LoggedIn
<1>5. calm' => user = NoUser /\ shown = <<>> /\ active = NoWallet
  BY <1>4 DEF PageInv, Calm
<1>6. Listed' = Listed /\ (calm' => Listed' = {})
  BY <1>3, <1>5, NoneListed DEF Listed
<1>7. PageVarTypes'
  BY <1>2, <1>3, <1>4, RenderType DEF LoggedIn, PageInv, PageTypes, PageVarTypes
<1> DEFINE c == Me(token')
<1>8. c \in Calls /\ c.active = NoWallet /\ c.reply = Unserved /\ Addressed(c)
  BY <1>2, OtherCalls
<1>9. Send(Rest(i), <<c>>)
  BY DEF LoggedIn
<1> HIDE DEF c
<1>10. token' # NoUser
  BY <1>2, PageConstants
<1>11. QED
  BY <1>1, <1>3, <1>4, <1>5, <1>6, <1>7, <1>8, <1>9, <1>10, OneCall, ReplyKept
     DEF PageInv, PageTruth

LEMMA ConcatElements ==
  ASSUME NEW S, NEW s \in Seq(S), NEW t \in Seq(S)
  PROVE  /\ s \o t \in Seq(S) /\ Len(s \o t) = Len(s) + Len(t)
         /\ \A j \in DOMAIN (s \o t) :
              \/ \E k \in DOMAIN s : (s \o t)[j] = s[k]
              \/ \E k \in DOMAIN t : (s \o t)[j] = t[k]
<1>1. /\ s \o t \in Seq(S) /\ Len(s \o t) = Len(s) + Len(t)
      /\ \A j \in 1 .. Len(s) + Len(t) :
           (s \o t)[j] = IF j <= Len(s) THEN s[j] ELSE t[j - Len(s)]
  BY ConcatProperties
<1>2. ASSUME NEW j \in 1 .. Len(s) + Len(t)
      PROVE  \/ \E k \in DOMAIN s : (s \o t)[j] = s[k]
             \/ \E k \in DOMAIN t : (s \o t)[j] = t[k]
  <2>1. CASE j <= Len(s)
    BY <1>1, <2>1
  <2>2. CASE ~(j <= Len(s))
    <3>1. j - Len(s) \in DOMAIN t
      BY <2>2
    <3>2. (s \o t)[j] = t[j - Len(s)]
      BY <1>1, <2>2
    <3>3. QED
      BY <3>1, <3>2
  <2>3. QED
    BY <2>1, <2>2
<1>3. QED
  BY <1>1, <1>2

LEMMA GotProfileKept ==
  ASSUME PageInv, NEW i \in 1 .. MaxCalls, GotProfile(i)
  PROVE  PageInv'
<1>1. i <= Len(calls) /\ calls[i].kind = "me" /\ UNCHANGED database
  BY DEF GotProfile, Arrived
<1>2. calls[i].token \in Users /\ user' = calls[i].token
  BY <1>1, ArrivedCall DEF GotProfile, Addressed
<1>3. UNCHANGED <<token, shown, active, rows, tab, form, blank, forms>>
  BY DEF GotProfile
<1>4. calm' \in BOOLEAN /\ (calm' => calm /\ calls[i].token = token)
  BY CalmStays DEF GotProfile
<1>5. Listed' = Listed
  BY <1>3 DEF Listed
<1>6. PageVarTypes'
  BY <1>2, <1>3, <1>4 DEF PageInv, PageTypes, PageVarTypes
<1> DEFINE h == HistoryEffect(token, user', active)
           more == IF token = NoUser THEN <<>> ELSE <<FetchWallets(token, active)>> \o h
<1>7. Send(Rest(i), more)
  BY DEF GotProfile
<1>8. active \in Wallets \cup {NoWallet} /\ token \in Users \cup {NoUser}
  BY DEF PageInv, PageTypes
<1>9. /\ more \in Seq(Calls)
      /\ \A j \in DOMAIN more :
           /\ Addressed(more[j]) /\ more[j].reply = Unserved
           /\ calm' /\ more[j].active # NoWallet => Belongs(more[j].active, more[j].token)
  <2>1. CASE token = NoUser
    <3>1. more = <<>>
      BY <2>1
    <3> HIDE DEF more
    <3>2. QED
      BY <3>1, NoneSent
  <2>2. CASE token # NoUser
    <3> DEFINE c == FetchWallets(token, active)
    <3>1. /\ c \in Calls /\ c.token = token /\ c.active = active
          /\ c.reply = Unserved /\ Addressed(c)
      BY <1>8, <2>2, OtherCalls
    <3>2. /\ h \in Seq(Calls)
          /\ \A j \in DOMAIN h :
               /\ Addressed(h[j]) /\ h[j].reply = Unserved
               /\ calm /\ h[j].active # NoWallet => Belongs(h[j].active, h[j].token)
      BY <1>8, HistoryFresh
    <3>3. calm /\ active # NoWallet => Belongs(active, token)
      BY DEF PageInv, Calm
    <3>4. more = <<c>> \o h
      BY <2>2
    <3> HIDE DEF c, h, more
    <3>5. /\ <<c>> \in Seq(Calls) /\ \A j \in DOMAIN <<c>> : <<c>>[j] = c
      BY <3>1, OneCall
    <3>6. /\ more \in Seq(Calls)
          /\ \A j \in DOMAIN more :
               more[j] = c \/ \E k \in DOMAIN h : more[j] = h[k]
      <4>1. PICK s : s = <<c>>
        OBVIOUS
      <4>2. /\ s \o h \in Seq(Calls)
            /\ \A j \in DOMAIN (s \o h) :
                 \/ \E k \in DOMAIN s : (s \o h)[j] = s[k]
                 \/ \E k \in DOMAIN h : (s \o h)[j] = h[k]
        BY <3>2, <3>5, <4>1, ConcatElements
      <4>3. QED
        BY <3>4, <3>5, <4>1, <4>2
    <3>7. QED
      BY <1>4, <3>1, <3>2, <3>3, <3>6
  <2>3. QED
    BY <2>1, <2>2
<1> HIDE DEF more, h
<1>10. token \notin Users => token = NoUser
  BY <1>8
<1>11. calm' => token # NoUser
  BY <1>2, <1>4, PageConstants
<1>12. QED
  BY <1>1, <1>2, <1>3, <1>4, <1>5, <1>6, <1>7, <1>9, <1>11, ReplyKept
     DEF PageInv, PageTruth, Calm

LEMMA ProfileRefusedKept ==
  ASSUME PageInv, NEW i \in 1 .. MaxCalls, ProfileRefused(i)
  PROVE  PageInv'
<1>1. i <= Len(calls) /\ UNCHANGED <<database, forms>> /\ calls' = Rest(i)
  BY DEF ProfileRefused, Arrived
<1>2. Send(Rest(i), <<>>)
  BY <1>1, ArrivedCall, NothingSent DEF PageInv
<1>3. calm' \in BOOLEAN /\ (calm' => calm)
  BY CalmStays DEF ProfileRefused
<1>4. /\ token' = NoUser /\ user' = NoUser /\ shown' = <<>>
      /\ active' = NoWallet /\ rows' = NoRows
      /\ UNCHANGED <<tab, form, blank>>
  BY DEF ProfileRefused, SignedOut
<1>5. <<>> \in Seq(Cards) /\ NoRows \in Rows /\ NoRows.wallet = NoWallet
  BY UnservedType, NoCall DEF NoRows
<1>6. PageVarTypes'
  BY <1>1, <1>3, <1>4, <1>5 DEF PageInv, PageTypes, PageVarTypes
<1>7. QED
  BY <1>1, <1>2, <1>3, <1>4, <1>5, <1>6, NoneListed, NoneSent, ReplyKept

\* The wallets of a reply are those of the caller.
LEMMA ReplyWallets ==
  ASSUME PageInv, NEW i \in 1 .. MaxCalls, i <= Len(calls), calls[i].token \in Users,
         NEW j \in DOMAIN calls[i].reply.wallets
  PROVE  /\ calls[i].reply.wallets[j].id \in Wallets
         /\ Belongs(calls[i].reply.wallets[j].id, calls[i].token)
<1> DEFINE w == calls[i].reply.wallets[j].id
<1>1. calls[i] \in Calls /\ Truthful(calls[i].reply, calls[i].token)
  BY ArrivedCall
<1>2. calls[i].reply.wallets \in Seq(Cards)
  BY <1>1 DEF Calls, Replies
<1>3. w \in Wallets
  <2>1. calls[i].reply.wallets[j] \in Cards
    BY <1>2
  <2>2. QED
    BY <2>1 DEF Cards
<1>4. w \in ToSet(stored[calls[i].token])
  BY <1>1 DEF Truthful
<1> HIDE DEF w
<1>5. Owner[w] = calls[i].token
  BY <1>4 DEF PageInv, PageTypes
<1>6. QED
  BY <1>3, <1>4, <1>5 DEF Belongs, Stored, w

\* The wallet that is active after the wallets have arrived.
LEMMA ChosenWallet ==
  ASSUME PageInv, NEW i \in 1 .. MaxCalls, GotWallets(i)
  PROVE  LET c == calls[i]
             data == c.reply.wallets
             chosen == IF data = <<>> THEN {}
                       ELSE IF c.active = NoWallet THEN {data[1].id}
                       ELSE {c.active} \cap {data[j].id : j \in DOMAIN data} IN
         /\ data \in Seq(Cards) /\ shown' = data
         /\ \A w \in chosen : \E j \in DOMAIN data : w = data[j].id
         /\ chosen = {} => active' = active
         /\ chosen # {} => active' \in chosen
         /\ Send(Rest(i), IF chosen = {} THEN <<>> ELSE HistoryEffect(token, user, active'))
<1> DEFINE c == calls[i]
           data == c.reply.wallets
           chosen == IF data = <<>> THEN {}
                     ELSE IF c.active = NoWallet THEN {data[1].id}
                     ELSE {c.active} \cap {data[j].id : j \in DOMAIN data}
<1>1. data \in Seq(Cards)
  BY ArrivedCall DEF GotWallets, Arrived, Calls, Replies
<1>2. ASSUME NEW w \in chosen
      PROVE  \E j \in DOMAIN data : w = data[j].id
  <2>1. data # <<>> => 1 \in DOMAIN data
    BY <1>1, EmptySeq
  <2>2. QED
    BY <2>1
<1>3. /\ shown' = data
      /\ active' \in IF chosen = {} THEN {active} ELSE chosen
      /\ Send(Rest(i), IF chosen = {} THEN <<>> ELSE HistoryEffect(token, user, active'))
  BY DEF GotWallets
<1> HIDE DEF chosen
<1>4. /\ chosen = {} => active' = active
      /\ chosen # {} => active' \in chosen
  BY <1>3
<1>5. QED
  BY <1>1, <1>2, <1>3, <1>4 DEF chosen

LEMMA GotWalletsKept ==
  ASSUME PageInv, NEW i \in 1 .. MaxCalls, GotWallets(i)
  PROVE  PageInv'
<1>1. i <= Len(calls) /\ calls[i].kind = "wallets" /\ UNCHANGED database
  BY DEF GotWallets, Arrived
<1>2. calls[i].token \in Users
  BY <1>1, ArrivedCall DEF Addressed
<1>3. UNCHANGED <<token, user, rows, tab, form, forms>>
  BY DEF GotWallets
<1>4. calm' \in BOOLEAN /\ (calm' => calm /\ calls[i].token = token)
  BY CalmStays DEF GotWallets
<1> DEFINE c == calls[i]
           data == c.reply.wallets
           chosen == IF data = <<>> THEN {}
                     ELSE IF c.active = NoWallet THEN {data[1].id}
                     ELSE {c.active} \cap {data[j].id : j \in DOMAIN data}
           more == IF chosen = {} THEN <<>> ELSE HistoryEffect(token, user, active')
<1>5. /\ data \in Seq(Cards) /\ shown' = data
      /\ \A w \in chosen : \E j \in DOMAIN data : w = data[j].id
      /\ chosen = {} => active' = active
      /\ chosen # {} => active' \in chosen
      /\ Send(Rest(i), more)
  BY ChosenWallet
<1>6. \A j \in DOMAIN data : data[j].id \in Wallets /\ Belongs(data[j].id, calls[i].token)
  BY <1>1, <1>2, ReplyWallets
<1> HIDE DEF chosen, data
<1>7. \A w \in Listed' : Stored(w) /\ Owner[w] = calls[i].token
  BY <1>5, <1>6 DEF Listed, Belongs
<1>8. \/ active' = active /\ chosen = {}
      \/ /\ active' \in Wallets /\ Belongs(active', calls[i].token)
  BY <1>5, <1>6
<1>9. active' \in Wallets \cup {NoWallet}
  BY <1>8 DEF PageInv, PageTypes
<1>10. calm' /\ active' # NoWallet => Belongs(active', token)
  BY <1>4, <1>8 DEF PageInv, Calm
<1>11. PageVarTypes'
  BY <1>3, <1>4, <1>5, <1>9, RenderType DEF GotWallets, PageInv, PageTypes, PageVarTypes
<1>12. /\ more \in Seq(Calls)
       /\ \A j \in DOMAIN more :
            /\ Addressed(more[j]) /\ more[j].reply = Unserved
            /\ calm' /\ more[j].active # NoWallet => Belongs(more[j].active, more[j].token)
  <2>1. CASE chosen = {}
    <3>1. more = <<>>
      BY <2>1
    <3> HIDE DEF more
    <3>2. QED
      BY <3>1, NoneSent
  <2>2. CASE chosen # {}
    <3> DEFINE h == HistoryEffect(token, user, active')
    <3>1. token \in Users \cup {NoUser}
      BY DEF PageInv, PageTypes
    <3>2. h \in Seq(Calls)
      BY <1>9, <3>1, HistoryCalls
    <3>3. ASSUME NEW j \in DOMAIN h
          PROVE  /\ h[j].token = token /\ h[j].active = active'
                 /\ Addressed(h[j]) /\ h[j].reply = Unserved
      BY <1>9, <3>1, HistoryCalls
    <3>4. more = h
      BY <2>2
    <3> HIDE DEF h, more
    <3>5. QED
      BY <1>10, <3>2, <3>3, <3>4
  <2>3. QED
    BY <2>1, <2>2
<1> HIDE DEF more
<1>13. calm' => token # NoUser
  BY <1>2, <1>4, PageConstants
<1>14. QED
  BY <1>1, <1>3, <1>4, <1>5, <1>7, <1>10, <1>11, <1>12, <1>13, ReplyKept
     DEF PageInv, PageTruth, Calm

LEMMA GotTransactionsKept ==
  ASSUME PageInv, NEW i \in 1 .. MaxCalls, GotTransactions(i)
  PROVE  PageInv'
<1>1. i <= Len(calls) /\ calls[i].kind = "history" /\ UNCHANGED database
      /\ calls' = Rest(i)
  BY DEF GotTransactions, Arrived
<1>2. Send(Rest(i), <<>>)
  BY <1>1, ArrivedCall, NothingSent DEF PageInv
<1>3. calls[i].token \in Users
  BY <1>1, ArrivedCall DEF Addressed
<1>4. UNCHANGED <<token, user, shown, active, tab, form, forms>>
  BY DEF GotTransactions
<1>5. calm' \in BOOLEAN /\ (calm' => calm /\ calls[i].token = token)
  BY CalmStays DEF GotTransactions
<1>6. calls[i] \in Calls /\ Truthful(calls[i].reply, calls[i].token)
  BY <1>1, ArrivedCall
<1>7. rows' = calls[i].reply.rows
  BY DEF GotTransactions
<1>8. rows' \in Rows /\ (rows'.wallet # NoWallet => rows'.entries <= entries[rows'.wallet])
  BY <1>6, <1>7 DEF Calls, Replies, Truthful
<1>9. PageVarTypes'
  BY <1>4, <1>5, <1>8, RenderType DEF GotTransactions, PageInv, PageTypes, PageVarTypes
<1>10. Listed' = Listed
  BY <1>4 DEF Listed
<1>11. calm' => token # NoUser
  BY <1>3, <1>5, PageConstants
<1>12. QED
  BY <1>1, <1>2, <1>4, <1>5, <1>8, <1>9, <1>10, <1>11, NoneSent, ReplyKept
     DEF PageInv, PageTruth, Calm

LEMMA DoneKept ==
  ASSUME PageInv, NEW i \in 1 .. MaxCalls, Done(i)
  PROVE  PageInv'
<1>1. i <= Len(calls) /\ calls[i].kind \in {"post", "create"} /\ UNCHANGED database
  BY DEF Done, Arrived
<1>2. calls[i].token \in Users /\ calls[i].active \in Wallets \cup {NoWallet}
  BY <1>1, ArrivedCall DEF Addressed, Calls
<1>3. UNCHANGED <<token, user, shown, active, rows, tab, blank, forms>>
  BY DEF Done
<1>4. calm' \in BOOLEAN /\ (calm' => calm)
  BY CalmStays DEF Done
<1> DEFINE c == FetchWallets(calls[i].token, calls[i].active)
<1>5. /\ c \in Calls /\ c.token = calls[i].token /\ c.active = calls[i].active
      /\ c.reply = Unserved /\ Addressed(c)
  BY <1>2, OtherCalls
<1>6. Send(Rest(i), <<c>>)
  BY DEF Done
<1> HIDE DEF c
<1>7. calm' /\ c.active # NoWallet => Belongs(c.active, c.token)
  BY <1>1, <1>4, <1>5, ArrivedCall
<1>8. form' \in Forms
  BY UnservedType DEF Done
<1>9. PageVarTypes'
  BY <1>3, <1>4, <1>8 DEF PageInv, PageTypes, PageVarTypes
<1>10. Listed' = Listed
  BY <1>3 DEF Listed
<1> DEFINE more == <<c>>
<1>11. /\ more \in Seq(Calls)
       /\ \A j \in DOMAIN more :
            /\ Addressed(more[j]) /\ more[j].reply = Unserved
            /\ calm' /\ more[j].active # NoWallet => Belongs(more[j].active, more[j].token)
  BY <1>5, <1>7, OneCall
<1>12. Send(Rest(i), more)
  BY <1>6
<1> HIDE DEF more
<1>13. QED
  BY <1>1, <1>3, <1>4, <1>9, <1>10, <1>11, <1>12, ReplyKept
     DEF PageInv, PageTruth, Calm

LEMMA DroppedKept ==
  ASSUME PageInv, NEW i \in 1 .. MaxCalls, Ignored(i) \/ Lose(i)
  PROVE  PageInv'
<1>1. i <= Len(calls) /\ calls' = Rest(i) /\ UNCHANGED <<page, database, forms>>
  BY DEF Ignored, Lose, Arrived
<1>2. Send(Rest(i), <<>>)
  BY <1>1, ArrivedCall, NothingSent DEF PageInv
<1>3. calm' \in BOOLEAN /\ (calm' => calm)
  BY CalmStays DEF Ignored, Lose
<1>4. UNCHANGED <<token, user, shown, active, rows, tab, form, blank, forms, database>>
  BY <1>1 DEF page
<1>5. PageVarTypes'
  BY <1>3, <1>4 DEF PageInv, PageTypes, PageVarTypes
<1>6. Listed' = Listed
  BY <1>4 DEF Listed
<1>7. QED
  BY <1>1, <1>2, <1>3, <1>4, <1>5, <1>6, NoneSent, ReplyKept
     DEF PageInv, PageTruth, Calm

LEMMA LogoutKept ==
  ASSUME PageInv, Logout
  PROVE  PageInv'
<1>1. UNCHANGED <<calls, database, forms, calm>>
  BY DEF Logout
<1>2. /\ token' = NoUser /\ user' = NoUser /\ shown' = <<>>
      /\ active' = NoWallet /\ rows' = NoRows
      /\ UNCHANGED <<tab, form, blank>>
  BY DEF Logout, SignedOut
<1>3. <<>> \in Seq(Cards) /\ NoRows \in Rows /\ NoRows.wallet = NoWallet
  BY UnservedType, NoCall DEF NoRows
<1>4. PageVarTypes'
  BY <1>1, <1>2, <1>3 DEF PageInv, PageTypes, PageVarTypes
<1>5. Send(calls, <<>>) /\ calls \in Seq(Calls)
  BY <1>1, NothingSent DEF PageInv, PageTypes
<1>6. QED
  BY <1>1, <1>2, <1>3, <1>4, <1>5, NoneListed, NoneSent, PageKept

LEMMA ReloadKept ==
  ASSUME PageInv, Reload
  PROVE  PageInv'
<1>1. /\ user' = NoUser /\ shown' = <<>> /\ active' = NoWallet /\ rows' = NoRows
      /\ tab' = "dashboard" /\ form' = Closed /\ blank' = FALSE
      /\ UNCHANGED <<token, stored, entries, posted, forms>>
  BY DEF Reload, database
<1>2. calm' \in BOOLEAN
  BY Zenon DEF Reload
<1>3. <<>> \in Seq(Cards) /\ NoRows \in Rows /\ NoRows.wallet = NoWallet
      /\ Closed \in Forms
  BY UnservedType, NoCall DEF NoRows
<1>4. /\ calls' \in Seq(Calls) /\ Len(calls') <= MaxCalls
      /\ \A j \in DOMAIN calls' : calls'[j] = Me(token) /\ token \in Users
  <2>1. CASE token = NoUser
    <3>1. calls' = <<>>
      BY <2>1 DEF Reload
    <3>2. QED
      BY <3>1, NoCall, PageConstants
  <2>2. CASE token # NoUser
    <3> DEFINE c == Me(token)
    <3>1. token \in Users
      BY <2>2 DEF PageInv, PageTypes
    <3>2. c \in Calls
      BY <3>1, OtherCalls
    <3>3. calls' = <<c>>
      BY <2>2 DEF Reload
    <3> HIDE DEF c
    <3>4. /\ calls' \in Seq(Calls) /\ Len(calls') = 1
          /\ \A j \in DOMAIN calls' : calls'[j] = c
      BY <3>2, <3>3, OneCall
    <3>5. QED
      BY <3>1, <3>4, PageConstants DEF c
  <2>3. QED
    BY <2>1, <2>2
<1>5. CallsTruth'
  <2>1. ASSUME NEW j \in DOMAIN calls', NEW c, c = calls'[j]
        PROVE  Addressed(c) /\ Truthful(c.reply, c.token)' /\ c.active = NoWallet
    <3>1. c = Me(token) /\ token \in Users
      BY <1>4, <2>1
    <3>2. c.active = NoWallet /\ c.reply = Unserved /\ Addressed(c)
      BY <3>1, OtherCalls
    <3>3. DOMAIN c.reply.wallets = {} /\ c.reply.rows.wallet = NoWallet
      BY <3>2, ReplyHolds, NoCall
    <3>4. QED
      BY <3>2, <3>3 DEF Truthful
  <2>2. QED
    BY <2>1 DEF CallsTruth, Truthful
<1>6. PageTypes'
  BY <1>1, <1>2, <1>3, <1>4 DEF PageInv, PageTypes
<1>7. PageTruth' /\ Calm'
  BY <1>1, <1>3, NoneListed DEF PageTruth, Calm
<1>8. QED
  BY <1>5, <1>6, <1>7 DEF PageInv

-----------------------------------------------------------------------------
(* The server keeps PageInv: what it writes only grows.                    *)

LEMMA ServerKept ==
  ASSUME PageInv, UNCHANGED <<page, calm>>,
         NEW i \in DOMAIN calls, NEW r \in Replies, Answer(i, r),
         stored' \in [Users -> Seq(Wallets)], entries' \in [Wallets -> Nat],
         \A u \in Users : /\ IsInjective(stored'[u])
                          /\ \A w \in ToSet(stored'[u]) : Owner[w] = u
                          /\ ToSet(stored[u]) \subseteq ToSet(stored'[u]),
         \A w \in Wallets : entries'[w] >= entries[w],
         posted' \in Seq(Postings), Len(posted') <= MaxPostings, forms' = forms,
         \A j \in DOMAIN r.wallets : /\ calls[i].token \in Users
                                      /\ r.wallets[j].id \in ToSet(stored'[calls[i].token]),
         r.rows.wallet # NoWallet => r.rows.entries <= entries'[r.rows.wallet]
  PROVE  PageInv'
<1>1. calls \in Seq(Calls)
  BY DEF PageInv, PageTypes
<1>2. /\ calls' \in Seq(Calls) /\ Len(calls') = Len(calls)
      /\ DOMAIN calls' = DOMAIN calls
      /\ \A j \in DOMAIN calls :
           /\ calls'[j].kind = calls[j].kind /\ calls'[j].token = calls[j].token
           /\ calls'[j].active = calls[j].active /\ calls'[j].arg = calls[j].arg
           /\ calls'[j].reply = IF j = i THEN r ELSE calls[j].reply
  BY <1>1, AnsweredCalls
<1>3. UNCHANGED <<token, user, shown, active, rows, tab, form, blank, calm>>
  BY DEF page
<1>4. PageTypes'
  BY <1>2, <1>3 DEF PageInv, PageTypes
<1>5. \A w \in Wallets : Stored(w) => Stored(w)'
  BY PageConstants DEF Stored
<1>6. \A q \in Rows : q.wallet # NoWallet /\ q.entries <= entries[q.wallet] =>
                        q.entries <= entries'[q.wallet]
  <2> SUFFICES ASSUME NEW q \in Rows, q.wallet # NoWallet, q.entries <= entries[q.wallet]
               PROVE  q.entries <= entries'[q.wallet]
    OBVIOUS
  <2>1. q.wallet \in Wallets /\ q.entries \in Nat
    BY DEF Rows
  <2>2. entries[q.wallet] \in Nat /\ entries'[q.wallet] \in Nat
    BY <2>1 DEF PageInv, PageTypes
  <2>3. QED
    BY <2>1, <2>2
<1>7. Listed' = Listed
  BY <1>3 DEF Listed
<1>8. \A w \in Listed : w \in Wallets
  BY ListedWallets DEF PageInv
<1>9. PageTruth'
  BY <1>3, <1>5, <1>6, <1>7, <1>8 DEF PageInv, PageTypes, PageTruth
<1>10. Calm'
  BY <1>3, <1>5, <1>7 DEF PageInv, PageTypes, Calm, Belongs
<1>11. CallsTruth'
  <2>1. ASSUME NEW j \in DOMAIN calls, NEW c, c = calls[j], NEW d, d = calls'[j]
        PROVE  /\ Addressed(d)
               /\ Truthful(d.reply, d.token)'
               /\ calm' /\ d.active # NoWallet => Belongs(d.active, d.token)'
    <3>1. c \in Calls /\ Addressed(c) /\ Truthful(c.reply, c.token)
          /\ (calm /\ c.active # NoWallet => Belongs(c.active, c.token))
      BY <1>1, <2>1 DEF PageInv, CallsTruth
    <3>2. /\ d.kind = c.kind /\ d.token = c.token /\ d.active = c.active
          /\ d.arg = c.arg /\ d.reply = IF j = i THEN r ELSE c.reply
      BY <1>2, <2>1
    <3>3. Addressed(d)
      BY <3>1, <3>2 DEF Addressed
    <3>4. Truthful(d.reply, d.token)'
      <4>1. CASE j = i
        BY <2>1, <3>2, <4>1 DEF Truthful
      <4>2. CASE j # i
        <5>1. d.reply = c.reply /\ c.reply.rows \in Rows /\ c.reply.wallets \in Seq(Cards)
          BY <3>1, <3>2, <4>2 DEF Calls, Replies
        <5>2. \A k \in DOMAIN c.reply.wallets :
                c.token \in Users /\ c.reply.wallets[k].id \in ToSet(stored'[c.token])
          BY <3>1 DEF Truthful
        <5>3. QED
          BY <1>6, <3>1, <3>2, <5>1, <5>2 DEF Truthful
      <4>3. QED
        BY <4>1, <4>2
    <3>5. calm' /\ d.active # NoWallet => Belongs(d.active, d.token)'
      BY <1>3, <1>5, <3>1, <3>2 DEF Belongs, Calls
    <3>6. QED
      BY <3>3, <3>4, <3>5
  <2>2. QED
    BY <1>2, <2>1 DEF CallsTruth, Truthful, Belongs, Stored
<1>12. QED
  BY <1>4, <1>9, <1>10, <1>11 DEF PageInv

LEMMA ListType ==
  ASSUME PageTypes, NEW u \in Users
  PROVE  /\ List(u) \in Seq(Cards) /\ Len(List(u)) = Len(stored[u])
         /\ DOMAIN List(u) = DOMAIN stored[u]
         /\ \A j \in DOMAIN stored[u] :
              List(u)[j] = [id |-> stored[u][j], entries |-> entries[stored[u][j]]]
<1> DEFINE s == stored[u]
           l == List(u)
<1>1. s \in Seq(Wallets) /\ entries \in [Wallets -> Nat]
  BY DEF PageTypes
<1>2. DOMAIN s = 1 .. Len(s) /\ Len(s) \in Nat
  BY <1>1
<1>3. l = [j \in DOMAIN s |-> [id |-> s[j], entries |-> entries[s[j]]]]
  BY DEF List
<1> HIDE DEF l, s
<1>4. ASSUME NEW j \in DOMAIN s
      PROVE  l[j] = [id |-> s[j], entries |-> entries[s[j]]] /\ l[j] \in Cards
  <2>1. s[j] \in Wallets
    BY <1>1
  <2>2. entries[s[j]] \in Nat
    BY <1>1, <2>1
  <2>3. l[j] = [id |-> s[j], entries |-> entries[s[j]]]
    BY <1>3
  <2>4. QED
    BY <2>1, <2>2, <2>3 DEF Cards
<1>5. l \in [1 .. Len(s) -> Cards]
  BY <1>2, <1>3, <1>4
<1>6. l \in Seq(Cards) /\ Len(l) = Len(s)
  BY <1>2, <1>5
<1>7. QED
  BY <1>2, <1>4, <1>5, <1>6 DEF l, s

LEMMA WaitingCall ==
  ASSUME PageInv, NEW i \in 1 .. MaxCalls, Waiting(i)
  PROVE  i \in DOMAIN calls /\ calls[i] \in Calls /\ Addressed(calls[i])
BY ArrivedCall DEF Waiting

\* What the server says of itself in ServerKept, when it writes nothing.
LEMMA DatabaseAsItIs ==
  ASSUME PageInv, UNCHANGED <<stored, entries, posted>>
  PROVE  /\ stored' \in [Users -> Seq(Wallets)] /\ entries' \in [Wallets -> Nat]
         /\ \A u \in Users : /\ IsInjective(stored'[u])
                             /\ \A w \in ToSet(stored'[u]) : Owner[w] = u
                             /\ ToSet(stored[u]) \subseteq ToSet(stored'[u])
         /\ \A w \in Wallets : entries'[w] >= entries[w]
         /\ posted' \in Seq(Postings) /\ Len(posted') <= MaxPostings
BY DEF PageInv, PageTypes

\* An answer without a list or rows.
LEMMA PlainReply ==
  ASSUME NEW s \in {"ok", "denied"}
  PROVE  LET r == [Unserved EXCEPT !.status = s] IN
         /\ r \in Replies /\ r.status = s
         /\ r.wallets = <<>> /\ DOMAIN r.wallets = {}
         /\ r.rows = NoRows /\ r.rows.wallet = NoWallet
<1>1. Unserved.wallets = <<>> /\ Unserved.rows = NoRows /\ NoRows.wallet = NoWallet
  BY DEF Unserved, NoRows
<1>2. QED
  BY <1>1, UnservedType, NoCall DEF Replies, Unserved

LEMMA OkIs == Ok = [Unserved EXCEPT !.status = "ok"]
BY DEF Ok

\* What ServeRead answers.
LEMMA ReadReply ==
  ASSUME PageInv, NEW i \in 1 .. MaxCalls, ServeRead(i)
  PROVE  \E r \in Replies :
           /\ Answer(i, r) /\ r.status = "ok"
           /\ \/ r.wallets = <<>>
              \/ /\ calls[i].kind = "wallets" /\ r.wallets = List(calls[i].token)
           /\ calls[i].kind = "wallets" => r.wallets = List(calls[i].token)
           /\ \/ r.rows = NoRows
              \/ /\ calls[i].kind = "history" /\ r.rows.wallet = calls[i].arg
                 /\ r.rows.entries <= entries[calls[i].arg]
           /\ calls[i].kind = "history" /\ Owner[calls[i].arg] = calls[i].token =>
                r.rows = [wallet |-> calls[i].arg, entries |-> entries[calls[i].arg]]
<1> DEFINE c == calls[i]
<1>1. c \in Calls /\ Addressed(c) /\ c.kind \in {"login", "me", "wallets", "history"}
  BY WaitingCall DEF ServeRead
<1>2. /\ Ok \in Replies /\ Ok.status = "ok" /\ Ok.wallets = <<>> /\ Ok.rows = NoRows
  BY PlainReply, OkIs
<1>3. CASE c.kind = "wallets"
  <2> DEFINE r == [Ok EXCEPT !.wallets = List(c.token)]
  <2>1. Answer(i, r)
    BY <1>3 DEF ServeRead
  <2>2. c.token \in Users
    BY <1>1, <1>3 DEF Addressed
  <2>3. List(c.token) \in Seq(Cards)
    BY <2>2, ListType DEF PageInv
  <2>4. /\ r \in Replies /\ r.status = "ok" /\ r.wallets = List(c.token) /\ r.rows = NoRows
    BY <1>2, <2>3 DEF Replies
  <2> HIDE DEF r
  <2>5. QED
    BY <1>3, <2>1, <2>4
<1>4. CASE c.kind = "history"
  <2> DEFINE q == [wallet |-> c.arg,
                   entries |-> IF Owner[c.arg] = c.token THEN entries[c.arg] ELSE 0]
             r == [Ok EXCEPT !.rows = q]
  <2>1. Answer(i, r)
    BY <1>4 DEF ServeRead
  <2>2. c.arg \in Wallets
    BY <1>1, <1>4 DEF Addressed
  <2>3. entries[c.arg] \in Nat
    BY <2>2 DEF PageInv, PageTypes
  <2>4. q \in Rows /\ q.wallet = c.arg /\ q.entries <= entries[c.arg]
        /\ (Owner[c.arg] = c.token => q = [wallet |-> c.arg, entries |-> entries[c.arg]])
    BY <2>2, <2>3 DEF Rows
  <2> HIDE DEF q
  <2>5. r \in Replies /\ r.status = "ok" /\ r.wallets = <<>> /\ r.rows = q
    BY <1>2, <2>4 DEF Replies
  <2> HIDE DEF r
  <2>6. QED
    BY <1>4, <2>1, <2>4, <2>5
<1>5. CASE c.kind \notin {"wallets", "history"}
  <2>1. Answer(i, Ok)
    BY <1>5 DEF ServeRead
  <2>2. QED
    BY <1>2, <1>5, <2>1
<1>6. QED
  BY <1>3, <1>4, <1>5

LEMMA ServeReadKept ==
  ASSUME PageInv, NEW i \in 1 .. MaxCalls, ServeRead(i)
  PROVE  PageInv'
<1>1. i \in DOMAIN calls /\ calls[i] \in Calls /\ Addressed(calls[i])
  BY WaitingCall DEF ServeRead
<1>2. UNCHANGED <<page, calm, stored, entries, posted, forms>>
  BY DEF ServeRead, database
<1>3. PICK r \in Replies :
        /\ Answer(i, r)
        /\ \/ r.wallets = <<>>
           \/ /\ calls[i].kind = "wallets" /\ r.wallets = List(calls[i].token)
        /\ \/ r.rows = NoRows
           \/ /\ calls[i].kind = "history" /\ r.rows.wallet = calls[i].arg
              /\ r.rows.entries <= entries[calls[i].arg]
  BY ReadReply
<1>4. ASSUME NEW j \in DOMAIN r.wallets
      PROVE  calls[i].token \in Users /\ r.wallets[j].id \in ToSet(stored[calls[i].token])
  <2>1. r.wallets # <<>>
    BY NoCall
  <2>2. r.wallets = List(calls[i].token) /\ calls[i].token \in Users
    BY <1>1, <1>3, <2>1 DEF Addressed
  <2>3. PICK u \in Users : u = calls[i].token /\ r.wallets = List(u)
    BY <2>2
  <2>4. j \in DOMAIN stored[u] /\ r.wallets[j].id = stored[u][j]
    BY <2>3 DEF List
  <2>5. QED
    BY <2>3, <2>4 DEF ToSet
<1>5. r.rows.wallet # NoWallet => r.rows.entries <= entries[r.rows.wallet]
  BY <1>3 DEF NoRows
<1>6. QED
  BY <1>1, <1>2, <1>3, <1>4, <1>5, DatabaseAsItIs, ServerKept

LEMMA DenyKept ==
  ASSUME PageInv, NEW i \in 1 .. MaxCalls, Deny(i)
  PROVE  PageInv'
<1>1. i \in DOMAIN calls
  BY WaitingCall DEF Deny
<1>2. UNCHANGED <<page, calm, stored, entries, posted, forms>>
  BY DEF Deny, database
<1> DEFINE r == [Unserved EXCEPT !.status = "denied"]
<1>3. r \in Replies /\ DOMAIN r.wallets = {} /\ r.rows.wallet = NoWallet
  BY PlainReply
<1>4. Answer(i, r)
  BY DEF Deny
<1> HIDE DEF r
<1>5. QED
  BY <1>1, <1>2, <1>3, <1>4, DatabaseAsItIs, ServerKept

LEMMA ServePostKept ==
  ASSUME PageInv, NEW i \in 1 .. MaxCalls, ServePost(i)
  PROVE  PageInv'
<1>1. i \in DOMAIN calls /\ calls[i] \in Calls /\ Addressed(calls[i])
  BY WaitingCall DEF ServePost
<1>2. UNCHANGED <<page, calm, stored, forms>>
  BY DEF ServePost
<1>3. Ok \in Replies /\ DOMAIN Ok.wallets = {} /\ Ok.rows.wallet = NoWallet
  BY PlainReply, OkIs
<1>4. Answer(i, Ok)
  BY DEF ServePost
<1>5. entries' \in [Wallets -> Nat] /\ \A w \in Wallets : entries'[w] >= entries[w]
  <2>1. PICK touched :
          entries' = [w \in Wallets |-> IF w \in touched THEN entries[w] + 1 ELSE entries[w]]
    BY DEF ServePost
  <2>2. \A w \in Wallets : entries[w] \in Nat
    BY DEF PageInv, PageTypes
  <2>3. QED
    BY <2>1, <2>2
<1>6. posted' \in Seq(Postings) /\ Len(posted') <= MaxPostings
  <2> DEFINE p == [form |-> calls[i].form, wallet |-> calls[i].arg]
  <2>1. p \in Postings
    BY <1>1 DEF ServePost, Postings, Calls, Addressed
  <2>2. posted' = Append(posted, p) /\ Len(posted) < MaxPostings
    BY DEF ServePost
  <2>3. posted \in Seq(Postings)
    BY DEF PageInv, PageTypes
  <2> HIDE DEF p
  <2>4. posted' \in Seq(Postings) /\ Len(posted') = Len(posted) + 1
    BY <2>1, <2>2, <2>3, AppendProperties
  <2>5. QED
    BY <2>2, <2>3, <2>4, PageConstants
<1>7. /\ stored' \in [Users -> Seq(Wallets)]
      /\ \A u \in Users : /\ IsInjective(stored'[u])
                          /\ \A w \in ToSet(stored'[u]) : Owner[w] = u
                          /\ ToSet(stored[u]) \subseteq ToSet(stored'[u])
  BY <1>2 DEF PageInv, PageTypes
<1>8. QED
  BY <1>1, <1>2, <1>3, <1>4, <1>5, <1>6, <1>7, ServerKept

\* A wallet that is put in front of those a user has.
LEMMA NewestFirst ==
  ASSUME NEW S, NEW s \in Seq(S), IsInjective(s), NEW x \in S, x \notin ToSet(s)
  PROVE  /\ <<x>> \o s \in Seq(S) /\ IsInjective(<<x>> \o s)
         /\ ToSet(<<x>> \o s) = {x} \cup ToSet(s)
<1>1. PICK o : o = <<x>>
  OBVIOUS
<1>2. o \in Seq(S) /\ Len(o) = 1 /\ o[1] = x
  BY <1>1, OneCall
<1> DEFINE t == o \o s
<1>3. /\ t \in Seq(S) /\ Len(t) = 1 + Len(s)
      /\ \A j \in 1 .. 1 + Len(s) : t[j] = IF j <= 1 THEN o[j] ELSE s[j - 1]
  <2>1. /\ t \in Seq(S) /\ Len(t) = Len(o) + Len(s)
        /\ \A j \in 1 .. Len(o) + Len(s) :
             t[j] = IF j <= Len(o) THEN o[j] ELSE s[j - Len(o)]
    BY <1>2, ConcatProperties
  <2> HIDE DEF t
  <2>2. QED
    BY <1>2, <2>1
<1> HIDE DEF t
<1>4. /\ DOMAIN t = 1 .. 1 + Len(s) /\ DOMAIN s = 1 .. Len(s) /\ Len(s) \in Nat
  BY <1>3
<1>5. t[1] = x /\ 1 \in DOMAIN t
  BY <1>2, <1>3, <1>4
<1>6. ASSUME NEW j \in DOMAIN t, j # 1
      PROVE  j - 1 \in DOMAIN s /\ t[j] = s[j - 1]
  BY <1>3, <1>4, <1>6
<1>7. ASSUME NEW j \in DOMAIN s
      PROVE  j + 1 \in DOMAIN t /\ t[j + 1] = s[j]
  BY <1>3, <1>4
<1>8. \A j \in DOMAIN s : s[j] # x
  BY DEF ToSet
<1>9. IsInjective(t)
  <2> SUFFICES ASSUME NEW a \in DOMAIN t, NEW b \in DOMAIN t, t[a] = t[b]
               PROVE  a = b
    BY DEF IsInjective
  <2>1. CASE a = 1 /\ b = 1
    BY <2>1
  <2>2. CASE a # 1 /\ b # 1
    <3>1. a - 1 \in DOMAIN s /\ b - 1 \in DOMAIN s /\ s[a - 1] = s[b - 1]
      BY <1>6, <2>2
    <3>2. a - 1 = b - 1
      BY <3>1 DEF IsInjective
    <3>3. QED
      BY <1>4, <3>2
  <2>3. CASE a = 1 /\ b # 1
    BY <1>5, <1>6, <1>8, <2>3
  <2>4. CASE a # 1 /\ b = 1
    BY <1>5, <1>6, <1>8, <2>4
  <2>5. QED
    BY <2>1, <2>2, <2>3, <2>4
<1>10. ToSet(t) = {x} \cup ToSet(s)
  <2>1. ASSUME NEW e \in ToSet(t)
        PROVE  e \in {x} \cup ToSet(s)
    <3>1. PICK j \in DOMAIN t : e = t[j]
      BY DEF ToSet
    <3>2. QED
      BY <1>5, <1>6, <3>1 DEF ToSet
  <2>2. ASSUME NEW e \in {x} \cup ToSet(s)
        PROVE  e \in ToSet(t)
    <3>1. CASE e = x
      BY <1>5, <3>1 DEF ToSet
    <3>2. CASE e # x
      <4>1. PICK j \in DOMAIN s : e = s[j]
        BY <3>2 DEF ToSet
      <4>2. QED
        BY <1>7, <4>1 DEF ToSet
    <3>3. QED
      BY <3>1, <3>2
  <2>3. QED
    BY <2>1, <2>2
<1>11. QED
  BY <1>1, <1>3, <1>9, <1>10 DEF t

LEMMA ServeCreateKept ==
  ASSUME PageInv, NEW i \in 1 .. MaxCalls, ServeCreate(i)
  PROVE  PageInv'
<1>1. i \in DOMAIN calls /\ calls[i] \in Calls /\ Addressed(calls[i])
  BY WaitingCall DEF ServeCreate
<1>2. UNCHANGED <<page, calm, entries, posted, forms>>
  BY DEF ServeCreate
<1>3. Ok \in Replies /\ DOMAIN Ok.wallets = {} /\ Ok.rows.wallet = NoWallet
  BY PlainReply, OkIs
<1>4. Answer(i, Ok)
  BY DEF ServeCreate
<1> DEFINE w == calls[i].arg
           t == calls[i].token
<1>5. /\ w \in Wallets /\ t \in Users /\ Owner[w] = t
      /\ w \notin ToSet(stored[t])
      /\ stored' = [stored EXCEPT ![t] = <<w>> \o stored[t]]
  BY <1>1 DEF ServeCreate, Addressed, Stored
<1> HIDE DEF w, t
<1>6. stored \in [Users -> Seq(Wallets)]
  BY DEF PageInv, PageTypes
<1>7. /\ stored[t] \in Seq(Wallets) /\ IsInjective(stored[t])
      /\ \A v \in ToSet(stored[t]) : Owner[v] = t
  BY <1>5, <1>6 DEF PageInv, PageTypes
<1>8. /\ <<w>> \o stored[t] \in Seq(Wallets) /\ IsInjective(<<w>> \o stored[t])
      /\ ToSet(<<w>> \o stored[t]) = {w} \cup ToSet(stored[t])
  BY <1>5, <1>7, NewestFirst
<1>9. /\ stored' \in [Users -> Seq(Wallets)]
      /\ stored'[t] = <<w>> \o stored[t]
      /\ \A u \in Users : u # t => stored'[u] = stored[u]
  BY <1>5, <1>6, <1>8
<1>10. ASSUME NEW u \in Users
       PROVE  /\ IsInjective(stored'[u])
              /\ \A v \in ToSet(stored'[u]) : Owner[v] = u
              /\ ToSet(stored[u]) \subseteq ToSet(stored'[u])
  <2>1. CASE u = t
    BY <1>5, <1>7, <1>8, <1>9, <2>1
  <2>2. CASE u # t
    BY <1>9, <2>2 DEF PageInv, PageTypes
  <2>3. QED
    BY <2>1, <2>2
<1>11. /\ entries' \in [Wallets -> Nat] /\ \A v \in Wallets : entries'[v] >= entries[v]
       /\ posted' \in Seq(Postings) /\ Len(posted') <= MaxPostings
  BY <1>2 DEF PageInv, PageTypes
<1>12. QED
  BY <1>1, <1>2, <1>3, <1>4, <1>9, <1>10, <1>11, ServerKept

LEMMA InitPage == Init => PageInv
<1> SUFFICES ASSUME Init
             PROVE  PageInv
  OBVIOUS
<1>1. /\ token = NoUser /\ user = NoUser /\ shown = <<>> /\ active = NoWallet
      /\ rows = NoRows /\ tab = "dashboard" /\ form = Closed /\ blank = FALSE
      /\ calls = <<>> /\ stored = Existing /\ entries = [w \in Wallets |-> 0]
      /\ posted = <<>> /\ forms = 0 /\ calm = TRUE
  BY DEF Init
<1>2. shown \in Seq(Cards) /\ DOMAIN shown = {}
  BY <1>1, NoCall
<1>3. calls \in Seq(Calls) /\ Len(calls) = 0 /\ DOMAIN calls = {}
  BY <1>1, NoCall
<1>4. posted \in Seq(Postings) /\ Len(posted) = 0
  BY <1>1, NoCall
<1>5. /\ stored \in [Users -> Seq(Wallets)]
      /\ \A u \in Users : /\ IsInjective(stored[u])
                          /\ \A w \in ToSet(stored[u]) : Owner[w] = u
  BY <1>1, DashboardAssumption
<1>6. entries \in [Wallets -> Nat]
  BY <1>1
<1>7. Listed = {}
  BY <1>2 DEF Listed
<1>8. rows.wallet = NoWallet
  BY <1>1 DEF NoRows
<1>9. tab \in {"dashboard", "transactions"} /\ blank \in BOOLEAN /\ calm \in BOOLEAN
  BY <1>1
<1>10. /\ token \in Users \cup {NoUser} /\ user \in Users \cup {NoUser}
       /\ active \in Wallets \cup {NoWallet} /\ rows \in Rows /\ form \in Forms
  BY <1>1, UnservedType
<1>11. Len(calls) <= MaxCalls /\ Len(posted) <= MaxPostings /\ forms \in 0 .. MaxForms
  BY <1>1, <1>3, <1>4, PageConstants
<1>12. PageTypes
  BY <1>2, <1>3, <1>4, <1>5, <1>6, <1>9, <1>10, <1>11 DEF PageTypes
<1>13. CallsTruth /\ PageTruth
  BY <1>3, <1>7, <1>8 DEF CallsTruth, PageTruth
<1>14. Calm
  BY <1>1, <1>7 DEF Calm
<1>15. QED
  BY <1>12, <1>13, <1>14 DEF PageInv

LEMMA PageNextInv ==
  ASSUME PageInv, Next
  PROVE  PageInv'
<1>1. CASE \E u \in Users : SignIn(u)
  BY <1>1, SignInKept
<1>2. CASE \E w \in Wallets : Select(w) \/ Open(w) \/ SubmitCreate(w)
  BY <1>2, SelectKept, OpenKept, SubmitKept
<1>3. CASE \E to \in Wallets \cup {NoWallet} : Submit(to)
  BY <1>3, SubmitKept
<1>4. CASE OpenCreate \/ Close \/ \E t \in {"dashboard", "transactions"} : Tab(t)
  BY <1>4, QuietKept
<1>5. CASE Search \/ Logout \/ Reload
  BY <1>5, SearchKept, LogoutKept, ReloadKept
<1>6. ASSUME NEW i \in 1 .. MaxCalls,
             \/ ServeRead(i) \/ ServePost(i) \/ ServeCreate(i) \/ Deny(i)
             \/ LoggedIn(i) \/ GotProfile(i) \/ ProfileRefused(i) \/ GotWallets(i)
             \/ GotTransactions(i) \/ Done(i) \/ Ignored(i) \/ Lose(i)
      PROVE  PageInv'
  BY <1>6, ServeReadKept, ServePostKept, ServeCreateKept, DenyKept, LoggedInKept,
     GotProfileKept, ProfileRefusedKept, GotWalletsKept, GotTransactionsKept,
     DoneKept, DroppedKept
<1>7. QED
  BY <1>1, <1>2, <1>3, <1>4, <1>5, <1>6 DEF Next

LEMMA PageStep ==
  ASSUME PageInv, [Next]_vars
  PROVE  PageInv'
<1>1. CASE Next
  BY <1>1, PageNextInv
<1>2. CASE UNCHANGED vars
  <2>1. UNCHANGED <<token, user, shown, active, rows, tab, form, blank, calls,
                    stored, entries, posted, forms, calm>>
    BY <1>2 DEF vars, page, database
  <2>2. PageTypes'
    BY <2>1 DEF PageInv, PageTypes
  <2>3. CallsTruth' /\ PageTruth'
    BY <2>1 DEF PageInv, CallsTruth, PageTruth, Truthful, Belongs, Stored, Listed, Addressed
  <2>4. Calm'
    BY <2>1 DEF PageInv, Calm, Belongs, Stored, Listed
  <2>5. QED
    BY <2>2, <2>3, <2>4 DEF PageInv
<1>3. QED
  BY <1>1, <1>2

LEMMA PageTypeOK == PageInv => TypeOK
<1> SUFFICES ASSUME PageInv
             PROVE  TypeOK
  OBVIOUS
<1>1. form.kind \in {"none", "post", "create"}
  BY DEF PageInv, PageTypes, Forms
<1>2. QED
  BY <1>1 DEF PageInv, PageTypes, PageTruth, Calm, Belongs, TypeOK

-----------------------------------------------------------------------------
(* The two halves.                                                         *)

LEMMA BrowserStarts == BrowserInit => FormInv /\ PageInv
BY InitForm, InitPage DEF BrowserInit

LEMMA BrowserSteps ==
  ASSUME [BrowserNext]_browserVars
  PROVE  [Next]_vars /\ [FormNext]_formVars
BY DEF BrowserNext, OnPage, InForm, browserVars

LEMMA HalvesAreKept ==
  ASSUME FormInv, PageInv, [BrowserNext]_browserVars
  PROVE  FormInv' /\ PageInv'
BY BrowserSteps, FormStep, PageStep

\* Whatever is clicked, and however the calls of the page are answered, held
\* back or lost: the page of a signed-in user holds that user's wallets and
\* rows the database has (TypeOK), and the transfer form knows where its
\* wallet id is from (FormTypeOK).
THEOREM BrowserTypes == BrowserSpec => []BrowserTypeOK
<1>1. BrowserInit => FormInv /\ PageInv
  BY BrowserStarts
<1>2. FormInv /\ PageInv /\ [BrowserNext]_browserVars => FormInv' /\ PageInv'
  BY HalvesAreKept
<1>3. FormInv /\ PageInv => BrowserTypeOK
  BY PageTypeOK DEF BrowserTypeOK, FormInv
<1>4. QED
  BY <1>1, <1>2, <1>3, PTL DEF BrowserSpec

-----------------------------------------------------------------------------
(* A form that is open keeps the wallet it was opened on.                  *)

\* The handlers: what they leave of the calls, and what they send.
LEMMA OpenedAgain ==
  ASSUME Opened, UNCHANGED posted,
         NEW rest \in Seq(Calls), NEW more \in Seq(Calls), Send(rest, more),
         \A j \in DOMAIN rest : \E k \in DOMAIN calls : rest[j] = calls[k],
         \A j \in DOMAIN more : FromItsCard(more[j]),
         Steady' => /\ token' # NoUser /\ form'.wallet = active'
                    /\ ~InFlight(Refreshes)
                    /\ \A j \in DOMAIN more : more[j].kind \notin Refreshes
  PROVE  Opened'
<1>1. \A j \in DOMAIN calls' :
        \/ \E k \in DOMAIN calls : calls'[j] = calls[k]
        \/ \E k \in DOMAIN more : calls'[j] = more[k]
  <2>1. \A j \in DOMAIN calls' :
          \/ j \in DOMAIN rest /\ calls'[j] = rest[j]
          \/ /\ j > Len(rest) /\ j - Len(rest) \in DOMAIN more
             /\ calls'[j] = more[j - Len(rest)]
    BY SentCalls
  <2>2. QED
    BY <2>1
<1>2. ASSUME NEW j \in DOMAIN calls', NEW c, c = calls'[j]
      PROVE  FromItsCard(c)
  BY <1>1, <1>2 DEF Opened
<1>3. \A j \in DOMAIN calls' : FromItsCard(calls'[j])
  BY <1>2
<1>4. ASSUME Steady'
      PROVE  (~InFlight(Refreshes))'
  BY <1>1, <1>4 DEF InFlight
<1>5. PostsToOpenedWallet'
  BY DEF Opened, PostsToOpenedWallet
<1>6. QED
  BY <1>3, <1>4, <1>5 DEF Opened

\* The server: calls keep their kinds and their forms.
LEMMA OpenedAnswered ==
  ASSUME PageInv, Opened, UNCHANGED page,
         NEW i \in DOMAIN calls, NEW r \in Replies, Answer(i, r),
         PostsToOpenedWallet'
  PROVE  Opened'
<1>1. /\ DOMAIN calls' = DOMAIN calls
      /\ \A j \in DOMAIN calls :
           /\ calls'[j].kind = calls[j].kind /\ calls'[j].form = calls[j].form
           /\ calls'[j].arg = calls[j].arg
  BY AnsweredCalls DEF PageInv, PageTypes
<1>2. \A j \in DOMAIN calls' : FromItsCard(calls'[j])
  BY <1>1 DEF Opened, FromItsCard
<1>3. UNCHANGED <<token, active, form>>
  BY DEF page
<1>4. InFlight(Refreshes)' <=> InFlight(Refreshes)
  BY <1>1 DEF InFlight
<1>5. Steady' <=> Steady
  BY <1>3 DEF Steady
<1>6. QED
  BY <1>2, <1>3, <1>4, <1>5 DEF Opened

LEMMA NotSteady ==
  /\ form' = Closed => ~Steady'
  /\ form = Closed => ~Steady
  /\ form.kind # "post" => ~Steady
BY DEF Steady, Closed

LEMMA SteadyKept ==
  ASSUME Opened, UNCHANGED form
  PROVE  Steady' => /\ Steady /\ token # NoUser /\ form'.wallet = active
                    /\ ~InFlight(Refreshes)
BY DEF Opened, Steady

LEMMA SameCalls ==
  ASSUME PageInv
  PROVE  /\ calls \in Seq(Calls)
         /\ \A j \in DOMAIN calls : \E k \in DOMAIN calls : calls[j] = calls[k]
         /\ calls' = calls => Send(calls, <<>>)
BY NothingSent DEF PageInv, PageTypes

\* The history of a wallet is no refresh, and no posting.
LEMMA HistoryIsNoPosting ==
  ASSUME NEW t \in Users \cup {NoUser}, NEW u, NEW w \in Wallets \cup {NoWallet}
  PROVE  /\ HistoryEffect(t, u, w) \in Seq(Calls)
         /\ \A j \in DOMAIN HistoryEffect(t, u, w) :
              /\ FromItsCard(HistoryEffect(t, u, w)[j])
              /\ HistoryEffect(t, u, w)[j].kind \notin Refreshes
BY HistoryCalls DEF FromItsCard, Refreshes

LEMMA HandlersOpened ==
  ASSUME PageInv, Opened
  PROVE  /\ \A u \in Users : SignIn(u) => Opened'
         /\ \A w \in Wallets : Select(w) => Opened'
         /\ OpenCreate \/ Close \/ Search \/ Logout => Opened'
         /\ \A t \in {"dashboard", "transactions"} : Tab(t) => Opened'
<1>1. ASSUME NEW u \in Users, SignIn(u)
      PROVE  Opened'
  <2> DEFINE c == Login(u)
  <2>1. c \in Calls /\ c.kind = "login"
    BY OtherCalls
  <2>2. Send(calls, <<c>>) /\ token = NoUser /\ UNCHANGED <<form, posted>>
    BY <1>1 DEF SignIn, page, database
  <2> HIDE DEF c
  <2>3. FromItsCard(c)
    BY <2>1 DEF FromItsCard
  <2> DEFINE more == <<c>>
  <2>4. more \in Seq(Calls) /\ \A j \in DOMAIN more : FromItsCard(more[j])
    BY <2>1, <2>3, OneCall
  <2>5. Send(calls, more)
    BY <2>2
  <2> HIDE DEF more
  <2>6. ~Steady'
    BY <2>2, SteadyKept
  <2>7. QED
    BY <2>2, <2>4, <2>5, <2>6, SameCalls, OpenedAgain
<1>2. ASSUME NEW w \in Wallets, Select(w)
      PROVE  Opened'
  <2>1. /\ Send(calls, HistoryEffect(token, user, w)) /\ form' = form
        /\ form = Closed /\ UNCHANGED posted
    BY <1>2 DEF Select, Clickable, database
  <2>2. token \in Users \cup {NoUser}
    BY DEF PageInv, PageTypes
  <2>3. QED
    BY <2>1, <2>2, HistoryIsNoPosting, SameCalls, NotSteady, OpenedAgain
<1>3. CASE OpenCreate \/ Close \/ Logout
  <2>1. calls' = calls /\ UNCHANGED posted
    BY <1>3 DEF OpenCreate, Close, Logout, database
  <2>2. ~Steady'
    BY <1>3 DEF OpenCreate, Close, Logout, Clickable, SignedOut, Steady, Closed
  <2>3. QED
    BY <2>1, <2>2, NoneSent, SameCalls, OpenedAgain
<1>4. ASSUME NEW t \in {"dashboard", "transactions"}, Tab(t)
      PROVE  Opened'
  <2>1. calls' = calls /\ form = Closed /\ form' = form /\ UNCHANGED posted
    BY <1>4 DEF Tab, Clickable, database
  <2>2. QED
    BY <2>1, NoneSent, SameCalls, NotSteady, OpenedAgain
<1>5. CASE Search
  <2>1. /\ Send(calls, HistoryEffect(token, user, active)) /\ form' = form
        /\ form = Closed /\ UNCHANGED posted
    BY <1>5 DEF Search, Clickable, page, database
  <2>2. token \in Users \cup {NoUser} /\ active \in Wallets \cup {NoWallet}
    BY DEF PageInv, PageTypes
  <2>3. QED
    BY <2>1, <2>2, HistoryIsNoPosting, SameCalls, NotSteady, OpenedAgain
<1>6. QED
  BY <1>1, <1>2, <1>3, <1>4, <1>5

\* A card's button opens its form and selects its wallet.
LEMMA OpenOpened ==
  ASSUME PageInv, Opened, NEW w \in Wallets, Open(w)
  PROVE  Opened'
<1>1. /\ form'.wallet = w /\ form'.refreshing = InFlight(Refreshes)
      /\ active' = w /\ token' = token /\ token # NoUser /\ UNCHANGED posted
  BY DEF Open, Clickable, Visible, database, Refreshes
<1>2. Steady' => ~InFlight(Refreshes)
  BY <1>1 DEF Steady
<1>3. CASE w = active
  <2>1. Send(calls, <<>>)
    BY <1>3 DEF Open
  <2>2. QED
    BY <1>1, <1>2, <2>1, NoneSent, SameCalls, OpenedAgain
<1>4. CASE w # active
  <2>1. Send(calls, HistoryEffect(token, user, w)) /\ token \in Users \cup {NoUser}
    BY <1>4 DEF Open, PageInv, PageTypes
  <2>2. QED
    BY <1>1, <1>2, <2>1, HistoryIsNoPosting, SameCalls, OpenedAgain
<1>5. QED
  BY <1>3, <1>4

LEMMA SubmitOpened ==
  ASSUME PageInv, Opened, (\E to \in Wallets \cup {NoWallet} : Submit(to))
                          \/ (\E w \in Wallets : SubmitCreate(w))
  PROVE  Opened'
<1>1. PICK kind \in {"post", "create"}, w \in Wallets, to \in Wallets \cup {NoWallet} :
        /\ Send(calls, <<Call(kind, token, active, form, w, to)>>)
        /\ kind = "post" => w = active /\ form.kind = "post"
  BY DEF Submit, SubmitCreate, PageInv, PageTypes
<1> DEFINE c == Call(kind, token, active, form, w, to)
<1>2. token \in Users /\ active \in Wallets \cup {NoWallet} /\ form \in Forms
  BY DEF Submit, SubmitCreate, Visible, PageInv, PageTypes
<1>3. c \in Calls /\ c.kind = kind /\ c.arg = w /\ c.form = form
  BY <1>2, UnservedType DEF Call, Calls
<1>4. Send(calls, <<c>>)
  BY <1>1
<1> HIDE DEF c
<1>5. kind = "post" /\ ~form.refreshing => w = form.wallet
  BY <1>1 DEF Opened, Steady
<1>6. FromItsCard(c) /\ c.kind \notin Refreshes
  BY <1>3, <1>5 DEF FromItsCard, Refreshes
<1> DEFINE more == <<c>>
<1>7. /\ more \in Seq(Calls)
      /\ \A j \in DOMAIN more : FromItsCard(more[j]) /\ more[j].kind \notin Refreshes
  BY <1>3, <1>6, OneCall
<1>8. Send(calls, more)
  BY <1>4
<1> HIDE DEF more
<1>9. UNCHANGED <<token, active, form, posted>>
  BY DEF Submit, SubmitCreate, page, database
<1>10. QED
  BY <1>7, <1>8, <1>9, SteadyKept, SameCalls, OpenedAgain

\* While a form is steady no reply comes that would select another wallet.
LEMMA NothingArrives ==
  ASSUME Opened, UNCHANGED form,
         NEW i \in DOMAIN calls, calls[i].kind \in Refreshes
  PROVE  ~Steady'
BY SteadyKept DEF InFlight

LEMMA RepliesOpened ==
  ASSUME PageInv, Opened, NEW i \in 1 .. MaxCalls
  PROVE  /\ LoggedIn(i) \/ GotProfile(i) \/ ProfileRefused(i) \/ GotWallets(i) => Opened'
         /\ GotTransactions(i) \/ Done(i) \/ Ignored(i) \/ Lose(i) => Opened'
<1>1. i <= Len(calls) =>
        /\ i \in DOMAIN calls /\ Addressed(calls[i]) /\ calls[i] \in Calls
        /\ Rest(i) \in Seq(Calls)
        /\ \A j \in DOMAIN Rest(i) : \E k \in DOMAIN calls : Rest(i)[j] = calls[k]
        /\ calls' = Rest(i) => Send(Rest(i), <<>>)
  BY ArrivedCall, NothingSent DEF PageInv
<1>2. ASSUME LoggedIn(i)
      PROVE  Opened'
  <2>1. i <= Len(calls) /\ calls[i].kind \in Refreshes
    BY <1>2 DEF LoggedIn, Arrived, Refreshes
  <2>2. calls[i].arg \in Users
    BY <1>1, <1>2, <2>1 DEF LoggedIn, Arrived, Addressed
  <2> DEFINE c == Me(calls[i].arg)
  <2>3. Send(Rest(i), <<c>>) /\ UNCHANGED <<form, posted>>
    BY <1>2 DEF LoggedIn, database
  <2>4. c \in Calls /\ c.kind = "me"
    BY <2>2, OtherCalls
  <2> HIDE DEF c
  <2> DEFINE more == <<c>>
  <2>5. more \in Seq(Calls) /\ \A j \in DOMAIN more : FromItsCard(more[j])
    BY <2>4, OneCall DEF FromItsCard
  <2>6. Send(Rest(i), more)
    BY <2>3
  <2> HIDE DEF more
  <2>7. QED
    BY <1>1, <2>1, <2>3, <2>5, <2>6, NothingArrives, OpenedAgain
<1>3. ASSUME GotProfile(i)
      PROVE  Opened'
  <2>1. i <= Len(calls) /\ calls[i].kind \in Refreshes /\ UNCHANGED <<form, posted>>
    BY <1>3 DEF GotProfile, Arrived, Refreshes, database
  <2>2. CASE token = NoUser
    <3>1. Send(Rest(i), <<>>)
      BY <1>3, <2>2 DEF GotProfile
    <3>2. QED
      BY <1>1, <2>1, <3>1, NoneSent, NothingArrives, OpenedAgain
  <2>3. CASE token # NoUser
    <3> DEFINE c == FetchWallets(token, active)
               h == HistoryEffect(token, user', active)
               more == <<c>> \o h
    <3>1. token \in Users /\ active \in Wallets \cup {NoWallet}
      BY <2>3 DEF PageInv, PageTypes
    <3>2. c \in Calls /\ c.kind = "wallets"
      BY <3>1, OtherCalls
    <3>3. h \in Seq(Calls) /\ \A j \in DOMAIN h : FromItsCard(h[j])
      BY <3>1, HistoryIsNoPosting
    <3>4. Send(Rest(i), more)
      BY <1>3, <2>3 DEF GotProfile
    <3> HIDE DEF c, h
    <3> DEFINE o == <<c>>
    <3>5. o \in Seq(Calls) /\ \A j \in DOMAIN o : FromItsCard(o[j])
      BY <3>2, OneCall DEF FromItsCard
    <3>6. more = o \o h
      OBVIOUS
    <3> HIDE DEF o, more
    <3>7. more \in Seq(Calls) /\ \A j \in DOMAIN more : FromItsCard(more[j])
      BY <3>3, <3>5, <3>6, ConcatElements
    <3>8. QED
      BY <1>1, <2>1, <3>4, <3>7, NothingArrives, OpenedAgain
  <2>4. QED
    BY <2>2, <2>3
<1>4. ASSUME ProfileRefused(i)
      PROVE  Opened'
  <2>1. /\ i <= Len(calls) /\ calls[i].kind \in Refreshes /\ UNCHANGED <<form, posted>>
        /\ calls' = Rest(i)
    BY <1>4 DEF ProfileRefused, Arrived, Refreshes, SignedOut, database
  <2>2. QED
    BY <1>1, <2>1, NoneSent, NothingArrives, OpenedAgain
<1>5. ASSUME GotWallets(i)
      PROVE  Opened'
  <2>1. i <= Len(calls) /\ calls[i].kind \in Refreshes /\ UNCHANGED <<form, posted>>
    BY <1>5 DEF GotWallets, Arrived, Refreshes, database
  <2>2. PICK more : /\ Send(Rest(i), more)
                    /\ more = <<>> \/ more = HistoryEffect(token, user, active')
    BY <1>5, Zenon DEF GotWallets
  <2>3. token \in Users \cup {NoUser}
    BY DEF PageInv, PageTypes
  <2>4. active' \in Wallets \cup {NoWallet}
    BY <1>5, GotWalletsKept DEF PageInv, PageTypes
  <2>5. more \in Seq(Calls) /\ \A j \in DOMAIN more : FromItsCard(more[j])
    BY <2>2, <2>3, <2>4, HistoryIsNoPosting, NoneSent
  <2>6. QED
    BY <1>1, <2>1, <2>2, <2>5, NothingArrives, OpenedAgain
<1>6. ASSUME GotTransactions(i)
      PROVE  Opened'
  <2>1. /\ i <= Len(calls) /\ calls' = Rest(i)
        /\ UNCHANGED <<token, active, form, posted>>
    BY <1>6 DEF GotTransactions, Arrived, database
  <2>2. QED
    BY <1>1, <2>1, NoneSent, SteadyKept, OpenedAgain
<1>7. ASSUME Done(i)
      PROVE  Opened'
  <2>1. /\ i <= Len(calls) /\ calls[i].kind \in {"post", "create"}
        /\ form' = Closed /\ UNCHANGED posted
    BY <1>7 DEF Done, Arrived, database
  <2> DEFINE c == FetchWallets(calls[i].token, calls[i].active)
  <2>2. calls[i].token \in Users /\ calls[i].active \in Wallets \cup {NoWallet}
    BY <1>1, <2>1 DEF Addressed, Calls
  <2>3. c \in Calls /\ c.kind = "wallets"
    BY <2>2, OtherCalls
  <2>4. Send(Rest(i), <<c>>)
    BY <1>7 DEF Done
  <2> HIDE DEF c
  <2> DEFINE more == <<c>>
  <2>5. more \in Seq(Calls) /\ \A j \in DOMAIN more : FromItsCard(more[j])
    BY <2>3, OneCall DEF FromItsCard
  <2>6. Send(Rest(i), more)
    BY <2>4
  <2> HIDE DEF more
  <2>7. QED
    BY <1>1, <2>1, <2>5, <2>6, NotSteady, OpenedAgain
<1>8. ASSUME Ignored(i) \/ Lose(i)
      PROVE  Opened'
  <2>1. /\ i <= Len(calls) /\ calls' = Rest(i)
        /\ UNCHANGED <<token, active, form, posted>>
    BY <1>8 DEF Ignored, Lose, Arrived, page, database
  <2>2. QED
    BY <1>1, <2>1, NoneSent, SteadyKept, OpenedAgain
<1>9. QED
  BY <1>2, <1>3, <1>4, <1>5, <1>6, <1>7, <1>8

LEMMA ReloadOpened ==
  ASSUME PageInv, Opened, Reload
  PROVE  Opened'
<1>1. form' = Closed /\ UNCHANGED posted
  BY DEF Reload, database
<1>2. \A j \in DOMAIN calls' : FromItsCard(calls'[j])
  <2>1. CASE token = NoUser
    <3>1. calls' = <<>>
      BY <2>1 DEF Reload
    <3>2. QED
      BY <3>1
  <2>2. CASE token # NoUser
    <3> DEFINE c == Me(token)
    <3>1. c \in Calls /\ c.kind = "me"
      BY <2>2, OtherCalls DEF PageInv, PageTypes
    <3>2. calls' = <<c>>
      BY <2>2 DEF Reload
    <3> HIDE DEF c
    <3>3. QED
      BY <3>1, <3>2, OneCall DEF FromItsCard
  <2>3. QED
    BY <2>1, <2>2
<1>3. PostsToOpenedWallet'
  BY <1>1 DEF Opened, PostsToOpenedWallet
<1>4. QED
  BY <1>1, <1>2, <1>3, NotSteady DEF Opened

LEMMA ServerOpened ==
  ASSUME PageInv, Opened, NEW i \in 1 .. MaxCalls
  PROVE  ServeRead(i) \/ ServePost(i) \/ ServeCreate(i) \/ Deny(i) => Opened'
<1>1. Ok \in Replies /\ [Unserved EXCEPT !.status = "denied"] \in Replies
  BY PlainReply, OkIs
<1>2. ASSUME ServeRead(i) \/ ServeCreate(i) \/ Deny(i)
      PROVE  Opened'
  <2>1. i \in DOMAIN calls
    BY <1>2, WaitingCall DEF ServeRead, ServeCreate, Deny
  <2>2. \E r \in Replies : Answer(i, r)
    BY <1>1, <1>2, ReadReply DEF ServeCreate, Deny
  <2>3. UNCHANGED page /\ UNCHANGED posted
    BY <1>2 DEF ServeRead, ServeCreate, Deny, database
  <2>4. PostsToOpenedWallet'
    BY <2>3 DEF Opened, PostsToOpenedWallet
  <2>5. QED
    BY <2>1, <2>2, <2>3, <2>4, OpenedAnswered
<1>3. ASSUME ServePost(i)
      PROVE  Opened'
  <2>1. i \in DOMAIN calls /\ calls[i] \in Calls /\ calls[i].kind = "post"
        /\ calls[i].arg \in Wallets
    BY <1>3, WaitingCall DEF ServePost, Addressed
  <2>2. Answer(i, Ok) /\ UNCHANGED page
    BY <1>3 DEF ServePost
  <2> DEFINE p == [form |-> calls[i].form, wallet |-> calls[i].arg]
  <2>3. p \in Postings /\ (p.wallet = p.form.wallet \/ p.form.refreshing)
    <3>1. p.form = calls[i].form /\ p.wallet = calls[i].arg
      OBVIOUS
    <3>2. p \in Postings
      BY <2>1 DEF Postings, Calls
    <3>3. FromItsCard(calls[i])
      BY <2>1 DEF Opened
    <3>4. QED
      BY <2>1, <3>1, <3>2, <3>3 DEF FromItsCard
  <2>4. posted' = Append(posted, p) /\ posted \in Seq(Postings)
    BY <1>3 DEF ServePost, PageInv, PageTypes
  <2> HIDE DEF p
  <2>5. /\ Len(posted') = Len(posted) + 1 /\ posted' \in Seq(Postings)
        /\ posted'[Len(posted) + 1] = p
        /\ \A k \in 1 .. Len(posted) : posted'[k] = posted[k]
    BY <2>3, <2>4, AppendProperties
  <2>6. ASSUME NEW k \in DOMAIN posted', NEW q, q = posted'[k]
        PROVE  q.wallet = q.form.wallet \/ q.form.refreshing
    <3>1. CASE k = Len(posted) + 1
      BY <2>3, <2>5, <2>6, <3>1
    <3>2. CASE k # Len(posted) + 1
      <4>1. k \in DOMAIN posted /\ q = posted[k]
        BY <2>4, <2>5, <2>6, <3>2
      <4>2. QED
        BY <4>1 DEF Opened, PostsToOpenedWallet
    <3>3. QED
      BY <3>1, <3>2
  <2>7. PostsToOpenedWallet'
    BY <2>6 DEF PostsToOpenedWallet
  <2>8. QED
    BY <1>1, <2>1, <2>2, <2>7, OpenedAnswered
<1>4. QED
  BY <1>2, <1>3

LEMMA InitOpened == Init => Opened
<1> SUFFICES ASSUME Init
             PROVE  Opened
  OBVIOUS
<1>1. form = Closed /\ calls = <<>> /\ posted = <<>>
  BY DEF Init
<1>2. DOMAIN calls = {} /\ DOMAIN posted = {}
  BY <1>1
<1>3. QED
  BY <1>1, <1>2, NotSteady DEF Opened, PostsToOpenedWallet

LEMMA OpenedStep ==
  ASSUME PageInv, Opened, [Next]_vars
  PROVE  Opened'
<1>1. CASE \E u \in Users : SignIn(u)
  BY <1>1, HandlersOpened
<1>2. CASE \E w \in Wallets : Select(w) \/ Open(w) \/ SubmitCreate(w)
  BY <1>2, HandlersOpened, OpenOpened, SubmitOpened
<1>3. CASE \E to \in Wallets \cup {NoWallet} : Submit(to)
  BY <1>3, SubmitOpened
<1>4. CASE OpenCreate \/ Close \/ Search \/ Logout \/ Reload
  BY <1>4, HandlersOpened, ReloadOpened
<1>5. CASE \E t \in {"dashboard", "transactions"} : Tab(t)
  BY <1>5, HandlersOpened
<1>6. ASSUME NEW i \in 1 .. MaxCalls,
             \/ ServeRead(i) \/ ServePost(i) \/ ServeCreate(i) \/ Deny(i)
             \/ LoggedIn(i) \/ GotProfile(i) \/ ProfileRefused(i) \/ GotWallets(i)
             \/ GotTransactions(i) \/ Done(i) \/ Ignored(i) \/ Lose(i)
      PROVE  Opened'
  BY <1>6, ServerOpened, RepliesOpened
<1>7. CASE UNCHANGED vars
  <2>1. UNCHANGED <<token, active, form, calls, posted>>
    BY <1>7 DEF vars, page, database
  <2>2. QED
    BY <2>1 DEF Opened, Steady, InFlight, PostsToOpenedWallet
<1>8. QED
  BY <1>1, <1>2, <1>3, <1>4, <1>5, <1>6, <1>7 DEF Next

LEMMA FormInvPays == FormInv => PaysShownRecipient
BY DEF FormInv, PaysShownRecipient

\* Whatever arrives while a form is open: what is posted is taken from the
\* wallet on whose card the form was opened, unless wallets were being fetched
\* then (the handlers of handleDeposit and its like read activeWallet, not the
\* card), and a transfer whose wallet id a suggestion filled in pays the
\* recipient the form showed.
THEOREM FormsPostWhatTheyShow == BrowserSpec => []PostsWhatItShows
<1>1. BrowserInit => FormInv /\ PageInv /\ Opened
  BY BrowserStarts, InitOpened DEF BrowserInit
<1>2. FormInv /\ PageInv /\ Opened /\ [BrowserNext]_browserVars
        => FormInv' /\ PageInv' /\ Opened'
  BY HalvesAreKept, BrowserSteps, OpenedStep
<1>3. FormInv /\ Opened => PostsWhatItShows
  BY FormInvPays DEF Opened, PostsWhatItShows
<1>4. QED
  BY <1>1, <1>2, <1>3, PTL DEF BrowserSpec

-----------------------------------------------------------------------------
(* The last call of a kind, when calls are sent and replies arrive.        *)

LEMMA LastSent ==
  ASSUME NEW rest \in Seq(Calls), NEW more \in Seq(Calls), Send(rest, more), NEW kind
  PROVE  /\ NoneOf(calls', kind) => NoneOf(rest, kind) /\ NoneOf(more, kind)
         /\ \A j \in DOMAIN calls' :
              LastOf(calls', kind, j) =>
                \/ \E k \in DOMAIN more : calls'[j] = more[k] /\ more[k].kind = kind
                \/ /\ NoneOf(more, kind) /\ j \in DOMAIN rest
                   /\ LastOf(rest, kind, j) /\ calls'[j] = rest[j]
<1> DEFINE n == Len(rest)
<1>1. /\ \A j \in DOMAIN calls' :
           \/ j \in DOMAIN rest /\ calls'[j] = rest[j]
           \/ j > n /\ j - n \in DOMAIN more /\ calls'[j] = more[j - n]
      /\ \A j \in DOMAIN rest : j \in DOMAIN calls' /\ calls'[j] = rest[j]
      /\ \A j \in DOMAIN more : n + j \in DOMAIN calls' /\ calls'[n + j] = more[j]
  BY SentCalls
<1>2. /\ DOMAIN rest = 1 .. n /\ n \in Nat
      /\ DOMAIN more = 1 .. Len(more) /\ Len(more) \in Nat
  OBVIOUS
<1>3. calls' \in Seq(Calls) /\ DOMAIN calls' \subseteq Nat
  BY SentCalls
<1> HIDE DEF n
<1>4. NoneOf(calls', kind) => NoneOf(rest, kind) /\ NoneOf(more, kind)
  BY <1>1 DEF NoneOf
<1>5. ASSUME NEW j \in DOMAIN calls', LastOf(calls', kind, j)
      PROVE  \/ \E k \in DOMAIN more : calls'[j] = more[k] /\ more[k].kind = kind
             \/ /\ NoneOf(more, kind) /\ j \in DOMAIN rest
                /\ LastOf(rest, kind, j) /\ calls'[j] = rest[j]
  <2>1. calls'[j].kind = kind /\ \A m \in DOMAIN calls' : m > j => calls'[m].kind # kind
    BY <1>5 DEF LastOf
  <2>2. CASE NoneOf(more, kind)
    <3>1. j \in DOMAIN rest /\ calls'[j] = rest[j]
      BY <1>1, <2>1, <2>2 DEF NoneOf
    <3>2. LastOf(rest, kind, j)
      BY <1>1, <2>1, <3>1 DEF LastOf
    <3>3. QED
      BY <2>2, <3>1, <3>2
  <2>3. CASE ~NoneOf(more, kind)
    <3>1. PICK m \in DOMAIN more : more[m].kind = kind
      BY <2>3 DEF NoneOf
    <3>2. n + m \in DOMAIN calls' /\ calls'[n + m].kind = kind
      BY <1>1, <3>1
    <3>3. ~(n + m > j)
      BY <2>1, <3>2
    <3>4. j > n
      BY <1>2, <1>3, <3>1, <3>3
    <3>5. j - n \in DOMAIN more /\ calls'[j] = more[j - n]
      BY <1>1, <1>2, <3>4
    <3>6. QED
      BY <2>1, <3>5
  <2>4. QED
    BY <2>2, <2>3
<1>6. QED
  BY <1>4, <1>5

LEMMA LastRest ==
  ASSUME calls \in Seq(Calls), NEW i \in DOMAIN calls, NEW kind,
         calls[i].kind # kind \/ \A j \in 1 .. i - 1 : calls[j].kind # kind
  PROVE  /\ NoneOf(Rest(i), kind) => IF calls[i].kind = kind THEN LastOf(calls, kind, i)
                                                              ELSE NoneOf(calls, kind)
         /\ \A j \in DOMAIN Rest(i) :
              LastOf(Rest(i), kind, j) =>
                \E k \in DOMAIN calls : /\ k # i /\ LastOf(calls, kind, k)
                                        /\ Rest(i)[j] = calls[k]
         /\ \A k \in DOMAIN calls :
              k # i => \E j \in DOMAIN Rest(i) : Rest(i)[j] = calls[k]
<1> DEFINE r == Rest(i)
           n == Len(calls)
<1>1. /\ r \in Seq(Calls) /\ Len(r) = n - 1
      /\ \A j \in DOMAIN r : LET k == IF j < i THEN j ELSE j + 1 IN
                             k \in DOMAIN calls /\ k # i /\ r[j] = calls[k]
  BY RestCalls
<1>2. /\ DOMAIN calls = 1 .. n /\ n \in Nat /\ i \in 1 .. n
  OBVIOUS
<1>3. DOMAIN r = 1 .. n - 1
  BY <1>1, <1>2
<1> HIDE DEF r, n
<1>4. \A j \in DOMAIN r : /\ j < i => j \in DOMAIN calls /\ r[j] = calls[j]
                          /\ j >= i => j + 1 \in DOMAIN calls /\ r[j] = calls[j + 1]
  BY <1>1, <1>2, <1>3
<1>5. ASSUME NEW k \in DOMAIN calls, k # i
      PROVE  /\ k < i => k \in DOMAIN r /\ r[k] = calls[k]
             /\ k > i => k - 1 \in DOMAIN r /\ r[k - 1] = calls[k]
  <2>1. CASE k < i
    BY <1>2, <1>3, <1>4, <2>1
  <2>2. CASE k > i
    <3>1. k - 1 \in DOMAIN r /\ k - 1 >= i
      BY <1>2, <1>3, <2>2
    <3>2. r[k - 1] = calls[k - 1 + 1] /\ k - 1 + 1 = k
      BY <1>2, <1>4, <3>1
    <3>3. QED
      BY <1>2, <2>2, <3>1, <3>2
  <2>3. QED
    BY <1>2, <1>5, <2>1, <2>2
<1>6. \A k \in DOMAIN calls : k # i => \E j \in DOMAIN r : r[j] = calls[k]
  BY <1>2, <1>5
<1>7. ASSUME NoneOf(r, kind)
      PROVE  IF calls[i].kind = kind THEN LastOf(calls, kind, i) ELSE NoneOf(calls, kind)
  <2>1. \A k \in DOMAIN calls : k # i => calls[k].kind # kind
    BY <1>6, <1>7 DEF NoneOf
  <2>2. QED
    BY <1>2, <2>1 DEF NoneOf, LastOf
<1>8. ASSUME NEW j \in DOMAIN r, LastOf(r, kind, j)
      PROVE  \E k \in DOMAIN calls : /\ k # i /\ LastOf(calls, kind, k)
                                     /\ r[j] = calls[k]
  <2>1. r[j].kind = kind /\ \A m \in DOMAIN r : m > j => r[m].kind # kind
    BY <1>8 DEF LastOf
  <2>2. CASE j < i
    <3>1. j \in DOMAIN calls /\ r[j] = calls[j]
      BY <1>4, <2>2
    <3>2. calls[i].kind # kind
      BY <1>2, <2>1, <2>2, <3>1
    <3>3. ASSUME NEW m \in DOMAIN calls, m > j
          PROVE  calls[m].kind # kind
      <4>1. CASE m < i
        BY <1>5, <2>1, <3>3, <4>1
      <4>2. CASE m = i
        BY <3>2, <4>2
      <4>3. CASE m > i
        <5>1. m - 1 \in DOMAIN r /\ r[m - 1] = calls[m]
          BY <1>5, <1>2, <4>3
        <5>2. m - 1 > j
          BY <1>2, <1>3, <2>2, <4>3
        <5>3. QED
          BY <2>1, <5>1, <5>2
      <4>4. QED
        BY <1>2, <4>1, <4>2, <4>3
    <3>4. LastOf(calls, kind, j)
      BY <2>1, <3>1, <3>3 DEF LastOf
    <3>5. QED
      BY <1>2, <2>2, <3>1, <3>4
  <2>3. CASE j >= i
    <3>1. j + 1 \in DOMAIN calls /\ r[j] = calls[j + 1]
      BY <1>4, <2>3
    <3>2. ASSUME NEW m \in DOMAIN calls, m > j + 1
          PROVE  calls[m].kind # kind
      <4>1. m > i /\ m - 1 > j
        BY <1>2, <1>3, <2>3, <3>2
      <4>2. m - 1 \in DOMAIN r /\ r[m - 1] = calls[m]
        BY <1>5, <1>2, <4>1
      <4>3. QED
        BY <2>1, <4>1, <4>2
    <3>3. LastOf(calls, kind, j + 1) /\ j + 1 # i
      BY <1>2, <1>3, <2>1, <2>3, <3>1, <3>2 DEF LastOf
    <3>4. QED
      BY <3>1, <3>3
  <2>4. QED
    BY <1>2, <1>3, <2>2, <2>3
<1>9. QED
  BY <1>6, <1>7, <1>8 DEF r

\* A reply that no other of its kind has overtaken.
LEMMA LastAfterReply ==
  ASSUME PageInv, NEW i \in 1 .. MaxCalls, i <= Len(calls),
         NEW more \in Seq(Calls), Send(Rest(i), more), NEW kind,
         \A j \in 1 .. i - 1 : calls[j].kind # calls[i].kind
  PROVE  /\ NoneOf(calls', kind) =>
              /\ NoneOf(more, kind)
              /\ IF calls[i].kind = kind THEN LastOf(calls, kind, i)
                                         ELSE NoneOf(calls, kind)
         /\ \A j \in DOMAIN calls' :
              LastOf(calls', kind, j) =>
                \/ \E k \in DOMAIN more : calls'[j] = more[k] /\ more[k].kind = kind
                \/ /\ NoneOf(more, kind)
                   /\ \E k \in DOMAIN calls : /\ k # i /\ LastOf(calls, kind, k)
                                              /\ calls'[j] = calls[k]
         /\ \A k \in DOMAIN calls :
              k # i => \E j \in DOMAIN calls' : calls'[j] = calls[k]
<1>1. i \in DOMAIN calls /\ Rest(i) \in Seq(Calls) /\ calls \in Seq(Calls)
  BY ArrivedCall DEF PageInv, PageTypes
<1>2. calls[i].kind # kind \/ \A j \in 1 .. i - 1 : calls[j].kind # kind
  OBVIOUS
<1> DEFINE r == Rest(i)
<1>3. /\ NoneOf(r, kind) => IF calls[i].kind = kind THEN LastOf(calls, kind, i)
                                                    ELSE NoneOf(calls, kind)
      /\ \A j \in DOMAIN r :
           LastOf(r, kind, j) =>
             \E k \in DOMAIN calls : /\ k # i /\ LastOf(calls, kind, k)
                                     /\ r[j] = calls[k]
      /\ \A k \in DOMAIN calls : k # i => \E j \in DOMAIN r : r[j] = calls[k]
  BY <1>1, <1>2, LastRest
<1>4. /\ NoneOf(calls', kind) => NoneOf(r, kind) /\ NoneOf(more, kind)
      /\ \A j \in DOMAIN calls' :
           LastOf(calls', kind, j) =>
             \/ \E k \in DOMAIN more : calls'[j] = more[k] /\ more[k].kind = kind
             \/ /\ NoneOf(more, kind) /\ j \in DOMAIN r
                /\ LastOf(r, kind, j) /\ calls'[j] = r[j]
  BY <1>1, LastSent
<1>5. \A j \in DOMAIN r : j \in DOMAIN calls' /\ calls'[j] = r[j]
  BY <1>1, SentCalls
<1> HIDE DEF r
<1>6. QED
  BY <1>3, <1>4, <1>5

-----------------------------------------------------------------------------
(* The page shows what the database holds, or calls that will bring it are   *)
(* under way: the handlers, up to their await.                              *)

LEMMA ListSame ==
  ASSUME UNCHANGED <<token, stored, entries>>
  PROVE  List(token)' = List(token)
BY DEF List

LEMMA ComingSent ==
  ASSUME PageInv, Coming,
         UNCHANGED <<token, user, shown, rows, stored, entries, calm>>,
         ~blank' => ~blank,
         NEW more \in Seq(Calls), Send(calls, more),
         \A j \in DOMAIN more :
           /\ more[j].kind # "wallets"
           /\ more[j].kind = "history" =>
                /\ more[j].token = token /\ more[j].arg = active'
                /\ more[j].reply = Unserved,
         \/ active' = active
         \/ /\ active' \in Listed
            /\ user # NoUser => ~NoneOf(more, "history")
  PROVE  Coming'
<1> SUFFICES ASSUME calm', ~blank', token' # NoUser
             PROVE  /\ user' = NoUser => ProfileComing'
                    /\ (user' # NoUser /\ ~Unrefreshed') =>
                         /\ NoneOf(calls, "wallets")' => WalletsShown' /\ RowsShownOrComing'
                         /\ WalletsComing'
  BY DEF Coming
<1>1. calm /\ ~blank /\ token # NoUser /\ token' = token /\ user' = user
  OBVIOUS
<1>2. calls \in Seq(Calls) /\ \A k \in DOMAIN calls : k \in DOMAIN calls' /\ calls'[k] = calls[k]
  BY SentCalls DEF PageInv, PageTypes
<1>3. user' = NoUser => ProfileComing'
  BY <1>1, <1>2 DEF Coming, ProfileComing
<1>4. Unrefreshed => Unrefreshed'
  BY <1>2 DEF Unrefreshed
<1>5. ASSUME user' # NoUser, ~Unrefreshed'
      PROVE  /\ NoneOf(calls, "wallets")' => WalletsShown' /\ RowsShownOrComing'
             /\ WalletsComing'
  <2>1. /\ NoneOf(calls, "wallets") => WalletsShown /\ RowsShownOrComing
        /\ WalletsComing
    BY <1>1, <1>4, <1>5 DEF Coming
  <2>2. NoneOf(more, "wallets")
    BY DEF NoneOf
  <2>3. /\ NoneOf(calls', "wallets") => NoneOf(calls, "wallets")
        /\ \A j \in DOMAIN calls' :
             LastOf(calls', "wallets", j) =>
               j \in DOMAIN calls /\ LastOf(calls, "wallets", j) /\ calls'[j] = calls[j]
    <3>1. /\ NoneOf(calls', "wallets") => NoneOf(calls, "wallets")
          /\ \A j \in DOMAIN calls' :
               LastOf(calls', "wallets", j) =>
                 \/ \E k \in DOMAIN more : calls'[j] = more[k] /\ more[k].kind = "wallets"
                 \/ j \in DOMAIN calls /\ LastOf(calls, "wallets", j) /\ calls'[j] = calls[j]
      BY <1>2, LastSent
    <3>2. QED
      BY <2>2, <3>1 DEF NoneOf
  <2>4. List(token)' = List(token)
    BY ListSame
  <2>5. WalletsComing'
    BY <1>1, <2>1, <2>3, <2>4 DEF WalletsComing
  <2>6. ASSUME NoneOf(calls, "wallets")'
        PROVE  WalletsShown'
    <3>1. WalletsShown
      BY <2>1, <2>3, <2>6
    <3>2. active' \in Listed => active' # NoWallet /\ shown # <<>>
      BY ListedWallets, PageConstants, NoCall DEF PageInv, Listed
    <3>3. Listed' = Listed
      BY DEF Listed
    <3>4. QED
      BY <2>4, <3>1, <3>2, <3>3 DEF WalletsShown
  <2>7. ASSUME NoneOf(calls, "wallets")', active' # NoWallet
        PROVE  NoneOf(calls, "history")' => rows' = CurrentRows'
    <3>1. RowsShownOrComing
      BY <2>1, <2>3, <2>7
    <3>2. NoneOf(calls', "history") => NoneOf(calls, "history") /\ NoneOf(more, "history")
      BY <1>2, LastSent
    <3>3. active' = active => CurrentRows' = CurrentRows
      BY DEF CurrentRows
    <3>4. QED
      BY <1>1, <1>5, <2>7, <3>1, <3>2, <3>3 DEF RowsShownOrComing
  <2>8. ASSUME NoneOf(calls, "wallets")', active' # NoWallet
        PROVE  RowsComing'
    <3>1. RowsShownOrComing
      BY <2>1, <2>3, <2>8
    <3>2. ASSUME NEW j \in DOMAIN calls', LastOf(calls', "history", j),
                 NEW c, c = calls'[j]
          PROVE  /\ c.token = token /\ c.arg = active'
                 /\ c.reply.status = "ok" => c.reply.rows = CurrentRows'
      <4>1. \/ \E k \in DOMAIN more : c = more[k] /\ more[k].kind = "history"
            \/ /\ NoneOf(more, "history") /\ j \in DOMAIN calls
               /\ LastOf(calls, "history", j) /\ c = calls[j]
        BY <1>2, <3>2, LastSent
      <4>2. CASE \E k \in DOMAIN more : c = more[k] /\ more[k].kind = "history"
        BY <4>2, ReplyHolds
      <4>3. CASE /\ NoneOf(more, "history") /\ j \in DOMAIN calls
                 /\ LastOf(calls, "history", j) /\ c = calls[j]
        <5>1. active' = active
          BY <1>1, <1>5, <4>3
        <5>2. CurrentRows' = CurrentRows
          BY <5>1 DEF CurrentRows
        <5>3. QED
          BY <2>8, <3>1, <4>3, <5>1, <5>2 DEF RowsShownOrComing, RowsComing
      <4>4. QED
        BY <4>1, <4>2, <4>3
    <3>3. QED
      BY <1>1, <3>2 DEF RowsComing
  <2>9. QED
    BY <2>5, <2>6, <2>7, <2>8 DEF RowsShownOrComing
<1>6. QED
  BY <1>3, <1>5

LEMMA HistoryIsAsked ==
  ASSUME NEW t \in Users, NEW u, NEW w \in Wallets \cup {NoWallet}
  PROVE  /\ HistoryEffect(t, u, w) \in Seq(Calls)
         /\ \A j \in DOMAIN HistoryEffect(t, u, w) :
              LET c == HistoryEffect(t, u, w)[j] IN
              /\ c.kind = "history" /\ c.token = t /\ c.arg = w /\ c.reply = Unserved
         /\ u # NoUser /\ w # NoWallet => ~NoneOf(HistoryEffect(t, u, w), "history")
<1> DEFINE h == HistoryEffect(t, u, w)
<1>1. /\ h \in Seq(Calls)
      /\ \A j \in DOMAIN h :
           /\ h[j].kind = "history" /\ h[j].token = t /\ h[j].arg = w
           /\ h[j].reply = Unserved
      /\ u # NoUser /\ w # NoWallet => Len(h) = 1
  BY HistoryCalls, PageConstants
<1> HIDE DEF h
<1>2. ASSUME u # NoUser, w # NoWallet
      PROVE  ~NoneOf(h, "history")
  <2>1. 1 \in DOMAIN h
    BY <1>1, <1>2
  <2>2. QED
    BY <1>1, <2>1 DEF NoneOf
<1>3. QED
  BY <1>1, <1>2 DEF h

LEMMA RenderKeepsBlank == Render => (~blank' => ~blank)
BY Zenon DEF Render

LEMMA HandlersComing ==
  ASSUME PageInv, Coming
  PROVE  /\ \A u \in Users : SignIn(u) => Coming'
         /\ \A w \in Wallets : Select(w) \/ Open(w) => Coming'
         /\ OpenCreate \/ Close \/ Search \/ Logout => Coming'
         /\ \A t \in {"dashboard", "transactions"} : Tab(t) => Coming'
<1>1. ASSUME NEW u \in Users, SignIn(u)
      PROVE  Coming'
  BY <1>1 DEF SignIn, page, Coming
<1>2. ASSUME NEW w \in Wallets, Select(w)
      PROVE  Coming'
  <2>1. /\ Send(calls, HistoryEffect(token, user, w)) /\ token \in Users
        /\ w \in Listed /\ active' = w
        /\ UNCHANGED <<token, user, shown, rows, stored, entries, calm>>
    BY <1>2 DEF Select, Clickable, Visible, database, PageInv, PageTypes
  <2>2. ~blank' => ~blank
    BY <1>2 DEF Select, Clickable, Visible
  <2>3. QED
    BY <2>1, <2>2, HistoryIsAsked, PageConstants, ComingSent
<1>3. ASSUME NEW w \in Wallets, Open(w)
      PROVE  Coming'
  <2>1. /\ token \in Users /\ w \in Listed /\ active' = w /\ ~blank
        /\ UNCHANGED <<token, user, shown, rows, stored, entries, calm>>
    BY <1>3 DEF Open, Clickable, Visible, database, PageInv, PageTypes
  <2>2. CASE w = active
    <3>1. Send(calls, <<>>)
      BY <1>3, <2>2 DEF Open
    <3>2. QED
      BY <2>1, <2>2, <3>1, NoneSent, ComingSent
  <2>3. CASE w # active
    <3>1. Send(calls, HistoryEffect(token, user, w))
      BY <1>3, <2>3 DEF Open
    <3>2. QED
      BY <2>1, <3>1, HistoryIsAsked, PageConstants, ComingSent
  <2>4. QED
    BY <2>2, <2>3
<1>4. CASE OpenCreate \/ Close \/ \E t \in {"dashboard", "transactions"} : Tab(t)
  <2>1. /\ calls' = calls /\ ~blank
        /\ UNCHANGED <<token, user, shown, active, rows, stored, entries, calm>>
    BY <1>4 DEF OpenCreate, Close, Tab, Clickable, Visible, database
  <2>2. QED
    BY <2>1, NoneSent, SameCalls, ComingSent
<1>5. CASE Search
  <2>1. /\ Send(calls, HistoryEffect(token, user, active)) /\ token \in Users
        /\ active \in Wallets \cup {NoWallet}
        /\ UNCHANGED <<token, user, shown, active, rows, blank, stored, entries, calm>>
    BY <1>5 DEF Search, Clickable, Visible, page, database, PageInv, PageTypes
  <2>2. QED
    BY <2>1, HistoryIsAsked, ComingSent
<1>6. CASE Logout
  BY <1>6 DEF Logout, SignedOut, Coming
<1>7. QED
  BY <1>1, <1>2, <1>3, <1>4, <1>5, <1>6

LEMMA SubmitComing ==
  ASSUME PageInv, Coming, (\E to \in Wallets \cup {NoWallet} : Submit(to))
                          \/ (\E w \in Wallets : SubmitCreate(w))
  PROVE  Coming'
<1>1. PICK kind \in {"post", "create"}, w \in Wallets, to \in Wallets \cup {NoWallet} :
        Send(calls, <<Call(kind, token, active, form, w, to)>>)
  BY DEF Submit, SubmitCreate, PageInv, PageTypes
<1> DEFINE c == Call(kind, token, active, form, w, to)
<1>2. token \in Users /\ active \in Wallets \cup {NoWallet} /\ form \in Forms
  BY DEF Submit, SubmitCreate, Visible, PageInv, PageTypes
<1>3. c \in Calls /\ c.kind = kind
  BY <1>2, UnservedType DEF Call, Calls
<1>4. Send(calls, <<c>>)
  BY <1>1
<1> HIDE DEF c
<1> DEFINE more == <<c>>
<1>5. /\ more \in Seq(Calls)
      /\ \A j \in DOMAIN more : more[j].kind \notin {"wallets", "history"}
  BY <1>3, OneCall
<1>6. Send(calls, more)
  BY <1>4
<1> HIDE DEF more
<1>7. UNCHANGED <<token, user, shown, active, rows, blank, stored, entries, calm>>
  BY DEF Submit, SubmitCreate, page, database
<1>8. QED
  BY <1>5, <1>6, <1>7, ComingSent

-----------------------------------------------------------------------------
(* The replies.                                                            *)

LEMMA OneSent ==
  ASSUME NEW rest \in Seq(Calls), NEW c \in Calls, Send(rest, <<c>>)
  PROVE  /\ <<c>> \in Seq(Calls) /\ <<c>>[1] = c /\ \A k \in DOMAIN <<c>> : <<c>>[k] = c
         /\ \E j \in DOMAIN calls' : calls'[j] = c
<1> DEFINE more == <<c>>
<1>1. more \in Seq(Calls) /\ Len(more) = 1 /\ more[1] = c /\ \A k \in DOMAIN more : more[k] = c
  BY OneCall
<1>2. Send(rest, more)
  OBVIOUS
<1> HIDE DEF more
<1>3. 1 \in DOMAIN more
  BY <1>1
<1>4. \E j \in DOMAIN calls' : calls'[j] = c
  BY <1>1, <1>2, <1>3, SentCalls
<1>5. QED
  BY <1>1, <1>4 DEF more

LEMMA LoggedInComing ==
  ASSUME PageInv, Coming, NEW i \in 1 .. MaxCalls, LoggedIn(i)
  PROVE  Coming'
<1> SUFFICES ASSUME calm', token' # NoUser
             PROVE  user' = NoUser /\ ProfileComing'
  BY DEF Coming
<1>1. i <= Len(calls) /\ calls[i].kind = "login"
  BY DEF LoggedIn, Arrived
<1>2. calls[i].token = NoUser /\ calls[i].arg \in Users /\ Rest(i) \in Seq(Calls)
  BY <1>1, ArrivedCall DEF Addressed
<1>3. calm /\ calls[i].token = token
  BY CalmStays DEF LoggedIn
<1>4. user' = NoUser
  BY <1>2, <1>3 DEF LoggedIn, PageInv, Calm
<1>5. Me(token') \in Calls /\ Me(token').kind = "me" /\ Me(token').token = token'
  BY <1>2, OtherCalls DEF LoggedIn
<1> DEFINE c == Me(token')
<1>6. Send(Rest(i), <<c>>)
  BY DEF LoggedIn
<1>7. c \in Calls /\ c.kind = "me" /\ c.token = token'
  BY <1>5
<1> HIDE DEF c
<1>8. \E j \in DOMAIN calls' : calls'[j] = c
  BY <1>2, <1>6, <1>7, OneSent
<1>9. QED
  BY <1>4, <1>7, <1>8 DEF ProfileComing

\* A call for the wallets brings them, if it is the last.
LEMMA WalletsSent ==
  ASSUME PageInv, NEW i \in 1 .. MaxCalls, i <= Len(calls),
         NEW more \in Seq(Calls), Send(Rest(i), more),
         \A j \in 1 .. i - 1 : calls[j].kind # calls[i].kind,
         token' = token, ~NoneOf(more, "wallets"),
         \A k \in DOMAIN more :
           more[k].kind = "wallets" => more[k].token = token /\ more[k].reply = Unserved
  PROVE  ~NoneOf(calls, "wallets")' /\ WalletsComing'
<1>1. /\ NoneOf(calls', "wallets") => NoneOf(more, "wallets")
      /\ \A j \in DOMAIN calls' :
           LastOf(calls', "wallets", j) =>
             \/ \E k \in DOMAIN more : calls'[j] = more[k] /\ more[k].kind = "wallets"
             \/ NoneOf(more, "wallets")
  BY LastAfterReply
<1>2. ASSUME NEW j \in DOMAIN calls', LastOf(calls', "wallets", j), NEW c, c = calls'[j]
      PROVE  c.token = token /\ c.reply.status # "ok"
  BY <1>1, <1>2, ReplyHolds
<1>3. QED
  BY <1>1, <1>2 DEF WalletsComing

LEMMA GotProfileComing ==
  ASSUME PageInv, Coming, NEW i \in 1 .. MaxCalls, GotProfile(i)
  PROVE  Coming'
<1>1. i <= Len(calls) /\ calls[i].kind = "me"
  BY DEF GotProfile, Arrived
<1> SUFFICES ASSUME calm'
             PROVE  user' # NoUser /\ ~NoneOf(calls, "wallets")' /\ WalletsComing'
  BY DEF Coming
<1>2. calls[i].token \in Users
  BY <1>1, ArrivedCall DEF Addressed
<1>3. /\ calls[i].token = token
      /\ \A j \in 1 .. i - 1 : calls[j].kind # calls[i].kind
  BY CalmStays DEF GotProfile
<1>4. user' # NoUser /\ token \in Users /\ token # NoUser /\ token' = token
  BY <1>2, <1>3, PageConstants DEF GotProfile
<1>5. active \in Wallets \cup {NoWallet}
  BY DEF PageInv, PageTypes
<1> DEFINE w == FetchWallets(token, active)
           h == HistoryEffect(token, user', active)
           o == <<w>>
           more == o \o h
<1>6. w \in Calls /\ w.kind = "wallets" /\ w.token = token /\ w.reply = Unserved
  BY <1>4, <1>5, OtherCalls
<1>7. h \in Seq(Calls) /\ \A k \in DOMAIN h : h[k].kind = "history"
  BY <1>4, <1>5, HistoryIsAsked
<1>8. Send(Rest(i), more)
  BY <1>4 DEF GotProfile
<1> HIDE DEF w, h
<1>9. o \in Seq(Calls) /\ Len(o) = 1 /\ o[1] = w /\ \A k \in DOMAIN o : o[k] = w
  BY <1>6, OneCall
<1> HIDE DEF o
<1>10. more = o \o h
  OBVIOUS
<1> HIDE DEF more
<1>11. /\ more \in Seq(Calls) /\ Len(more) = Len(o) + Len(h)
       /\ \A k \in DOMAIN more : \/ \E m \in DOMAIN o : more[k] = o[m]
                                 \/ \E m \in DOMAIN h : more[k] = h[m]
       /\ more[1] = w /\ 1 \in DOMAIN more
  <2>1. \A k \in 1 .. Len(o) + Len(h) : more[k] = IF k <= Len(o) THEN o[k] ELSE h[k - Len(o)]
    BY <1>7, <1>9, <1>10, ConcatProperties
  <2>2. Len(h) \in Nat
    BY <1>7
  <2>3. /\ more \in Seq(Calls) /\ Len(more) = Len(o) + Len(h)
        /\ \A k \in DOMAIN more : \/ \E m \in DOMAIN o : more[k] = o[m]
                                  \/ \E m \in DOMAIN h : more[k] = h[m]
    <3>1. more \in Seq(Calls) /\ Len(more) = Len(o) + Len(h)
      BY <1>7, <1>9, <1>10, ConcatProperties
    <3>2. ASSUME NEW k \in DOMAIN more
          PROVE  \/ \E m \in DOMAIN o : more[k] = o[m]
                 \/ \E m \in DOMAIN h : more[k] = h[m]
      <4>1. /\ k \in 1 .. Len(o) + Len(h) /\ DOMAIN o = 1 .. Len(o)
            /\ DOMAIN h = 1 .. Len(h)
        BY <1>7, <1>9, <3>1
      <4>2. CASE k <= Len(o)
        BY <1>9, <2>1, <4>1, <4>2
      <4>3. CASE ~(k <= Len(o))
        <5>1. k - Len(o) \in DOMAIN h /\ more[k] = h[k - Len(o)]
          BY <1>9, <2>1, <2>2, <4>1, <4>3
        <5>2. QED
          BY <5>1
      <4>4. QED
        BY <4>2, <4>3
    <3>3. QED
      BY <3>1, <3>2
  <2>4. more[1] = w /\ 1 \in DOMAIN more
    BY <1>9, <2>1, <2>2, <2>3
  <2>5. QED
    BY <2>3, <2>4
<1>12. ~NoneOf(more, "wallets")
  BY <1>6, <1>11 DEF NoneOf
<1>13. \A k \in DOMAIN more :
         more[k].kind = "wallets" => more[k].token = token /\ more[k].reply = Unserved
  BY <1>6, <1>7, <1>9, <1>11
<1>14. QED
  BY <1>1, <1>3, <1>4, <1>8, <1>11, <1>12, <1>13, WalletsSent

LEMMA DoneComing ==
  ASSUME PageInv, Coming, NEW i \in 1 .. MaxCalls, Done(i)
  PROVE  Coming'
<1>1. i <= Len(calls) /\ calls[i].kind \in {"post", "create"}
  BY DEF Done, Arrived
<1> SUFFICES ASSUME calm', ~blank', token' # NoUser
             PROVE  /\ user' = NoUser => ProfileComing'
                    /\ ~NoneOf(calls, "wallets")' /\ WalletsComing'
  BY DEF Coming
<1>2. /\ calls[i].token \in Users /\ calls[i].active \in Wallets \cup {NoWallet}
      /\ Rest(i) \in Seq(Calls)
  BY <1>1, ArrivedCall DEF Addressed, Calls
<1>3. /\ calm /\ calls[i].token = token
      /\ \A j \in 1 .. i - 1 : calls[j].kind # calls[i].kind
  BY CalmStays DEF Done
<1>4. UNCHANGED <<token, user, blank>>
  BY DEF Done
<1> DEFINE c == FetchWallets(calls[i].token, calls[i].active)
<1>5. c \in Calls /\ c.kind = "wallets" /\ c.token = token /\ c.reply = Unserved
  BY <1>2, <1>3, OtherCalls
<1>6. Send(Rest(i), <<c>>)
  BY DEF Done
<1> HIDE DEF c
<1> DEFINE more == <<c>>
<1>7. more \in Seq(Calls) /\ Len(more) = 1 /\ \A k \in DOMAIN more : more[k] = c
  BY <1>5, OneCall
<1>8. Send(Rest(i), more)
  BY <1>6
<1> HIDE DEF more
<1>9. ~NoneOf(more, "wallets")
  BY <1>5, <1>7 DEF NoneOf
<1>10. \A k \in DOMAIN more :
         more[k].kind = "wallets" => more[k].token = token /\ more[k].reply = Unserved
  BY <1>5, <1>7
<1>11. ~NoneOf(calls, "wallets")' /\ WalletsComing'
  BY <1>1, <1>3, <1>4, <1>7, <1>8, <1>9, <1>10, WalletsSent
<1>12. ASSUME user' = NoUser
       PROVE  ProfileComing'
  <2>1. PICK k \in DOMAIN calls : calls[k].kind = "me" /\ calls[k].token = token
    BY <1>3, <1>4, <1>12 DEF Coming, ProfileComing
  <2>2. k # i
    BY <1>1, <2>1
  <2>3. \A n \in DOMAIN calls : n # i => \E j \in DOMAIN calls' : calls'[j] = calls[n]
    BY <1>1, <1>3, <1>7, <1>8, LastAfterReply
  <2>4. QED
    BY <1>4, <2>1, <2>2, <2>3 DEF ProfileComing
<1>13. QED
  BY <1>11, <1>12

\* A reply that leaves the wallets as they are.
LEMMA ComingRemoved ==
  ASSUME PageInv, Coming, NEW i \in 1 .. MaxCalls, i <= Len(calls), calls' = Rest(i),
         UNCHANGED <<token, user, shown, active, stored, entries>>,
         ~blank' => ~blank, StaysCalm(i),
         calls[i].kind \notin {"me", "wallets"},
         calls[i].kind \in {"post", "create"} => calls[i].reply.status # "ok",
         IF calls[i].kind = "history"
         THEN calls[i].reply.status = "ok" /\ rows' = calls[i].reply.rows
         ELSE rows' = rows
  PROVE  Coming'
<1> SUFFICES ASSUME calm', ~blank', token' # NoUser
             PROVE  /\ user' = NoUser => ProfileComing'
                    /\ (user' # NoUser /\ ~Unrefreshed') =>
                         /\ NoneOf(calls, "wallets")' => WalletsShown' /\ RowsShownOrComing'
                         /\ WalletsComing'
  BY DEF Coming
<1>1. /\ calm /\ ~blank /\ token # NoUser /\ calls[i].token = token
      /\ \A j \in 1 .. i - 1 : calls[j].kind # calls[i].kind
  BY CalmStays
<1>2. Send(Rest(i), <<>>) /\ <<>> \in Seq(Calls)
  BY ArrivedCall, NothingSent, NoneSent DEF PageInv
<1>3. ASSUME NEW kind
      PROVE  /\ NoneOf(calls', kind) =>
                  IF calls[i].kind = kind THEN LastOf(calls, kind, i)
                                          ELSE NoneOf(calls, kind)
             /\ \A j \in DOMAIN calls' :
                  LastOf(calls', kind, j) =>
                    \E k \in DOMAIN calls : LastOf(calls, kind, k) /\ calls'[j] = calls[k]
             /\ \A k \in DOMAIN calls :
                  k # i => \E j \in DOMAIN calls' : calls'[j] = calls[k]
  <2>1. PICK more : more = <<>>
    OBVIOUS
  <2>2. more \in Seq(Calls) /\ Send(Rest(i), more) /\ \A k \in DOMAIN more : FALSE
    BY <1>2, <2>1, NoneSent
  <2>3. QED
    BY <1>1, <2>2, LastAfterReply
<1>4. ASSUME user' = NoUser
      PROVE  ProfileComing'
  BY <1>1, <1>3, <1>4 DEF Coming, ProfileComing
<1>5. ASSUME user' # NoUser, ~Unrefreshed'
      PROVE  /\ NoneOf(calls, "wallets")' => WalletsShown' /\ RowsShownOrComing'
             /\ WalletsComing'
  <2>1. ~Unrefreshed
    BY <1>3, <1>5 DEF Unrefreshed
  <2>2. /\ NoneOf(calls, "wallets") => WalletsShown /\ RowsShownOrComing
        /\ WalletsComing
    BY <1>1, <1>5, <2>1 DEF Coming
  <2>3. List(token)' = List(token) /\ CurrentRows' = CurrentRows /\ Listed' = Listed
    BY ListSame DEF CurrentRows, Listed
  <2>4. WalletsComing'
    BY <1>3, <2>2, <2>3 DEF WalletsComing
  <2>5. ASSUME NoneOf(calls, "wallets")'
        PROVE  WalletsShown' /\ RowsShownOrComing'
    <3>1. WalletsShown /\ RowsShownOrComing
      BY <1>3, <2>2, <2>5
    <3>2. WalletsShown'
      BY <2>3, <3>1 DEF WalletsShown
    <3>3. ASSUME active' # NoWallet
          PROVE  RowsComing'
      BY <1>3, <2>3, <3>1, <3>3 DEF RowsShownOrComing, RowsComing
    <3>4. ASSUME active' # NoWallet, NoneOf(calls', "history")
          PROVE  rows' = CurrentRows
      <4>1. IF calls[i].kind = "history" THEN LastOf(calls, "history", i)
                                         ELSE NoneOf(calls, "history")
        BY <1>3, <3>4
      <4>2. i \in DOMAIN calls
        BY ArrivedCall
      <4>3. QED
        BY <3>1, <3>4, <4>1, <4>2 DEF RowsShownOrComing, RowsComing
    <3>5. QED
      BY <2>3, <3>2, <3>3, <3>4 DEF RowsShownOrComing
  <2>6. QED
    BY <2>4, <2>5
<1>6. QED
  BY <1>4, <1>5

LEMMA SmallRepliesComing ==
  ASSUME PageInv, Coming, NEW i \in 1 .. MaxCalls
  PROVE  GotTransactions(i) \/ Ignored(i) \/ Lose(i) \/ ProfileRefused(i) => Coming'
<1>1. ASSUME GotTransactions(i)
      PROVE  Coming'
  <2>1. /\ i <= Len(calls) /\ calls' = Rest(i)
        /\ UNCHANGED <<token, user, shown, active, stored, entries>> /\ StaysCalm(i)
        /\ calls[i].kind = "history" /\ calls[i].reply.status = "ok"
        /\ rows' = calls[i].reply.rows
    BY <1>1 DEF GotTransactions, Arrived, database
  <2>2. ~blank' => ~blank
    BY <1>1, RenderKeepsBlank DEF GotTransactions
  <2>3. QED
    BY <2>1, <2>2, ComingRemoved
<1>2. ASSUME Ignored(i)
      PROVE  Coming'
  <2>1. calls' = Rest(i) /\ StaysCalm(i) /\ i <= Len(calls)
        /\ UNCHANGED <<token, user, shown, active, rows, blank, stored, entries>>
    BY <1>2 DEF Ignored, Arrived, page, database
  <2>2. CASE blank
    BY <2>1, <2>2 DEF Coming
  <2>3. CASE ~blank
    <3>1. /\ calls[i].kind \in {"login", "wallets", "history", "post", "create"}
          /\ calls[i].reply.status = "denied"
      BY <1>2, <2>3 DEF Ignored, Arrived
    <3>2. CASE calls[i].kind \in {"wallets", "history"}
      <4>1. ~calm'
        BY <2>1, <3>1, <3>2, CalmStays
      <4>2. QED
        BY <4>1 DEF Coming
    <3>3. CASE calls[i].kind \in {"login", "post", "create"}
      BY <2>1, <3>1, <3>3, ComingRemoved
    <3>4. QED
      BY <3>1, <3>2, <3>3
  <2>4. QED
    BY <2>2, <2>3
<1>3. ASSUME Lose(i)
      PROVE  Coming'
  BY <1>3 DEF Lose, Coming
<1>4. ASSUME ProfileRefused(i)
      PROVE  Coming'
  BY <1>4 DEF ProfileRefused, SignedOut, Coming
<1>5. QED
  BY <1>1, <1>2, <1>3, <1>4

LEMMA ReloadComing ==
  ASSUME PageInv, Reload
  PROVE  Coming'
<1> SUFFICES ASSUME token' # NoUser
             PROVE  user' = NoUser /\ ProfileComing'
  BY DEF Coming
<1>1. token' = token /\ user' = NoUser /\ token \in Users
  BY DEF Reload, PageInv, PageTypes
<1> DEFINE c == Me(token)
<1>2. c \in Calls /\ c.kind = "me" /\ c.token = token
  BY <1>1, OtherCalls
<1>3. calls' = <<c>>
  BY <1>1 DEF Reload
<1> HIDE DEF c
<1>4. 1 \in DOMAIN calls' /\ calls'[1] = c
  BY <1>2, <1>3
<1>5. QED
  BY <1>1, <1>2, <1>4 DEF ProfileComing

\* The list of wallets selects one of them, if there is one: the wallet that
\* was active, or the first.
LEMMA WalletsSelect ==
  ASSUME PageInv, NEW i \in 1 .. MaxCalls, GotWallets(i), calm,
         calls[i].token = token, calls[i].reply.wallets = List(token)
  PROVE  /\ shown' = List(token)
         /\ \/ /\ shown' = <<>> /\ active' = NoWallet
            \/ /\ shown' # <<>> /\ active' \in Listed' /\ active' \in Wallets
               /\ Send(Rest(i), HistoryEffect(token, user, active'))
<1> DEFINE c == calls[i]
           data == c.reply.wallets
           chosen == IF data = <<>> THEN {}
                     ELSE IF c.active = NoWallet THEN {data[1].id}
                     ELSE {c.active} \cap {data[j].id : j \in DOMAIN data}
<1>1. /\ data \in Seq(Cards) /\ shown' = data
      /\ \A w \in chosen : \E j \in DOMAIN data : w = data[j].id
      /\ chosen = {} => active' = active
      /\ chosen # {} => active' \in chosen
      /\ Send(Rest(i), IF chosen = {} THEN <<>> ELSE HistoryEffect(token, user, active'))
  BY ChosenWallet
<1>2. i <= Len(calls) /\ c.kind = "wallets"
  BY DEF GotWallets, Arrived
<1>3. token \in Users /\ (c.active # NoWallet => Belongs(c.active, token))
  BY <1>2, ArrivedCall DEF Addressed
<1>4. /\ DOMAIN data = DOMAIN stored[token]
      /\ \A j \in DOMAIN data : data[j].id = stored[token][j]
  <2>1. DOMAIN List(token) = DOMAIN stored[token]
    BY DEF List
  <2>2. \A j \in DOMAIN stored[token] : List(token)[j].id = stored[token][j]
    BY DEF List
  <2>3. QED
    BY <2>1, <2>2
<1>5. \A w : Belongs(w, token) => \E j \in DOMAIN data : data[j].id = w
  BY <1>4 DEF Belongs, Stored, ToSet
<1>6. CASE data = <<>>
  <2>1. chosen = {} /\ DOMAIN data = {}
    BY <1>6, NoCall
  <2>2. active' = active
    BY <1>1, <2>1
  <2>3. active = NoWallet
    <3>1. active # NoWallet => Belongs(active, token)
      BY DEF PageInv, Calm
    <3> HIDE DEF data
    <3>2. QED
      BY <1>5, <2>1, <3>1
  <2>4. QED
    BY <1>1, <1>6, <2>2, <2>3
<1>7. CASE data # <<>>
  <2>1. chosen # {}
    <3>1. CASE c.active = NoWallet
      <4>1. chosen = {data[1].id}
        BY <1>7, <3>1
      <4>2. QED
        BY <4>1
    <3>2. CASE c.active # NoWallet
      <4>1. \E j \in DOMAIN data : data[j].id = c.active
        BY <1>3, <1>5, <3>2
      <4>2. chosen = {c.active} \cap {data[j].id : j \in DOMAIN data}
        BY <1>7, <3>2
      <4>3. c.active \in chosen
        BY <4>1, <4>2
      <4>4. QED
        BY <4>3
    <3>3. QED
      BY <3>1, <3>2
  <2>2. /\ active' \in chosen
        /\ Send(Rest(i), HistoryEffect(token, user, active'))
    BY <1>1, <2>1
  <2> HIDE DEF chosen
  <2>3. PICK j \in DOMAIN data : active' = data[j].id
    BY <1>1, <2>2
  <2>4. data[j] \in Cards
    BY <1>1
  <2>5. active' \in Wallets
    BY <2>3, <2>4 DEF Cards
  <2>6. active' \in Listed'
    BY <1>1, <2>3 DEF Listed
  <2>7. QED
    BY <1>1, <1>7, <2>2, <2>5, <2>6
<1>8. QED
  BY <1>6, <1>7

LEMMA GotWalletsComing ==
  ASSUME PageInv, Coming, NEW i \in 1 .. MaxCalls, GotWallets(i)
  PROVE  Coming'
<1> SUFFICES ASSUME calm', ~blank', token' # NoUser
             PROVE  /\ user' = NoUser => ProfileComing'
                    /\ (user' # NoUser /\ ~Unrefreshed') =>
                         /\ NoneOf(calls, "wallets")' => WalletsShown' /\ RowsShownOrComing'
                         /\ WalletsComing'
  BY DEF Coming
<1>1. /\ i <= Len(calls) /\ calls[i].kind = "wallets" /\ calls[i].reply.status = "ok"
      /\ UNCHANGED <<token, user, rows, stored, entries>>
  BY DEF GotWallets, Arrived, database
<1>2. /\ calm /\ calls[i].token = token
      /\ \A j \in 1 .. i - 1 : calls[j].kind # calls[i].kind
  BY CalmStays DEF GotWallets
<1>3. ~blank
  BY RenderKeepsBlank DEF GotWallets
<1>4. token \in Users /\ active' \in Wallets \cup {NoWallet}
  BY <1>1, <1>2, ArrivedCall, GotWalletsKept DEF Addressed, PageInv, PageTypes
<1>5. PICK more : /\ Send(Rest(i), more)
                  /\ more = <<>> \/ more = HistoryEffect(token, user, active')
  BY Zenon DEF GotWallets
<1>6. more \in Seq(Calls) /\ \A k \in DOMAIN more : more[k].kind = "history"
  <2>1. CASE more = <<>>
    BY <2>1, NoneSent
  <2>2. CASE more = HistoryEffect(token, user, active')
    BY <1>4, <2>2, HistoryIsAsked
  <2>3. QED
    BY <1>5, <2>1, <2>2
<1>7. /\ NoneOf(calls', "wallets") => LastOf(calls, "wallets", i)
      /\ \A j \in DOMAIN calls' :
           LastOf(calls', "wallets", j) =>
             \E k \in DOMAIN calls : LastOf(calls, "wallets", k) /\ calls'[j] = calls[k]
      /\ \A k \in DOMAIN calls : k # i => \E j \in DOMAIN calls' : calls'[j] = calls[k]
  <2>1. /\ NoneOf(calls', "wallets") => IF calls[i].kind = "wallets"
                                         THEN LastOf(calls, "wallets", i)
                                         ELSE NoneOf(calls, "wallets")
        /\ \A j \in DOMAIN calls' :
             LastOf(calls', "wallets", j) =>
               \/ \E k \in DOMAIN more : calls'[j] = more[k] /\ more[k].kind = "wallets"
               \/ \E k \in DOMAIN calls : LastOf(calls, "wallets", k) /\ calls'[j] = calls[k]
        /\ \A k \in DOMAIN calls : k # i => \E j \in DOMAIN calls' : calls'[j] = calls[k]
    <3>1. Send(Rest(i), more) /\ more \in Seq(Calls)
      BY <1>5, <1>6
    <3>2. QED
      BY <1>1, <1>2, <3>1, LastAfterReply
  <2>2. QED
    BY <1>1, <1>6, <2>1
<1>8. ASSUME user' = NoUser
      PROVE  ProfileComing'
  <2>1. PICK k \in DOMAIN calls : calls[k].kind = "me" /\ calls[k].token = token
    BY <1>1, <1>2, <1>3, <1>8 DEF Coming, ProfileComing
  <2>2. k # i
    BY <1>1, <2>1
  <2>3. QED
    BY <1>1, <1>7, <2>1, <2>2 DEF ProfileComing
<1>9. ASSUME user' # NoUser, ~Unrefreshed'
      PROVE  /\ NoneOf(calls, "wallets")' => WalletsShown' /\ RowsShownOrComing'
             /\ WalletsComing'
  <2>1. ~Unrefreshed
    BY <1>1, <1>7, <1>9 DEF Unrefreshed
  <2>2. WalletsComing
    BY <1>1, <1>2, <1>3, <1>9, <2>1 DEF Coming
  <2>3. List(token)' = List(token)
    BY <1>1, ListSame
  <2>4. WalletsComing'
    BY <1>1, <1>7, <2>2, <2>3 DEF WalletsComing
  <2>5. ASSUME NoneOf(calls, "wallets")'
        PROVE  WalletsShown' /\ RowsShownOrComing'
    <3>1. calls[i].reply.wallets = List(token)
      BY <1>1, <1>7, <2>2, <2>5 DEF WalletsComing, LastOf
    <3>2. /\ shown' = List(token)
          /\ \/ shown' = <<>> /\ active' = NoWallet
             \/ /\ shown' # <<>> /\ active' \in Listed' /\ active' \in Wallets
                /\ Send(Rest(i), HistoryEffect(token, user, active'))
      BY <1>2, <3>1, WalletsSelect
    <3>3. CASE shown' = <<>> /\ active' = NoWallet
      BY <2>3, <3>2, <3>3 DEF WalletsShown, RowsShownOrComing
    <3>4. CASE /\ shown' # <<>> /\ active' \in Listed' /\ active' \in Wallets
               /\ Send(Rest(i), HistoryEffect(token, user, active'))
      <4> DEFINE h == HistoryEffect(token, user, active')
      <4>1. active' # NoWallet
        BY <3>4, PageConstants
      <4>2. /\ h \in Seq(Calls) /\ Send(Rest(i), h) /\ ~NoneOf(h, "history")
            /\ \A k \in DOMAIN h :
                 h[k].token = token /\ h[k].arg = active' /\ h[k].reply = Unserved
        BY <1>1, <1>4, <1>9, <3>4, <4>1, HistoryIsAsked
      <4> HIDE DEF h
      <4>3. /\ NoneOf(calls', "history") => NoneOf(h, "history")
            /\ \A j \in DOMAIN calls' :
                 LastOf(calls', "history", j) =>
                   \/ \E k \in DOMAIN h : calls'[j] = h[k] /\ h[k].kind = "history"
                   \/ NoneOf(h, "history")
        BY <1>1, <1>2, <4>2, LastAfterReply
      <4>4. ASSUME NEW j \in DOMAIN calls', LastOf(calls', "history", j),
                   NEW c, c = calls'[j]
            PROVE  c.token = token /\ c.arg = active' /\ c.reply.status # "ok"
        BY <4>2, <4>3, <4>4, ReplyHolds
      <4>5. RowsComing' /\ ~NoneOf(calls, "history")'
        BY <1>1, <4>2, <4>3, <4>4 DEF RowsComing
      <4>6. WalletsShown'
        BY <2>3, <3>2, <3>4, <4>1 DEF WalletsShown
      <4>7. QED
        BY <4>5, <4>6 DEF RowsShownOrComing
    <3>5. QED
      BY <3>2, <3>3, <3>4
  <2>6. QED
    BY <2>4, <2>5
<1>10. QED
  BY <1>8, <1>9

-----------------------------------------------------------------------------
(* The server.                                                             *)

\* An answer to a call that is not for the wallets or the history shown, or
\* is what they are now.
LEMMA ComingAnswered ==
  ASSUME PageInv, Coming, UNCHANGED <<page, stored, entries, calm>>,
         NEW i \in DOMAIN calls, calls[i].reply = Unserved,
         NEW r \in Replies, Answer(i, r),
         calls[i].kind = "wallets" /\ r.status = "ok" => r.wallets = List(calls[i].token),
         calls[i].kind = "history" /\ r.status = "ok"
           /\ Owner[calls[i].arg] = calls[i].token =>
             r.rows = [wallet |-> calls[i].arg, entries |-> entries[calls[i].arg]]
  PROVE  Coming'
<1>1. /\ DOMAIN calls' = DOMAIN calls
      /\ \A j \in DOMAIN calls :
           /\ calls'[j].kind = calls[j].kind /\ calls'[j].token = calls[j].token
           /\ calls'[j].arg = calls[j].arg
           /\ calls'[j].reply = IF j = i THEN r ELSE calls[j].reply
  BY AnsweredCalls DEF PageInv, PageTypes
<1>2. UNCHANGED <<token, user, shown, active, rows, blank>>
  BY DEF page
<1> SUFFICES ASSUME calm, ~blank, token # NoUser
             PROVE  /\ user' = NoUser => ProfileComing'
                    /\ (user' # NoUser /\ ~Unrefreshed') =>
                         /\ NoneOf(calls, "wallets")' => WalletsShown' /\ RowsShownOrComing'
                         /\ WalletsComing'
  BY <1>2 DEF Coming
<1>3. user' = NoUser => ProfileComing'
  BY <1>1, <1>2 DEF Coming, ProfileComing
<1>4. \A kind : /\ NoneOf(calls', kind) => NoneOf(calls, kind)
                /\ \A j \in DOMAIN calls : LastOf(calls', kind, j) => LastOf(calls, kind, j)
  BY <1>1 DEF NoneOf, LastOf
<1>5. ASSUME user' # NoUser, ~Unrefreshed'
      PROVE  /\ NoneOf(calls, "wallets")' => WalletsShown' /\ RowsShownOrComing'
             /\ WalletsComing'
  <2>1. ~Unrefreshed
    <3>1. Unserved.status = "none"
      BY DEF Unserved
    <3>2. QED
      BY <1>1, <1>5, <3>1 DEF Unrefreshed
  <2>2. /\ NoneOf(calls, "wallets") => WalletsShown /\ RowsShownOrComing
        /\ WalletsComing
    BY <1>2, <1>5, <2>1 DEF Coming
  <2>3. List(token)' = List(token) /\ CurrentRows' = CurrentRows /\ Listed' = Listed
    BY <1>2, ListSame DEF CurrentRows, Listed
  <2>4. ASSUME NEW j \in DOMAIN calls', LastOf(calls', "wallets", j), NEW c, c = calls'[j]
        PROVE  /\ c.token = token
               /\ c.reply.status = "ok" => c.reply.wallets = List(token)
    <3>1. j \in DOMAIN calls /\ LastOf(calls, "wallets", j)
      BY <1>1, <1>4, <2>4
    <3>2. /\ calls[j].token = token /\ calls[j].kind = "wallets"
          /\ calls[j].reply.status = "ok" => calls[j].reply.wallets = List(token)
      BY <2>2, <3>1 DEF WalletsComing, LastOf
    <3>3. c.token = calls[j].token /\ c.reply = IF j = i THEN r ELSE calls[j].reply
      BY <1>1, <2>4, <3>1
    <3>4. QED
      BY <3>2, <3>3
  <2>5. WalletsComing'
    BY <1>2, <2>3, <2>4 DEF WalletsComing
  <2>6. ASSUME NoneOf(calls, "wallets")'
        PROVE  WalletsShown' /\ RowsShownOrComing'
    <3>1. WalletsShown /\ RowsShownOrComing
      BY <1>4, <2>2, <2>6
    <3>2. WalletsShown'
      BY <1>2, <2>3, <3>1 DEF WalletsShown
    <3>3. ASSUME active # NoWallet,
                 NEW j \in DOMAIN calls', LastOf(calls', "history", j), NEW c, c = calls'[j]
          PROVE  /\ c.token = token /\ c.arg = active
                 /\ c.reply.status = "ok" => c.reply.rows = CurrentRows
      <4>1. j \in DOMAIN calls /\ LastOf(calls, "history", j)
        BY <1>1, <1>4, <3>3
      <4>2. /\ calls[j].token = token /\ calls[j].arg = active
            /\ calls[j].kind = "history"
            /\ calls[j].reply.status = "ok" => calls[j].reply.rows = CurrentRows
        BY <3>1, <3>3, <4>1 DEF RowsShownOrComing, RowsComing, LastOf
      <4>3. /\ c.token = calls[j].token /\ c.arg = calls[j].arg
            /\ c.reply = IF j = i THEN r ELSE calls[j].reply
        BY <1>1, <3>3, <4>1
      <4>4. Owner[active] = token
        BY <3>3 DEF PageInv, Calm, Belongs
      <4>5. j = i /\ r.status = "ok" => r.rows = CurrentRows
        BY <4>2, <4>4 DEF CurrentRows
      <4>6. QED
        BY <4>2, <4>3, <4>5
    <3>4. active # NoWallet => RowsComing'
      BY <1>2, <2>3, <3>3 DEF RowsComing
    <3>5. active # NoWallet /\ NoneOf(calls', "history") => rows' = CurrentRows'
      BY <1>2, <1>4, <2>3, <3>1 DEF RowsShownOrComing
    <3>6. QED
      BY <1>2, <3>2, <3>4, <3>5 DEF RowsShownOrComing
  <2>7. QED
    BY <2>5, <2>6
<1>6. QED
  BY <1>3, <1>5

\* A posting or a new wallet: the handler that waits for it fetches the wallets.
LEMMA ComingWritten ==
  ASSUME PageInv, Coming, UNCHANGED <<page, calm>>,
         NEW i \in DOMAIN calls, calls[i].kind \in {"post", "create"}, Answer(i, Ok)
  PROVE  Coming'
<1>1. Ok \in Replies /\ Ok.status = "ok"
  BY PlainReply, OkIs
<1>2. /\ DOMAIN calls' = DOMAIN calls
      /\ \A j \in DOMAIN calls :
           /\ calls'[j].kind = calls[j].kind /\ calls'[j].token = calls[j].token
           /\ calls'[j].reply = IF j = i THEN Ok ELSE calls[j].reply
  BY <1>1, AnsweredCalls DEF PageInv, PageTypes
<1>3. UNCHANGED <<token, user, blank>>
  BY DEF page
<1>4. Unrefreshed'
  BY <1>1, <1>2 DEF Unrefreshed
<1>5. ProfileComing => ProfileComing'
  BY <1>2, <1>3 DEF ProfileComing
<1>6. QED
  BY <1>3, <1>4, <1>5 DEF Coming

LEMMA ServerComing ==
  ASSUME PageInv, Coming, NEW i \in 1 .. MaxCalls
  PROVE  ServeRead(i) \/ ServePost(i) \/ ServeCreate(i) \/ Deny(i) => Coming'
<1>1. ASSUME ServeRead(i)
      PROVE  Coming'
  <2>1. /\ i \in DOMAIN calls /\ calls[i].reply = Unserved
        /\ UNCHANGED <<page, stored, entries, calm>>
    BY <1>1, WaitingCall DEF ServeRead, Waiting, database
  <2>2. PICK r \in Replies :
          /\ Answer(i, r)
          /\ calls[i].kind = "wallets" => r.wallets = List(calls[i].token)
          /\ calls[i].kind = "history" /\ Owner[calls[i].arg] = calls[i].token =>
               r.rows = [wallet |-> calls[i].arg, entries |-> entries[calls[i].arg]]
    BY <1>1, ReadReply
  <2>3. QED
    BY <2>1, <2>2, ComingAnswered
<1>2. ASSUME Deny(i)
      PROVE  Coming'
  <2>1. /\ i \in DOMAIN calls /\ calls[i].reply = Unserved
        /\ UNCHANGED <<page, stored, entries, calm>>
    BY <1>2, WaitingCall DEF Deny, Waiting, database
  <2>2. PICK r \in Replies : Answer(i, r) /\ r.status = "denied"
    BY <1>2, PlainReply DEF Deny
  <2>3. QED
    BY <2>1, <2>2, ComingAnswered
<1>3. ASSUME ServePost(i) \/ ServeCreate(i)
      PROVE  Coming'
  <2>1. /\ i \in DOMAIN calls /\ calls[i].kind \in {"post", "create"}
        /\ Answer(i, Ok) /\ UNCHANGED <<page, calm>>
    BY <1>3, WaitingCall DEF ServePost, ServeCreate
  <2>2. QED
    BY <2>1, ComingWritten
<1>4. QED
  BY <1>1, <1>2, <1>3

LEMMA ComingStep ==
  ASSUME PageInv, Coming, [Next]_vars
  PROVE  Coming'
<1>1. CASE \E u \in Users : SignIn(u)
  BY <1>1, HandlersComing
<1>2. CASE \E w \in Wallets : Select(w) \/ Open(w) \/ SubmitCreate(w)
  BY <1>2, HandlersComing, SubmitComing
<1>3. CASE \E to \in Wallets \cup {NoWallet} : Submit(to)
  BY <1>3, SubmitComing
<1>4. CASE OpenCreate \/ Close \/ Search \/ Logout \/ Reload
  BY <1>4, HandlersComing, ReloadComing
<1>5. CASE \E t \in {"dashboard", "transactions"} : Tab(t)
  BY <1>5, HandlersComing
<1>6. ASSUME NEW i \in 1 .. MaxCalls,
             \/ ServeRead(i) \/ ServePost(i) \/ ServeCreate(i) \/ Deny(i)
             \/ LoggedIn(i) \/ GotProfile(i) \/ ProfileRefused(i) \/ GotWallets(i)
             \/ GotTransactions(i) \/ Done(i) \/ Ignored(i) \/ Lose(i)
      PROVE  Coming'
  BY <1>6, ServerComing, LoggedInComing, GotProfileComing, GotWalletsComing,
     DoneComing, SmallRepliesComing
<1>7. CASE UNCHANGED vars
  <2>1. UNCHANGED <<token, user, shown, active, rows, blank, calls, stored, entries, calm>>
    BY <1>7 DEF vars, page, database
  <2>2. /\ List(token)' = List(token) /\ CurrentRows' = CurrentRows
        /\ Listed' = Listed /\ (Unrefreshed' <=> Unrefreshed)
    BY <2>1, ListSame DEF CurrentRows, Listed, Unrefreshed
  <2>3. (ProfileComing' <=> ProfileComing) /\ (WalletsComing' <=> WalletsComing)
    BY <2>1, <2>2 DEF ProfileComing, WalletsComing
  <2>4. (WalletsShown' <=> WalletsShown) /\ (RowsShownOrComing' <=> RowsShownOrComing)
    BY <2>1, <2>2 DEF WalletsShown, RowsShownOrComing, RowsComing
  <2>5. QED
    BY <2>1, <2>2, <2>3, <2>4 DEF Coming
<1>8. QED
  BY <1>1, <1>2, <1>3, <1>4, <1>5, <1>6, <1>7 DEF Next

LEMMA SettledWhenComing ==
  ASSUME PageInv, Coming
  PROVE  SettledViewIsCurrent
<1> SUFFICES ASSUME calm, calls = <<>>, ~blank
             PROVE  IF token = NoUser
                    THEN user = NoUser /\ shown = <<>> /\ active = NoWallet /\ rows = NoRows
                    ELSE /\ user = token
                         /\ shown = List(token)
                         /\ active = NoWallet <=> shown = <<>>
                         /\ active # NoWallet =>
                              active \in Listed /\ rows = [wallet |-> active,
                                                          entries |-> entries[active]]
  BY DEF SettledViewIsCurrent
<1>1. DOMAIN calls = {}
  BY NoCall
<1>2. CASE token = NoUser
  BY <1>2 DEF PageInv, Calm
<1>3. CASE token # NoUser
  <2>1. /\ ~ProfileComing /\ ~Unrefreshed
        /\ NoneOf(calls, "wallets") /\ NoneOf(calls, "history")
    BY <1>1 DEF ProfileComing, Unrefreshed, NoneOf
  <2>2. user # NoUser
    BY <1>3, <2>1 DEF Coming
  <2>3. user = token
    BY <2>2 DEF PageInv, Calm
  <2>4. WalletsShown /\ RowsShownOrComing
    BY <1>3, <2>1, <2>2 DEF Coming
  <2>5. QED
    BY <1>3, <2>1, <2>3, <2>4 DEF WalletsShown, RowsShownOrComing, CurrentRows
<1>4. QED
  BY <1>2, <1>3

\* Once every call has returned, none lost, denied or overtaken, the page shows
\* the user whose token it holds, all that user's wallets with every posting,
\* and the history of the selected one, whatever was clicked meanwhile: the
\* effects on token, user and activeWallet have fetched what changed.
THEOREM SettledPageIsCurrent == BrowserSpec => []SettledViewIsCurrent
<1>1. BrowserInit => FormInv /\ PageInv /\ Coming
  <2>1. Init => Coming
    BY DEF Init, Coming
  <2>2. QED
    BY <2>1, BrowserStarts DEF BrowserInit
<1>2. FormInv /\ PageInv /\ Coming /\ [BrowserNext]_browserVars
        => FormInv' /\ PageInv' /\ Coming'
  BY HalvesAreKept, BrowserSteps, ComingStep
<1>3. PageInv /\ Coming => SettledViewIsCurrent
  BY SettledWhenComing
<1>4. QED
  BY <1>1, <1>2, <1>3, PTL DEF BrowserSpec

=============================================================================
