---------------------------- MODULE TransferForm ----------------------------
(***************************************************************************)
(* The Send Money form of App.jsx: the search box for the recipient's email *)
(* with its debounced lookups and suggestions, and the id of the wallet the  *)
(* form will pay to, which a suggestion fills in or the user pastes.  Of the *)
(* page around it the form sees the active wallet, which it pays from and    *)
(* which the page may replace under it, and when it is opened and closed:    *)
(* here both happen at any moment.                                         *)
(***************************************************************************)
EXTENDS Naturals, SequencesExt

CONSTANTS
  Contacts,     \* the other users, by their emails
  Texts,        \* what the search box may hold: "", emails, parts of them
  Short,        \* texts of at most two characters, which are not looked up
  Finds,        \* the contacts whose email contains a text
  Currencies,
  Holds,        \* the currencies of each contact's wallets
  NoId,         \* an empty wallet id field
  MaxLookups,   \* bound: lookups in flight
  MaxTransfers  \* bound: transfers submitted

WalletIds == [owner : Contacts, currency : Currencies]

ASSUME FormAssumption ==
  /\ Contacts \subseteq Texts \ Short /\ "" \in Short /\ Short \subseteq Texts
  /\ Finds \in [Texts -> SUBSET Contacts]
  /\ \A c \in Contacts : c \in Finds[c]
  /\ Holds \in [Contacts -> SUBSET Currencies]
  /\ NoId \notin WalletIds
  /\ {MaxLookups, MaxTransfers} \subseteq Nat

VARIABLES
  api,          \* the stack that answers
  currency,     \* of activeWallet
  open,         \* modalType = "transfer"
  email,        \* recipientEmail
  walletId,     \* recipientWalletId
  suggestions,  \* the contacts offered
  due,          \* the debounce timer runs
  lookups,      \* queries in flight
  transfers,    \* transfers submitted, with their status
  origin        \* where walletId comes from: "none", "picked", "pasted", or
                \* "kept" under a recipient with no wallet to pay to

fieldVars == <<open, email, walletId, suggestions, due, origin>>
formVars == <<api, currency, fieldVars, lookups, transfers>>

Transfer == [email : Texts, to : WalletIds, origin : {"picked", "pasted", "kept"},
             currency : Currencies, status : {"sent", "posted", "ended"}]

FormTypeOK ==
  /\ email \in Texts /\ walletId \in WalletIds \cup {NoId}
  /\ walletId = NoId <=> origin = "none"
  /\ suggestions \subseteq Contacts
  /\ due => email \notin Short
  /\ lookups \in Seq(Texts \ Short) /\ Len(lookups) <= MaxLookups
  /\ transfers \in Seq(Transfer) /\ Len(transfers) <= MaxTransfers

FormInit ==
  /\ api \in {"django", "dotnet"}
  /\ currency \in Currencies
  /\ open = FALSE
  /\ email = "" /\ walletId = NoId /\ origin = "none"
  /\ suggestions = {} /\ due = FALSE
  /\ lookups = <<>>
  /\ transfers = <<>>

\* resetForm
ResetForm ==
  /\ email' = "" /\ walletId' = NoId /\ origin' = "none"
  /\ suggestions' = {} /\ due' = FALSE

-----------------------------------------------------------------------------
(* The page around the form.                                                *)

\* Send Money on a wallet card; a list of wallets that arrives; the x of the
\* modal.  The fields stay as they are, also under the next form.
OpenForm(c) ==
  /\ ~open
  /\ open' = TRUE
  /\ currency' = c
  /\ UNCHANGED <<api, email, walletId, suggestions, due, origin, lookups, transfers>>

SwitchWallet(c) ==
  /\ c # currency
  /\ currency' = c
  /\ UNCHANGED <<api, fieldVars, lookups, transfers>>

CloseForm ==
  /\ open
  /\ open' = FALSE
  /\ UNCHANGED <<api, currency, email, walletId, suggestions, due, origin,
                 lookups, transfers>>

\* The 201 of a deposit or a withdrawal that was submitted before.
OtherFormEnds ==
  /\ open' = FALSE
  /\ ResetForm
  /\ UNCHANGED <<api, currency, lookups, transfers>>

\* Replies of a page that was left go nowhere; what was sent may still post.
ReloadPage ==
  /\ open' = FALSE
  /\ ResetForm
  /\ lookups' = <<>>
  /\ transfers' = [i \in DOMAIN transfers |->
                     IF transfers[i].status = "posted"
                     THEN [transfers[i] EXCEPT !.status = "ended"]
                     ELSE transfers[i]]
  /\ UNCHANGED <<api, currency>>

-----------------------------------------------------------------------------
(* The search box.                                                         *)

\* Typing empties the wallet id.  The effect on recipientEmail starts the timer
\* anew, or drops it and the suggestions when too little is left.
TypeEmailKeepingWallet(t) ==
  /\ open /\ t # email
  /\ email' = t
  /\ due' = (t \notin Short)
  /\ suggestions' = IF t \in Short THEN {} ELSE suggestions
  /\ UNCHANGED <<api, currency, open, walletId, origin, lookups, transfers>>
TypeEmail(t) ==
  /\ open /\ t # email
  /\ email' = t
  /\ walletId' = NoId /\ origin' = "none"
  /\ due' = (t \notin Short)
  /\ suggestions' = IF t \in Short THEN {} ELSE suggestions
  /\ UNCHANGED <<api, currency, open, lookups, transfers>>

LookUp ==
  /\ due
  /\ due' = FALSE
  /\ Len(lookups) < MaxLookups
  /\ lookups' = Append(lookups, email)
  /\ UNCHANGED <<api, currency, open, email, walletId, suggestions, origin, transfers>>

\* Whatever the box holds by then, the answer to an older query included.
Suggest(i) ==
  /\ i \in DOMAIN lookups
  /\ suggestions' = Finds[lookups[i]]
  /\ lookups' = RemoveAt(lookups, i)
  /\ UNCHANGED <<api, currency, open, email, walletId, due, origin, transfers>>

LookUpFails(i) ==
  /\ i \in DOMAIN lookups
  /\ lookups' = RemoveAt(lookups, i)
  /\ UNCHANGED <<api, currency, fieldVars, transfers>>

\* The .NET API lists users without their wallets.
ListedCurrencies(c) == IF api = "django" THEN Holds[c] ELSE {}

\* handleSelectRecipientUser.  Without a match there is only a toast: the
\* wallet id of an earlier choice stays.
PickRecipient(c) ==
  /\ open /\ c \in suggestions
  /\ email' = c
  /\ suggestions' = {}
  /\ due' = (due \/ c # email)
  /\ \/ /\ currency \in ListedCurrencies(c)
        /\ walletId' = [owner |-> c, currency |-> currency]
        /\ origin' = "picked"
     \/ /\ currency \notin ListedCurrencies(c)
        /\ walletId' = walletId
        /\ origin' = IF walletId = NoId THEN "none" ELSE "kept"
  /\ UNCHANGED <<api, currency, open, lookups, transfers>>

PasteWallet(id) ==
  /\ open
  /\ walletId' = id
  /\ origin' = IF id = NoId THEN "none" ELSE "pasted"
  /\ UNCHANGED <<api, currency, open, email, suggestions, due, lookups, transfers>>

-----------------------------------------------------------------------------
(* Sending.                                                                *)

\* handleTransfer; both fields are required.
SendTransfer ==
  /\ open
  /\ email # "" /\ walletId # NoId
  /\ Len(transfers) < MaxTransfers
  /\ transfers' = Append(transfers,
                    [email |-> email, to |-> walletId, origin |-> origin,
                     currency |-> currency, status |-> "sent"])
  /\ UNCHANGED <<api, currency, fieldVars, lookups>>

SetStatus(i, from, to) ==
  /\ i \in DOMAIN transfers
  /\ transfers[i].status = from
  /\ transfers' = [transfers EXCEPT ![i].status = to]

\* The API posts between wallets of one currency only.
PostTransfer(i) ==
  /\ SetStatus(i, "sent", "posted")
  /\ transfers[i].to.currency = transfers[i].currency
  /\ UNCHANGED <<api, currency, fieldVars, lookups>>

\* The 201 arrives: whichever form is open is closed, and the fields are reset.
EndTransfer(i) ==
  /\ SetStatus(i, "posted", "ended")
  /\ open' = FALSE
  /\ ResetForm
  /\ UNCHANGED <<api, currency, lookups>>

\* The posting is refused, the call or its reply is lost, or what was posted is
\* answered with an error: a toast.
DropTransfer(i) ==
  /\ i \in DOMAIN transfers
  /\ \/ transfers[i].status = "sent" /\ transfers' = RemoveAt(transfers, i)
     \/ SetStatus(i, "posted", "ended")
  /\ UNCHANGED <<api, currency, fieldVars, lookups>>

FormNext ==
  \/ \E c \in Currencies : OpenForm(c) \/ SwitchWallet(c)
  \/ CloseForm \/ OtherFormEnds \/ ReloadPage
  \/ \E t \in Texts : TypeEmail(t)
  \/ LookUp
  \/ \E i \in 1 .. MaxLookups : Suggest(i) \/ LookUpFails(i)
  \/ \E c \in Contacts : PickRecipient(c)
  \/ \E id \in WalletIds \cup {NoId} : PasteWallet(id)
  \/ SendTransfer
  \/ \E i \in 1 .. MaxTransfers : PostTransfer(i) \/ EndTransfer(i) \/ DropTransfer(i)

-----------------------------------------------------------------------------
(* Properties.                                                             *)

\* Money goes to the recipient whose email the form showed when it was sent,
\* however late suggestions arrive and whatever wallet, form or earlier
\* transfer lies between choosing and sending - unless the user pasted the
\* wallet id, or the form kept the id of an earlier choice because the
\* recipient shown had no wallet to pay to.
PaysShownRecipient ==
  \A i \in DOMAIN transfers :
    (transfers[i].status # "sent" /\ transfers[i].origin = "picked")
      => transfers[i].to.owner = transfers[i].email

=============================================================================
