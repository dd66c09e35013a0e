------------------------------- MODULE Browser -------------------------------
(***************************************************************************)
(* The two halves of the dashboard's page.  Dashboard lets a transfer go to  *)
(* any recipient and TransferForm lets the page do anything to the form, so  *)
(* neither reads what the other writes, and no property speaks of both: a   *)
(* behaviour follows one half, "half", and nothing is lost by not           *)
(* interleaving them.                                                      *)
(***************************************************************************)
EXTENDS Dashboard, TransferForm

VARIABLE half

browserVars == <<vars, formVars, half>>

BrowserInit ==
  /\ Init
  /\ FormInit
  /\ \/ /\ half = "page"   \* the form plays no part: any of its initial states
        /\ api = "django"
        /\ currency = CHOOSE c \in Currencies : TRUE
     \/ half = "form"

OnPage == half = "page" /\ Next /\ UNCHANGED <<formVars, half>>
InForm == half = "form" /\ FormNext /\ UNCHANGED <<vars, half>>

BrowserNext == OnPage \/ InForm

BrowserSpec == BrowserInit /\ [][BrowserNext]_browserVars

-----------------------------------------------------------------------------
(* Properties.                                                             *)

\* Both halves keep their types: the page of a signed-in user shows that
\* user's data, and the form remembers where its wallet id is from.
BrowserTypeOK == TypeOK /\ FormTypeOK

\* A form posts what it shows: from the wallet on whose card it was opened
\* (PostsToOpenedWallet) to the recipient whose email it showed when it was
\* sent (PaysShownRecipient), with the exceptions named there.
PostsWhatItShows == PostsToOpenedWallet /\ PaysShownRecipient

=============================================================================
