------------------------------ MODULE MCBrowser ------------------------------
(***************************************************************************)
(* Instance of Browser for TLC.  The page is that of MCDashboard.  Of the    *)
(* contacts, eve has a wallet in NGN and steve in both currencies; the      *)
(* search for eve's email finds both, since steve's contains it.            *)
(***************************************************************************)
EXTENDS Browser

MCWallets == 1 .. 2
MCOwner == [w \in MCWallets |-> "ann"]
MCExisting == [u \in Users |-> IF u = "ann" THEN <<1>> ELSE <<>>]

MCFinds == [t \in Texts |-> CASE t = "steve@x" -> {"steve@x"}
                             [] t \in Short -> {}
                             [] OTHER -> Contacts]
MCHolds == [c \in Contacts |-> IF c = "eve@x" THEN {"NGN"} ELSE {"NGN", "USD"}]

\* After the first posting a page is followed up to its first disturbance, and
\* the form until its transfer has ended.
DisturbedEarly == calm \/ posted = <<>>
UntilEnded == \A i \in DOMAIN transfers : transfers[i].status # "ended"
Followed == DisturbedEarly /\ UntilEnded

=============================================================================
