----------------------------- MODULE MCDashboard -----------------------------
(***************************************************************************)
(* Instance of Dashboard for TLC: ann has wallet 1 and may create wallet 2,  *)
(* bob has none; both use the browser.                                     *)
(***************************************************************************)
EXTENDS Dashboard

MCWallets == 1 .. 2
MCOwner == [w \in MCWallets |-> "ann"]
MCExisting == [u \in Users |-> IF u = "ann" THEN <<1>> ELSE <<>>]

=============================================================================
