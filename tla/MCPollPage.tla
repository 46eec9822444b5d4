----------------------------- MODULE MCPollPage -----------------------------
(***************************************************************************)
(* The poll page with one bridge for each poll that has a page.             *)
(***************************************************************************)
EXTENDS PollPage, TLC

CONSTANTS p1, p2, b1, b2

OneBridge  == b1 :> p1
BridgeEach == b1 :> p1 @@ b2 :> p2

=============================================================================
