--------------------------- MODULE MCWebSocketHub ---------------------------
(* Model checking of WebSocketHub on a few connections. *)
EXTENDS WebSocketHub, TLC

\* Connections, which also name subscriptions, are interchangeable.
ConnSymmetry == Permutations(Conns)

=============================================================================
