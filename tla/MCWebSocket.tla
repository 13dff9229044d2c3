---------------------------- MODULE MCWebSocket ----------------------------
(* Small instances of WebSocket: one or two connections, the ticker and    *)
(* at most one terminate request. The clocks keep the order of the code's  *)
(* 54 seconds between pings, 60 for a pong and 10 for a write.             *)
EXTENDS WebSocket, TLC

CONSTANTS c1, c2, ticker, request

ConnSymmetry == Permutations({c1, c2})

AllPeers == {"ready", "silent", "stalled", "gone"}
Stalled == {"stalled"}
StalledOrGone == {"stalled", "gone"}
SilentOrGone == {"silent", "gone"}

=============================================================================
