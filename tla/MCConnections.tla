----------------------------- MODULE MCConnections -----------------------------
(* Instances of Connections for TLC: two people, and who sits behind which    *)
(* connection.                                                                *)
EXTENDS Connections, TLC

CONSTANTS u1, u2, c1, c2, c3

\* Every user acts through one connection.
OneEach == c1 :> u1 @@ c2 :> u2

\* u2 acts through two connections: two tabs, or a socket and an HTTP request.
TwoDevices == c1 :> u1 @@ c2 :> u2 @@ c3 :> u2

================================================================================
