----------------------------- MODULE MCSessions -----------------------------
(* Sessions for TLC: a user who starts a round of either kind or a cleanup,   *)
(* the two scripts, and one service, the proxy's.                             *)
EXTENDS Sessions

MCPorts == <<Proxy>>
=============================================================================
