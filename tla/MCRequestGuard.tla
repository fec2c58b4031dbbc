---------------------------- MODULE MCRequestGuard ----------------------------
EXTENDS RequestGuard, TLC

CONSTANTS c1, c2, near, far

MCPeerOf == c1 :> far @@ c2 :> near
=============================================================================
