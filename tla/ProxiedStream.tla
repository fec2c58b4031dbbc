----------------------------- MODULE ProxiedStream -----------------------------
(***************************************************************************)
(* A streamed completion (StreamTransport) whose connection is opened      *)
(* directly or through a proxy (ProxyDial): the request asks its agent for *)
(* a socket, and the agent answers by its callback.  Nothing of the        *)
(* request reaches the dial: to destroy the request, or the agent, does    *)
(* not stop a dial that is under way (node:http keeps no handle on it).    *)
(***************************************************************************)
EXTENDS StreamTransport

CONSTANTS
  Proxies, MaxHeader, Patience, Spare, Unknown,  \* of ProxyDial
  ProxiedScripts  \* bound of the model: the answers tried through a proxy

VARIABLES dial, proxy, conn, arrived, buffered, reads, left, elapsed, spare

Dial == INSTANCE ProxyDial

ASSUME ProxiedAssumption == ProxiedScripts \subseteq Scripts /\ Dial!Parameters

dialVars == <<dial, proxy, conn, arrived, buffered, reads, left, elapsed, spare>>
allVars == <<vars, dialVars>>

ProxiedInit == Init /\ Dial!Init

\* The destruction of the request takes the tunnel with it.
TunnelFollows ==
  IF dial = "tunnel" /\ socket' = "destroyed"
  THEN Dial!Close
  ELSE UNCHANGED dialVars

\* The request is made with an agent, or without one.
OpenThrough ==
  /\ Open
  /\ \/ UNCHANGED dialVars
     \/ /\ script \in ProxiedScripts
        /\ \E toSelf \in BOOLEAN : Dial!Begin(toSelf)

\* The provider is heard of once the tunnel stands.
RespondThrough(ok) ==
  /\ dial \in {"none", "tunnel"}
  /\ Respond(ok)
  /\ TunnelFollows

\* A dial under way has not failed yet; one that fails is an error of the request.
BreakThrough ==
  /\ socket = "asked" => ~Dial!Active
  /\ Break
  /\ TunnelFollows

\* The dial goes on by itself.
DialProceeds ==
  /\ Dial!Proceed(socket = "asked")
  /\ UNCHANGED vars

ProxiedNext ==
  \/ OpenThrough
  \/ \E ok \in BOOLEAN : RespondThrough(ok)
  \/ BreakThrough
  \/ Rest /\ TunnelFollows
  \/ DialProceeds

ProxiedSpec == ProxiedInit /\ [][ProxiedNext]_allVars /\ Fairness

-----------------------------------------------------------------------------

\* A tunnel starts at its first byte (ProxyDial).
TunnelIsClean == Dial!TunnelIsClean

\* A dial is over in time and leaves no socket behind (ProxyDial).
DialIsBounded == Dial!DialIsBounded

\* "A stream holds its socket for as long as the consumer keeps reading, so the
\* permit is held for the whole generator" (transport.ts:354): no socket of an
\* outbound call exists without its permit.
PermitCoversDial == conn = "open" => permit
=============================================================================
