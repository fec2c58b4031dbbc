--------------------------- MODULE MCStreamTransport ---------------------------
(***************************************************************************)
(* Instances of ProxiedStream.                                             *)
(***************************************************************************)
EXTENDS ProxiedStream

\* Every answer of up to four lines, and one that outgrows the cap.
MCScripts ==
  UNION {[1..n -> Kinds] : n \in 0..4}
    \union {<<"chunk", "chunk", "chunk", "chunk", "done">>}

\* Through a proxy: one answer.
MCProxiedScripts == {<<"chunk", "done">>}

Socks5(password, method, accepts, grants, address, domain) ==
  [kind |-> "socks5", password |-> password, method |-> method,
   accepts |-> accepts, grants |-> grants, address |-> address, domain |-> domain]

Http(header, grants) == [kind |-> "http", header |-> header, grants |-> grants]

\* Each format of a granted answer, each stage at which a proxy refuses, and
\* the replies to CONNECT around the cap.
MCProxies ==
  {Socks5(TRUE, "userpass", TRUE, TRUE, "domain", 2),
   Socks5(FALSE, "none", TRUE, TRUE, "domain", 0),
   Socks5(FALSE, "none", TRUE, TRUE, "v4", 0),
   Socks5(TRUE, "none", TRUE, TRUE, "v6", 0),
   Socks5(FALSE, "userpass", TRUE, TRUE, "v4", 0),
   Socks5(TRUE, "userpass", FALSE, TRUE, "v4", 0),
   Socks5(TRUE, "other", TRUE, TRUE, "v4", 0),
   Socks5(FALSE, "none", TRUE, FALSE, "v4", 0),
   Socks5(FALSE, "none", TRUE, TRUE, "other", 0),
   Http(5, TRUE), Http(5, FALSE), Http(6, TRUE), Http(7, TRUE)}
=============================================================================
