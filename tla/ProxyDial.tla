------------------------------- MODULE ProxyDial -------------------------------
(***************************************************************************)
(* One dial through a proxy, for an HTTP agent that needs a connection:    *)
(* dialThroughProxy and createProxyAgent (proxy/src/dial.ts), the two      *)
(* dialogues socks5Connect and httpConnect, and HandshakeReader.           *)
(*                                                                         *)
(* Bytes are counted, not kept: the proxy answers in pieces of any size,   *)
(* and what matters is where each read of a dialogue ends and which byte   *)
(* is the first of the tunnel.  Between two events of the socket the       *)
(* dialogue runs on through everything that has arrived (no await of it    *)
(* waits for anything else), so an event and the reads it satisfies are    *)
(* one step.                                                               *)
(***************************************************************************)
EXTENDS Integers, Sequences

CONSTANTS
  Proxies,      \* what a proxy may answer
  MaxHeader,    \* bytes of a CONNECT reply (MAX_HEADER_BYTES)
  Patience,     \* ticks of connectTimeoutMs
  Spare,        \* bytes that may follow an answer at once
  Unknown       \* the answer of a proxy that has not been dialled

\* The answer of a SOCKS5 proxy to a client that offers a password or not, and
\* of an HTTP proxy.
Socks5Answer ==
  [kind : {"socks5"}, password : BOOLEAN, method : {"none", "userpass", "other"},
   accepts : BOOLEAN, grants : BOOLEAN,
   address : {"v4", "v6", "domain", "other"}, domain : 0..255]
HttpAnswer == [kind : {"http"}, header : Nat, grants : BOOLEAN]

\* What the constants must be (assumed where this module is instantiated).
Parameters ==
  /\ \A p \in Proxies : \/ p.kind = "socks5" /\ p \in Socks5Answer
                        \/ p.kind = "http" /\ p \in HttpAnswer /\ p.header >= 4
  /\ MaxHeader \in Nat
  /\ Patience \in Nat \ {0}
  /\ Spare \in Nat

VARIABLES
  dial,      \* "none", "connecting", "talking", "tunnel", "failed", "closed"
  proxy,     \* the answer of this proxy
  conn,      \* the socket to the proxy: "none", "open" or "destroyed"
  arrived,   \* bytes the proxy has sent
  buffered,  \* bytes the reader holds
  reads,     \* reads of the dialogue that are done
  left,      \* ticks to the deadline in force
  elapsed,   \* ticks since the dial began
  spare      \* bytes given back to the socket for its next reader

dialVars == <<dial, proxy, conn, arrived, buffered, reads, left, elapsed, spare>>

Active == dial \in {"connecting", "talking"}

\* The types.
TypeOK ==
  /\ dial \in {"none", "connecting", "talking", "tunnel", "failed", "closed"}
  /\ proxy \in Proxies \union {Unknown}
  /\ conn \in {"none", "open", "destroyed"}
  /\ {arrived, buffered, reads, elapsed, spare} \subseteq Nat
  /\ left \in 0..Patience

Init ==
  /\ dial = "none"
  /\ proxy = Unknown
  /\ conn = "none"
  /\ arrived = 0
  /\ buffered = 0
  /\ reads = 0
  /\ left = 0
  /\ elapsed = 0
  /\ spare = 0

-----------------------------------------------------------------------------
(* The dialogues, as the reads they make                                   *)

\* A read up to this byte of the answer, after which the dialogue goes on or
\* throws.
Read(upto, goes) == [upto |-> upto, goes |-> goes]

\* For mutation: the port after a domain name is left unread.
AddressWithoutPort(p, at) ==
  CASE p.address = "v4" -> <<Read(at + 4 + 2, TRUE)>>
    [] p.address = "v6" -> <<Read(at + 16 + 2, TRUE)>>
    [] p.address = "domain" ->
         <<Read(at + 1, TRUE), Read(at + 1 + p.domain, TRUE)>>
    [] OTHER -> <<>>

\* The bound address, behind the first bytes of the reply: its length depends on
\* its type, and for a domain name on the byte before it.
Address(p, at) ==
  CASE p.address = "v4" -> <<Read(at + 4 + 2, TRUE)>>
    [] p.address = "v6" -> <<Read(at + 16 + 2, TRUE)>>
    [] p.address = "domain" ->
         <<Read(at + 1, TRUE), Read(at + 1 + p.domain + 2, TRUE)>>
    [] OTHER -> <<>>

\* A method that was not offered is refused.
Socks5Reads(p) ==
  LET chosen == Read(2, p.method = "none" \/ (p.method = "userpass" /\ p.password))
      reply(at) == Read(at, p.grants /\ p.address # "other")
  IN  IF p.method = "userpass"
      THEN <<chosen, Read(2 + 2, p.accepts), reply(4 + 4)>> \o Address(p, 8)
      ELSE <<chosen, reply(2 + 4)>> \o Address(p, 6)

\* The reply to CONNECT is read byte by byte; the size of a block is looked at
\* after its end, so one byte more than the cap may still be the last.
ConnectReads(p) ==
  [i \in 1..(IF p.header > MaxHeader THEN MaxHeader + 1 ELSE p.header) |->
     Read(i, IF i = p.header THEN p.grants ELSE i <= MaxHeader)]

Dialogue == IF proxy.kind = "socks5" THEN Socks5Reads(proxy) ELSE ConnectReads(proxy)

\* Where read i of the dialogue ends, and the bytes of reads a+1..b.
ReadTo(i) == IF i = 0 THEN 0 ELSE Dialogue[i].upto
Length(a, b) == ReadTo(b) - ReadTo(a)

\* With n bytes at hand the dialogue gets to this read: it stops where they do
\* not suffice, and at one that throws.
Reached(n) ==
  CHOOSE i \in reads..Len(Dialogue) :
    /\ Length(reads, i) <= n
    /\ \A j \in reads + 1..i - 1 : Dialogue[j].goes
    /\ \/ i = Len(Dialogue)
       \/ i > reads /\ ~Dialogue[i].goes
       \/ Length(reads, i + 1) > n

-----------------------------------------------------------------------------
(* The dial                                                                *)

\* What is over is forgotten.
Forget ==
  /\ buffered' = 0
  /\ reads' = 0
  /\ left' = 0
  /\ elapsed' = 0

\* Every failure destroys the socket before it is thrown.
Fail ==
  /\ dial' = "failed"
  /\ conn' = "destroyed"
  /\ Forget
  /\ UNCHANGED <<proxy, arrived, spare>>

\* The agent asks for a connection, through some proxy: a target that is this
\* server itself is refused before a socket exists.
Begin(toSelf) ==
  /\ dial = "none"
  /\ IF toSelf
     THEN dial' = "failed" /\ UNCHANGED <<proxy, conn, left>>
     ELSE /\ dial' = "connecting" /\ conn' = "open" /\ left' = Patience
          /\ proxy' \in Proxies
  /\ UNCHANGED <<arrived, buffered, reads, elapsed, spare>>

\* The connection stands: the first request is written, and a new deadline is
\* set for the whole dialogue.
Connected ==
  /\ dial = "connecting"
  /\ dial' = "talking"
  /\ left' = Patience
  /\ UNCHANGED <<proxy, conn, arrived, buffered, reads, elapsed, spare>>

\* The reader gives the rest back (unshift, taken to reach the next reader of the
\* socket), and the agent hands the socket to its request; it destroys that of a
\* request that is destroyed already.
HandOver(rest, wanted) ==
  /\ dial' = IF wanted THEN "tunnel" ELSE "closed"
  /\ conn' = IF wanted THEN "open" ELSE "destroyed"
  /\ spare' = rest
  /\ Forget

\* For mutation: a wake of the reader starts its deadline anew.
DataRenewing(k, wanted) ==
  LET n == Reached(buffered + k)
      rest == buffered + k - Length(reads, n)
  IN  /\ dial = "talking"
      /\ arrived + k <= Length(0, Len(Dialogue)) + Spare
      /\ IF n > reads /\ ~Dialogue[n].goes
         THEN /\ dial' = "failed" /\ conn' = "destroyed" /\ Forget
              /\ UNCHANGED spare
         ELSE IF n = Len(Dialogue) THEN HandOver(rest, wanted)
         ELSE /\ buffered' = rest /\ reads' = n
              /\ left' = Patience
              /\ UNCHANGED <<dial, conn, elapsed, spare>>
      /\ arrived' = arrived + k
      /\ UNCHANGED proxy

\* k bytes arrive and wake the reader.  Bytes that suffice are taken even past
\* the deadline, which is looked at only to wait again.
Data(k, wanted) ==
  LET n == Reached(buffered + k)
      rest == buffered + k - Length(reads, n)
      throws == n > reads /\ ~Dialogue[n].goes
      whole == n = Len(Dialogue) /\ ~throws
  IN  /\ dial = "talking"
      /\ arrived + k <= Length(0, Len(Dialogue)) + Spare
      /\ \/ /\ whole
            /\ HandOver(rest, wanted)
         \/ /\ throws \/ (~whole /\ left = 0)
            /\ dial' = "failed" /\ conn' = "destroyed" /\ Forget
            /\ UNCHANGED spare
         \/ /\ ~throws /\ ~whole /\ left > 0
            /\ buffered' = rest /\ reads' = n
            /\ UNCHANGED <<dial, conn, left, elapsed, spare>>
      /\ arrived' = arrived + k
      /\ UNCHANGED proxy

\* The connection is refused or breaks, or the proxy closes it half way.
Broken == Active /\ Fail

\* A deadline is over: the timer of the connect, or that of the read that waits.
Expire == Active /\ left = 0 /\ Fail

\* Timers are taken to fire in time.
Tick ==
  /\ Active /\ left > 0
  /\ left' = left - 1
  /\ elapsed' = elapsed + 1
  /\ UNCHANGED <<dial, proxy, conn, arrived, buffered, reads, spare>>

\* The request destroys the tunnel it was given.
Close ==
  /\ dial' = "closed"
  /\ conn' = "destroyed"
  /\ UNCHANGED <<proxy, arrived, buffered, reads, left, elapsed, spare>>

\* What happens to a dial by itself, for a request that still wants it or not.
Proceed(wanted) ==
  \/ Connected
  \/ /\ dial = "talking"
     /\ \E k \in 1..Length(0, Len(Dialogue)) + Spare : Data(k, wanted)
  \/ Broken
  \/ Expire
  \/ Tick

-----------------------------------------------------------------------------

\* The length of a whole answer, from the formats of RFC 1928 and of HTTP.
AnswerLength(p) ==
  IF p.kind = "http" THEN p.header
  ELSE 2 + (IF p.method = "userpass" THEN 2 ELSE 0) + 4
       + CASE p.address = "v4" -> 6
           [] p.address = "v6" -> 18
           [] p.address = "domain" -> 3 + p.domain

\* The proxy agreed at every stage.
Agreed(p) ==
  /\ p.grants
  /\ p.kind = "socks5" => /\ p.method # "other"
                          /\ p.method = "userpass" => p.password /\ p.accepts
                          /\ p.address # "other"

\* A tunnel starts at its first byte: however the answer of the proxy was cut
\* into pieces or joined with what follows, the next reader of the socket gets
\* what came after the answer, no byte more or less; and a proxy that refused
\* at any stage gives no tunnel (socks5.ts, http-connect.ts, release).
TunnelIsClean ==
  dial = "tunnel" => /\ Agreed(proxy)
                     /\ spare = arrived - AnswerLength(proxy)

\* A dial is over after two deadlines, whatever its proxy sends and however
\* slowly, and one that failed, or came too late for its request, leaves no
\* socket behind.
DialIsBounded ==
  /\ Active => elapsed <= 2 * Patience
  /\ conn = "open" => dial \in {"connecting", "talking", "tunnel"}
=============================================================================
