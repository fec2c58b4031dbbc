---------------------------- MODULE StreamTransport ----------------------------
(***************************************************************************)
(* One streamed completion, from the provider's socket to the client:      *)
(* sendChatRequestStreaming and ChunkQueue (router/src/transport.ts),      *)
(* SseLineReader (router/src/sse.ts) and serveStream                       *)
(* (server/src/routes/chat.ts).                                            *)
(*                                                                         *)
(* What interleaves is the order of the callbacks: response, data, end and *)
(* error events of the socket, two timers, the close event of the client's *)
(* connection, the grant of a permit and the pulls of the consumer.        *)
(*                                                                         *)
(* The provider's answer is a script of lines; a line is known by its      *)
(* position and its kind.  A read brings some complete lines.  The router  *)
(* between transport and route passes chunks through (ChatRouter has its   *)
(* failover); the stream here is the last attempt it makes.  ProxiedStream *)
(* adds the proxy a stream may be bound to.                                *)
(***************************************************************************)
EXTENDS Integers, Sequences, FiniteSets

CONSTANTS
  Scripts,       \* the answers a provider may give: sequences of Kinds
  MaxMalformed,  \* malformed lines a stream survives (MAX_SSE_MALFORMED)
  MaxLines,      \* lines a stream may hold (the byte caps of both readers)
  Window         \* chunks written ahead of a client that does not read

\* "chunk": parses.  "bad": JSON that parseChatChunk rejects.  "malformed":
\* not a JSON object.  "long": outgrows the line cap.  "done": data: [DONE].
Kinds == {"chunk", "bad", "malformed", "long", "done"}

ASSUME StreamAssumption ==
  /\ Scripts \subseteq Seq(Kinds)
  /\ MaxMalformed \in Nat
  /\ MaxLines \in Nat
  /\ Window \in Nat \ {0}

VARIABLES
  script,     \* the answer of this provider
  pos,        \* lines of it that have reached the process
  malformed,  \* the reader's count of malformed lines
  socket,     \* "none", "asked", "open", "ended" or "destroyed"
  finished,   \* the transport has seen a complete stream
  items,      \* ChunkQueue: positions of the chunks not taken yet
  failed,     \* ChunkQueue: an error is pending
  ended,      \* ChunkQueue: the end is marked
  timers,     \* the timers that are armed
  listening,  \* the abort listener is registered
  permit,     \* the outbound permit is held
  gen,        \* where the transport's generator stands; "thrown": it has
              \* ended in the throw of openRequest, before its try
  reply,      \* what the client has been sent besides chunks
  out,        \* positions of the chunks handed to the response
  unread,     \* chunks handed over that the client has not read
  client      \* "there" or "gone"

vars == <<script, pos, malformed, socket, finished, items, failed, ended,
          timers, listening, permit, gen, reply, out, unread, client>>

queue == <<items, failed, ended>>
upstream == <<script, pos, malformed, finished>>
downstream == <<reply, out, unread, client>>

TypeOK ==
  /\ script \in Scripts
  /\ pos \in 0..Len(script)
  /\ malformed \in 0..MaxMalformed
  /\ socket \in {"none", "asked", "open", "ended", "destroyed"}
  /\ {finished, failed, ended, listening, permit} \subseteq BOOLEAN
  /\ items \in Seq(1..Len(script))
  /\ timers \subseteq {"idle", "total"}
  /\ gen \in {"egress", "acquire", "next", "yield", "returned", "thrown"}
  /\ reply \in {"none", "streaming", "envelope", "error", "done", "cut"}
  /\ out \in Seq(1..Len(script))
  /\ unread \in 0..Window
  /\ client \in {"there", "gone"}

Init ==
  /\ script \in Scripts
  /\ pos = 0
  /\ malformed = 0
  /\ socket = "none"
  /\ finished = FALSE
  /\ items = <<>>
  /\ failed = FALSE
  /\ ended = FALSE
  /\ timers = {}
  /\ listening = FALSE
  /\ permit = FALSE
  /\ gen = "egress"
  /\ reply = "none"
  /\ out = <<>>
  /\ unread = 0
  /\ client = "there"

-----------------------------------------------------------------------------
(* The answers of serveStream                                              *)

\* Before the first chunk a failure is a JSON envelope with a status code;
\* after it, a terminal event in the stream, without [DONE].
Failure == IF reply = "none" THEN "envelope" ELSE "error"

\* Positions in ascending order: the n-th has n - 1 below it.
InOrder(S) ==
  [n \in 1..Cardinality(S) |-> CHOOSE i \in S : Cardinality({j \in S : j < i}) = n - 1]

\* The positions a..b that hold a chunk, in order.
Chunks(a, b) == InOrder({i \in a..b : script[i] = "chunk"})

\* ChunkQueue.fail: the first error counts, and none after the end.
Fail == failed' = (failed \/ ~ended)

\* destroy: both timers cleared, the socket closed.
Destroy ==
  /\ timers' = {}
  /\ socket' = "destroyed"

-----------------------------------------------------------------------------
(* The start of the generator                                              *)

\* The egress check resolves; an aborted signal or a refused address throws.
CheckEgress(allowed) ==
  /\ gen = "egress"
  /\ IF allowed /\ client = "there"
     THEN gen' = "acquire" /\ UNCHANGED reply
     ELSE gen' = "returned" /\ reply' = Failure
  /\ UNCHANGED <<upstream, queue, socket, timers, listening, permit, out,
                 unread, client>>

\* For mutation: the total timer is never armed.
OpenIdleOnly ==
  /\ gen = "acquire"
  /\ permit' = TRUE
  /\ socket' = "asked"
  /\ listening' = (client = "there")
  /\ timers' = {"idle"}
  /\ gen' = "next"
  /\ UNCHANGED <<upstream, queue, downstream>>

\* The semaphore grants: the request is written and both timers are armed.  A
\* client that has left while it waited may be granted a permit all the same;
\* its signal has fired already, and a listener added now never runs.
Open ==
  /\ gen = "acquire"
  /\ permit' = TRUE
  /\ socket' = "asked"
  /\ listening' = (client = "there")
  /\ timers' = {"idle", "total"}
  /\ gen' = "next"
  /\ UNCHANGED <<upstream, queue, downstream>>

\* The semaphore grants and openRequest throws, on a header value that node:http
\* refuses: the try whose finally returns the permit is not reached.
OpenThrows ==
  /\ gen = "acquire"
  /\ permit' = TRUE
  /\ gen' = "thrown"
  /\ reply' = Failure
  /\ UNCHANGED <<upstream, queue, socket, timers, listening, out, unread, client>>

\* The semaphore rejects: its queue is full.
Refused ==
  /\ gen = "acquire"
  /\ client = "there"
  /\ gen' = "returned"
  /\ reply' = Failure
  /\ UNCHANGED <<upstream, queue, socket, timers, listening, permit, out,
                 unread, client>>

-----------------------------------------------------------------------------
(* The socket's events                                                     *)

\* A failing status destroys the socket and leaves the timers armed.
Respond(ok) ==
  /\ socket = "asked"
  /\ IF ok THEN socket' = "open" /\ UNCHANGED failed
           ELSE socket' = "destroyed" /\ Fail
  /\ UNCHANGED <<upstream, items, ended, timers, listening, permit, gen,
                 downstream>>

\* The lines pos+1..pos+k up to and including the first [DONE] among them.
Cut(k) ==
  LET dones == {i \in pos + 1..pos + k : script[i] = "done"}
  IN  IF dones = {} THEN pos + k
      ELSE CHOOSE i \in dones : \A j \in dones : i <= j

LinesOf(kind, last) == {i \in pos + 1..last : script[i] = kind}

\* SseLineReader.push throws on the lines up to last: nothing is returned.
ReaderThrows(last, strikes) ==
  \/ strikes > MaxMalformed
  \/ LinesOf("long", last) # {}

\* How many malformed lines there have been once line last is consumed.
Strikes(last) == malformed + Cardinality(LinesOf("malformed", last))

\* The last line whose chunk is pushed: parseChatChunk throws on a bad one.
PushedTo(last) ==
  LET bad == LinesOf("bad", last)
  IN  IF bad = {} THEN last
      ELSE (CHOOSE i \in bad : \A j \in bad : i <= j) - 1

\* A read over a limit: the queue fails with nothing of this read pushed.
ReadFails ==
  /\ Fail
  /\ Destroy
  /\ UNCHANGED <<malformed, finished, items, ended>>

\* A data event with k complete lines; with none it only restarts the idle
\* timer (a heartbeat, or part of a line).
Data(k) ==
  LET last == Cut(k)
      strikes == Strikes(last)
      upto == PushedTo(last)
  IN  /\ socket = "open"
      /\ pos + k <= Len(script)
      /\ pos' = pos + k
      /\ IF pos + k > MaxLines \/ ReaderThrows(last, strikes)
         THEN ReadFails
         ELSE /\ malformed' = strikes
              /\ items' = items \o Chunks(pos + 1, upto)
              /\ IF upto < last
                 THEN Fail /\ Destroy /\ UNCHANGED <<finished, ended>>
                 ELSE IF k > 0 /\ script[last] = "done"
                 THEN /\ finished' = TRUE
                      /\ ended' = TRUE
                      /\ Destroy
                      /\ UNCHANGED failed
                 ELSE /\ timers' = timers \union {"idle"}
                      /\ UNCHANGED <<finished, failed, ended, socket>>
      /\ UNCHANGED <<script, listening, permit, gen, downstream>>

\* For mutation: the end of the connection counts as the end of the stream.
EndTrusted(t) ==
  /\ socket = "open"
  /\ pos + t <= Len(script)
  /\ pos' = pos + t
  /\ socket' = "ended"
  /\ finished' = TRUE
  /\ ended' = TRUE
  /\ UNCHANGED <<script, malformed, items, failed, timers, listening, permit,
                 gen, downstream>>

\* The end event, with or without a last line that has no newline: only a
\* [DONE] there, or before, completes the stream.
End(t) ==
  LET whole == t = 1 /\ script[pos + 1] = "done"
  IN  /\ socket = "open"
      /\ pos + t <= Len(script)
      /\ pos' = pos + t
      /\ socket' = "ended"
      /\ finished' = whole
      /\ IF whole THEN ended' = TRUE /\ UNCHANGED failed
                  ELSE Fail /\ UNCHANGED ended
      /\ UNCHANGED <<script, malformed, items, timers, listening, permit, gen,
                     downstream>>

\* error or aborted events of the response, error of the request; a destroyed
\* socket reports one as well.
Break ==
  /\ socket \in {"asked", "open", "destroyed"}
  /\ ~finished
  /\ Fail
  /\ socket' = "destroyed"
  /\ UNCHANGED <<upstream, items, ended, timers, listening, permit, gen,
                 downstream>>

\* A timer fires: the queue fails and everything is torn down.
Timeout(t) ==
  /\ t \in timers
  /\ Fail
  /\ Destroy
  /\ UNCHANGED <<upstream, items, ended, listening, permit, gen, downstream>>

-----------------------------------------------------------------------------
(* The consumer                                                            *)

\* For mutation: the finally block returns the permit and nothing else.
FinallyPermitOnly ==
  /\ gen' = "returned"
  /\ listening' = FALSE
  /\ permit' = FALSE
  /\ UNCHANGED <<timers, socket>>

\* The generator's finally block.
Finally ==
  /\ gen' = "returned"
  /\ listening' = FALSE
  /\ Destroy
  /\ permit' = FALSE

\* queue.next resolves with a chunk, and the frame is written; the first one
\* sends the headers, unless the connection is closed by then.
Deliver ==
  /\ gen = "next"
  /\ items # <<>>
  /\ items' = Tail(items)
  /\ out' = Append(out, Head(items))
  /\ unread' = unread + 1
  /\ reply' = IF reply = "none" /\ client = "gone" THEN "cut" ELSE "streaming"
  /\ gen' = "yield"
  /\ UNCHANGED <<upstream, failed, ended, socket, timers, listening, permit,
                 client>>

\* queue.next throws once the chunks are gone.
Raise ==
  /\ gen = "next"
  /\ items = <<>>
  /\ failed
  /\ failed' = FALSE
  /\ ended' = TRUE
  /\ reply' = Failure
  /\ Finally
  /\ UNCHANGED <<upstream, items, out, unread, client>>

\* queue.next reports the end: [DONE] is written.
Complete ==
  /\ gen = "next"
  /\ items = <<>>
  /\ ~failed
  /\ ended
  /\ reply' = "done"
  /\ Finally
  /\ UNCHANGED <<upstream, queue, out, unread, client>>

\* The response stream asks for the next frame while the client has room.
Pull ==
  /\ gen = "yield"
  /\ client = "there"
  /\ unread < Window
  /\ gen' = "next"
  /\ UNCHANGED <<upstream, queue, socket, timers, listening, permit,
                 downstream>>

\* The response stream of a client that has left is destroyed, and returns
\* the iterator where it is suspended.  (Where the client had left before the
\* first chunk the response stream is destroyed before it is read: `frames` has
\* not begun, its finally need not run, and no fairness is assumed.)
Abandon ==
  /\ gen = "yield"
  /\ client = "gone"
  /\ reply' = "cut"
  /\ Finally
  /\ UNCHANGED <<upstream, queue, out, unread, client>>

-----------------------------------------------------------------------------
(* The client                                                              *)

Reads ==
  /\ client = "there"
  /\ unread > 0
  /\ unread' = unread - 1
  /\ UNCHANGED <<upstream, queue, socket, timers, listening, permit, gen,
                 reply, out, client>>

\* The connection closes before the response has ended.  The signal's
\* listeners run at once: the transport's own, or the one a waiting acquire
\* has registered, which finds its waiter or, at a position that shifts have
\* made stale, does nothing for it.
Leaves ==
  /\ client = "there"
  /\ reply \in {"none", "streaming"}
  /\ client' = "gone"
  /\ IF listening
     THEN /\ Fail
          /\ Destroy
          /\ listening' = FALSE
          /\ UNCHANGED <<gen, reply>>
     ELSE /\ \/ gen = "acquire" /\ gen' = "returned" /\ reply' = Failure
             \/ UNCHANGED <<gen, reply>>
          /\ UNCHANGED <<failed, timers, socket, listening>>
  /\ UNCHANGED <<upstream, items, ended, permit, out, unread>>

\* The stream is over and the client has what it gets.
Over ==
  /\ gen \in {"returned", "thrown"}
  /\ UNCHANGED vars

\* Everything but the start of the call and the events that need a connection.
Rest ==
  \/ \E allowed \in BOOLEAN : CheckEgress(allowed)
  \/ OpenThrows
  \/ Refused
  \/ \E k \in 0..MaxLines + 1 : Data(k)
  \/ \E t \in {0, 1} : End(t)
  \/ \E t \in {"idle", "total"} : Timeout(t)
  \/ Deliver
  \/ Raise
  \/ Complete
  \/ Pull
  \/ Abandon
  \/ Reads
  \/ Leaves
  \/ Over

Next == Open \/ (\E ok \in BOOLEAN : Respond(ok)) \/ Break \/ Rest

\* The consumer's continuations always run, and the total timer fires: nothing
\* re-arms it.  The idle timer gets no fairness, for each read restarts it, nor
\* do the provider, the semaphore and the client, which may stop reading.
Fairness ==
  /\ WF_vars(\E allowed \in BOOLEAN : CheckEgress(allowed))
  /\ WF_vars(Deliver \/ Raise \/ Complete \/ Pull \/ (reply = "streaming" /\ Abandon))
  /\ WF_vars(Timeout("total"))

Spec == Init /\ [][Next]_vars /\ Fairness

-----------------------------------------------------------------------------

\* A client that sees [DONE] has every chunk the provider sent before its own
\* [DONE], and the provider did send one: a connection that closes early, a
\* timeout or an abort never ends in a normal termination.
DoneMeansWhole ==
  reply = "done" =>
    \E i \in 1..pos : /\ script[i] = "done"
                      /\ out = Chunks(1, i - 1)

\* What the client has been sent is the beginning of what the provider sent,
\* with no chunk left out, repeated or moved: whatever is lost at a failure is
\* lost at the end.
NoGap == \E n \in 0..Len(script) : out = Chunks(1, n)

\* The request's socket, the timers and the listener on the signal exist under
\* the permit only, and the permit is held from its grant to the end of the
\* generator and no longer, but where openRequest throws: then it stays out for
\* good (transport.ts:387; ChatRouter).  The dial of a proxy is another matter: it
\* may outlive the permit (ProxiedStream, PermitCoversDial).
PermitBracketsCall ==
  /\ ~permit => /\ socket \in {"none", "destroyed"}
                /\ timers = {}
                /\ ~listening
  /\ permit <=> gen \in {"next", "yield", "thrown"}

\* A client that stays gets every chunk that entered the queue before it gets
\* the verdict: an error, a timeout or an end does not overtake the content.
QueuedIsDelivered == gen = "returned" /\ client = "there" => items = <<>>

\* The content reaches the client whole, in order and before the verdict,
\* whatever arrives, fails, times out or is aborted while it is queued
\* (transport.ts ChunkQueue; chat.ts serveStream).
DeliveredInOrder == DoneMeansWhole /\ NoGap /\ QueuedIsDelivered

Started == gen \in {"next", "yield"}
Released == gen = "returned" /\ ~permit
UpstreamClosed == socket = "destroyed" /\ timers = {}

\* The generator waits at its yield for a client that does not read.
Stalled == gen = "yield" /\ client = "there" /\ unread = Window

\* The client had left before the first chunk (see Abandon).
NeverRead == gen = "yield" /\ client = "gone" /\ reply = "cut"

\* The upstream call of a started stream is closed, by the total timer if by
\* nothing else, whatever the provider sends or withholds and whether or not the
\* client reads.  The stream itself ends and returns its permit, unless its
\* client neither reads nor leaves, which holds the permit for as long as it
\* likes.  One whose client leaves is released, and the exception is a client
\* that left the semaphore's queue, was served from it all the same, and got a
\* first chunk.  (How long that queue lasts is not said: SemaphoreLostPermit.)
StreamEnds ==
  /\ Started ~> UpstreamClosed
  /\ Started ~> Released \/ Stalled \/ NeverRead
  /\ client = "gone" /\ gen \in {"egress", "next", "yield"} ~> Released \/ NeverRead

\* Documented: a consumer sees the content that genuinely arrived before the
\* failure.  Every complete line that holds a chunk and came before the last
\* line to arrive is with the client that gets the error event.
ArrivedIsDelivered ==
  reply = "error" /\ client = "there" /\ pos <= MaxLines =>
    \A i \in 1..pos - 1 :
      (\A j \in 1..i : script[j] = "chunk") => \E n \in 1..Len(out) : out[n] = i
=============================================================================
