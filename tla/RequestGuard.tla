------------------------------ MODULE RequestGuard ------------------------------
(***************************************************************************)
(* What stands between a connection and a chat handler: the rate limiter   *)
(* and the in-flight cap (server/src/auth.ts), the signature check with    *)
(* its nonce cache (server/src/signing.ts), and the tool loop the handler  *)
(* runs (server/src/tool-loop.ts, capability/src/dispatch.ts).             *)
(*                                                                         *)
(* onRequest runs when the headers are in, preValidation when the body is, *)
(* which may be any time later; the handler awaits the provider between.   *)
(* A client may vanish at any of these points.  The deployment modelled    *)
(* requires signatures.  Time counts in ticks.                             *)
(***************************************************************************)
EXTENDS Integers, Sequences, FiniteSets

CONSTANTS
  Conns,        \* connections, each carrying one request at a time
  Peers,        \* addresses
  Local,        \* the loopback address, one of them
  PeerOf,       \* connection -> its address
  RateMax,          \* requests of one address in one window
  AuthMax,      \* failed authentications of one address in one window
  RateWindow,   \* length of a window
  MapMax,       \* counters kept before the expired ones are dropped
  Concurrency,  \* requests served at one time
  Skew,         \* how far a timestamp may be from the clock, either way
  Offsets,      \* how far the clients' clocks are ahead of the server's
  NonceMax,     \* nonces remembered
  MaxTurns,     \* provider turns of one tool loop
  Horizon,      \* bound of the model: ticks the clock may reach
  MaxSigned     \* bound of the model: messages that are signed

\* How many rate windows the span in which a message is fresh can touch.
WindowsPerMessage == 1 + (2 * Skew + RateWindow - 1) \div RateWindow

\* The cache outlives a message if it holds what all addresses may sign while
\* the message is fresh, and what was admitted before but verified meanwhile.
ASSUME GuardAssumption ==
  /\ IsFiniteSet(Conns) /\ IsFiniteSet(Peers)
  /\ Local \in Peers
  /\ PeerOf \in [Conns -> Peers]
  /\ {RateMax, AuthMax, RateWindow, Concurrency, MaxTurns} \subseteq Nat \ {0}
  /\ {MapMax, Skew, NonceMax, Horizon, MaxSigned} \subseteq Nat
  /\ Offsets \subseteq Nat
  /\ NonceMax >= Cardinality(Peers) * RateMax * WindowsPerMessage + Concurrency - 1

VARIABLES
  now,       \* the clock
  counters,  \* address -> its window; an address without one is absent
  inFlight,  \* slots taken, as the guard counts them
  holders,   \* connections whose request holds a slot
  stage,     \* connection -> where its request stands
  gone,      \* connections whose client has vanished
  stamp,     \* the timestamps of the messages signed so far
  seen,      \* the nonce cache, oldest first: places in stamp
  turns,     \* connection -> provider turns of its tool loop
  batches,   \* connection -> batches of tool calls it has dispatched
  verified,  \* history: message -> times its signature has been accepted
  admitted   \* history: address -> when its requests were let past the rate
             \* limiter, in that order

vars == <<now, counters, inFlight, holders, stage, gone, stamp, seen, turns,
          batches, verified, admitted>>

admission == <<counters, inFlight, holders, admitted>>
signing == <<stamp, seen, verified>>
handling == <<turns, batches>>

Ticks == 0..Horizon

TypeOK ==
  /\ now \in Ticks
  /\ DOMAIN counters \subseteq Peers
  /\ \A p \in DOMAIN counters :
       counters[p] \in [start : Ticks, total : 0..RateMax, failures : 0..AuthMax]
  /\ inFlight \in 0..Concurrency
  /\ holders \subseteq Conns
  /\ stage \in [Conns -> {"free", "body", "run", "tools", "answered"}]
  /\ gone \subseteq Conns
  /\ stamp \in Seq(Nat) /\ Len(stamp) <= MaxSigned
  /\ seen \in Seq(1..Len(stamp)) /\ Len(seen) <= NonceMax
  /\ turns \in [Conns -> 0..MaxTurns]
  /\ batches \in [Conns -> 0..MaxTurns]
  /\ verified \in [1..Len(stamp) -> Nat]
  /\ admitted \in [Peers -> Seq(Ticks)]

Init ==
  /\ now = 0
  /\ counters = [p \in {} |-> 0]
  /\ inFlight = 0
  /\ holders = {}
  /\ stage = [c \in Conns |-> "free"]
  /\ gone = {}
  /\ stamp = <<>>
  /\ seen = <<>>
  /\ turns = [c \in Conns |-> 0]
  /\ batches = [c \in Conns |-> 0]
  /\ verified = <<>>
  /\ admitted = [p \in Peers |-> <<>>]

-----------------------------------------------------------------------------
(* The in-flight cap                                                       *)

\* For mutation: the slot is given back without asking who holds one.
ReleaseUnchecked(c) ==
  /\ holders' = holders \ {c}
  /\ inFlight' = IF inFlight > 0 THEN inFlight - 1 ELSE 0

\* The release of both hooks: only a holder gives a slot back.
Release(c) ==
  /\ holders' = holders \ {c}
  /\ inFlight' = IF c \in holders THEN inFlight - 1 ELSE inFlight

\* acquire, and what the connection does next if it got a slot.
Acquire(c, next) ==
  IF inFlight < Concurrency
  THEN /\ inFlight' = inFlight + 1
       /\ holders' = holders \union {c}
       /\ stage' = [stage EXCEPT ![c] = next]
  ELSE UNCHANGED <<inFlight, holders, stage>>

-----------------------------------------------------------------------------
(* The rate limiter                                                        *)

Expired(counter) == now - counter.start >= RateWindow

Fresh == [start |-> now, total |-> 0, failures |-> 0]

\* For mutation: a full map drops every counter but the new one.
CountersWithAll(p) ==
  IF p \in DOMAIN counters /\ ~Expired(counters[p])
  THEN counters
  ELSE [q \in {p} |-> Fresh]

\* counterFor: a missing or expired counter starts a new window, and a map
\* that has grown past its limit loses the expired ones.
CountersWith(p) ==
  IF p \in DOMAIN counters /\ ~Expired(counters[p])
  THEN counters
  ELSE LET all == DOMAIN counters \union {p}
           kept == IF Cardinality(all) > MapMax
                   THEN {q \in all : q = p \/ ~Expired(counters[q])}
                   ELSE all
       IN  [q \in kept |-> IF q = p THEN Fresh ELSE counters[q]]

\* A request for a guarded path arrives, with a bearer that is known or not.
\* The window is charged before the bearer is looked at, the slot taken after.
Arrive(c, known) ==
  LET p == PeerOf[c]
      map == CountersWith(p)
  IN  /\ stage[c] = "free"
      /\ IF map[p].failures >= AuthMax \/ map[p].total >= RateMax
         THEN /\ counters' = map
              /\ UNCHANGED <<inFlight, holders, stage, admitted>>
         ELSE /\ counters' = [map EXCEPT ![p].total = @ + 1,
                                         ![p].failures = @ + IF known THEN 0 ELSE 1]
              /\ admitted' = [admitted EXCEPT ![p] = Append(@, now)]
              /\ IF known THEN Acquire(c, "body")
                          ELSE UNCHANGED <<inFlight, holders, stage>>
      /\ UNCHANGED <<now, gone, signing, handling>>

\* The local administration route, from loopback without an Origin: no bearer
\* and so no signature; the window is not charged.
ArriveLocal(c) ==
  /\ PeerOf[c] = Local
  /\ stage[c] = "free"
  /\ Acquire(c, "run")
  /\ UNCHANGED <<now, counters, admitted, gone, signing, handling>>

-----------------------------------------------------------------------------
(* The signature check                                                     *)

Seen == {seen[i] : i \in 1..Len(seen)}

\* For mutation: the cache keeps one nonce less.
RememberShort(n) ==
  LET more == Append(seen, n)
  IN  IF Len(more) > NonceMax - 1 THEN Tail(more) ELSE more

\* NonceCache.remember of a nonce that is not in the cache.
Remember(n) ==
  LET more == Append(seen, n)
  IN  IF Len(more) > NonceMax THEN Tail(more) ELSE more

\* The timestamp is outside the accepted span.
Stale(at) == now - at > Skew \/ at - now > Skew

\* The body of a request is complete, and carries a message signed just now.
VerifyNew(c, at) ==
  /\ stage[c] = "body" /\ c \notin gone
  /\ Len(stamp) < MaxSigned
  /\ stamp' = Append(stamp, at)
  /\ IF Stale(at)
     THEN /\ verified' = Append(verified, 0)
          /\ stage' = [stage EXCEPT ![c] = "answered"]
          /\ UNCHANGED seen
     ELSE /\ seen' = Remember(Len(stamp) + 1)
          /\ verified' = Append(verified, 1)
          /\ stage' = [stage EXCEPT ![c] = "run"]
  /\ UNCHANGED <<now, admission, gone, handling>>

\* The message has been sent before: by a client that retries, or by another.
VerifyAgain(c, n) ==
  /\ stage[c] = "body" /\ c \notin gone
  /\ IF Stale(stamp[n]) \/ n \in Seen
     THEN /\ stage' = [stage EXCEPT ![c] = "answered"]
          /\ UNCHANGED <<seen, verified>>
     ELSE /\ seen' = Remember(n)
          /\ verified' = [verified EXCEPT ![n] = @ + 1]
          /\ stage' = [stage EXCEPT ![c] = "run"]
  /\ UNCHANGED <<now, admission, gone, stamp, handling>>

\* Headers missing or malformed, or a signature over something else.
VerifyFails(c) ==
  /\ stage[c] = "body" /\ c \notin gone
  /\ stage' = [stage EXCEPT ![c] = "answered"]
  /\ UNCHANGED <<now, admission, gone, signing, handling>>

-----------------------------------------------------------------------------
(* The tool loop                                                           *)

\* For mutation: the turn budget is looked at after the dispatch.
CallsOursUnbudgeted(c) ==
  /\ stage[c] = "run" /\ turns[c] < MaxTurns
  /\ turns' = [turns EXCEPT ![c] = @ + 1]
  /\ stage' = [stage EXCEPT ![c] = "tools"]
  /\ UNCHANGED <<now, admission, gone, signing, batches>>

\* The provider asks for tools of ours only: they are dispatched if a turn is
\* left to answer them.
CallsOurs(c) ==
  /\ stage[c] = "run" /\ turns[c] < MaxTurns
  /\ turns' = [turns EXCEPT ![c] = @ + 1]
  /\ stage' = [stage EXCEPT ![c] = IF turns[c] + 1 = MaxTurns THEN "answered"
                                                              ELSE "tools"]
  /\ UNCHANGED <<now, admission, gone, signing, batches>>

\* No call, calls of the client's own tools only, a mix of both, or a failure:
\* the loop is over with nothing dispatched in this turn.
LoopEnds(c) ==
  /\ stage[c] = "run" /\ turns[c] < MaxTurns
  /\ turns' = [turns EXCEPT ![c] = @ + 1]
  /\ stage' = [stage EXCEPT ![c] = "answered"]
  /\ UNCHANGED <<now, admission, gone, signing, batches>>

\* dispatchToolCalls has gone through the batch; one refusal ends the loop.
Dispatch(c, refused) ==
  /\ stage[c] = "tools"
  /\ batches' = [batches EXCEPT ![c] = @ + 1]
  /\ stage' = [stage EXCEPT ![c] = IF refused \/ turns[c] = MaxTurns
                                   THEN "answered" ELSE "run"]
  /\ UNCHANGED <<now, admission, gone, signing, turns>>

-----------------------------------------------------------------------------
(* The end of a request                                                    *)

\* The state of a tool loop ends with its request.
Leave(c) ==
  /\ stage' = [stage EXCEPT ![c] = "free"]
  /\ turns' = [turns EXCEPT ![c] = 0]
  /\ batches' = [batches EXCEPT ![c] = 0]

\* The response is finished: onResponse.
Respond(c) ==
  /\ stage[c] = "answered" /\ c \notin gone
  /\ Leave(c)
  /\ Release(c)
  /\ UNCHANGED <<now, counters, admitted, gone, signing>>

\* For mutation: no onRequestAbort hook.
VanishUnheard(c) ==
  /\ stage[c] # "free" /\ c \notin gone
  /\ gone' = gone \union {c}
  /\ UNCHANGED <<now, counters, admitted, inFlight, holders, stage, signing,
                 handling>>

\* The client vanishes: onRequestAbort.  What the handler does goes on.
Vanish(c) ==
  /\ stage[c] # "free" /\ c \notin gone
  /\ gone' = gone \union {c}
  /\ Release(c)
  /\ UNCHANGED <<now, counters, admitted, stage, signing, handling>>

\* A request whose client has vanished comes to its end: with its body missing,
\* or with an answer nobody reads, for which onResponse may run as well.
Bury(c, finished) ==
  /\ c \in gone
  /\ stage[c] \in {"body", "answered"}
  /\ gone' = gone \ {c}
  /\ Leave(c)
  /\ IF finished THEN Release(c) ELSE UNCHANGED <<inFlight, holders>>
  /\ UNCHANGED <<now, counters, admitted, signing>>

Tick ==
  /\ now < Horizon
  /\ now' = now + 1
  /\ UNCHANGED <<admission, stage, gone, signing, handling>>

\* The handler's continuations, whether or not a client listens.
Handle(c) ==
  \/ CallsOurs(c)
  \/ LoopEnds(c)
  \/ \E refused \in BOOLEAN : Dispatch(c, refused)

Next ==
  \/ Tick
  \/ \E c \in Conns :
       \/ \E known \in BOOLEAN : Arrive(c, known)
       \/ ArriveLocal(c)
       \/ \E offset \in Offsets : VerifyNew(c, now + offset)
       \/ \E n \in 1..Len(stamp) : VerifyAgain(c, n)
       \/ VerifyFails(c)
       \/ Handle(c)
       \/ Respond(c)
       \/ Vanish(c)
       \/ \E finished \in BOOLEAN : Bury(c, finished)

\* A handler comes to its end: each of its awaits is bounded by a timeout of
\* the outbound call.  A connection closes or completes its body: the socket
\* reports one or the other.  Nothing makes a client send a request.
Spec ==
  /\ Init
  /\ [][Next]_vars
  /\ \A c \in Conns :
       /\ WF_vars(Handle(c))
       /\ WF_vars(Respond(c))
       /\ WF_vars(stage[c] = "body" /\ Vanish(c))

-----------------------------------------------------------------------------

\* The guard counts the requests that hold a slot, each once, and no more than
\* the cap: a response and an abort of one request do not both give it back.
SlotsAreHeld == inFlight = Cardinality(holders) /\ inFlight <= Concurrency

\* A signed message is accepted once, although the cache forgets: by the time
\* its nonce is evicted the rate limiter has let enough time pass for its
\* timestamp to be stale, also when bodies arrive long after their headers.
AcceptedOnce == \A n \in 1..Len(stamp) : verified[n] <= 1

\* Whenever an address was let past the rate limiter more than twice the budget,
\* more than a window went by meanwhile, whatever other addresses do to the map
\* of counters.
BurstBounded ==
  \A p \in Peers : \A i \in 1..Len(admitted[p]) - 2 * RateMax :
    admitted[p][i + 2 * RateMax] - admitted[p][i] > RateWindow

\* Tools have effects that are not undone, so no batch of calls runs in a turn
\* that leaves none to tell the provider of its results.  Whether the later turn
\* succeeds is another matter: the budget promises it, a failing provider ends it.
EffectsLeaveATurn ==
  \A c \in Conns : batches[c] <= turns[c] /\ batches[c] < MaxTurns

\* A slot that is taken is free again in the end.
SlotComesBack == \A c \in Conns : (c \in holders) ~> (c \notin holders)
=============================================================================
