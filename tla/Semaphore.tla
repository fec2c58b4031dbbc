------------------------------ MODULE Semaphore ------------------------------
(***************************************************************************)
(* The outbound concurrency limiter: createSemaphore of                    *)
(* packages/router/src/concurrency.ts.                                     *)
(*                                                                         *)
(* JavaScript runs each of acquire, the release closure, pump and the      *)
(* abort listener to completion, so each is one atomic action; what        *)
(* interleaves is the order in which callers reach them.                   *)
(*                                                                         *)
(* A waiter remembers the array position at which it was pushed.  The pump *)
(* removes from the front with shift(), which moves every later entry one  *)
(* position down while the remembered positions stay what they were.  The  *)
(* model keeps both: `waiters` is the array, `listener` the positions the  *)
(* abort listeners remember (counted from 1 here, from 0 in the code).     *)
(***************************************************************************)
EXTENDS Integers, Sequences, FiniteSets

CONSTANTS
  Callers,      \* the requests that may ask for a permit
  Cancellable,  \* the callers that pass an AbortSignal (the streaming path)
  Nobody,       \* the `undefined` an abort leaves in the array
  Limit,        \* permits
  QueueLimit,   \* waiters accepted before a caller is refused
  MaxSlots      \* bound of the model: length the waiter array may reach

ASSUME SemaphoreAssumption ==
  /\ IsFiniteSet(Callers)
  /\ Cancellable \subseteq Callers
  /\ Nobody \notin Callers
  /\ Limit \in Nat \ {0}
  /\ QueueLimit \in Nat \ {0}
  /\ MaxSlots \in Nat

VARIABLES
  inFlight,   \* permits out, as the semaphore counts them
  waiters,    \* the waiter array
  live,       \* occupied slots, as the semaphore counts them
  listener,   \* caller -> position its abort listener remembers, 0: none
  status      \* caller -> what its last acquire has come to

vars == <<inFlight, waiters, live, listener, status>>

\* "outside":  no acquire pending and no release closure at hand
\* "waiting":  the promise of acquire is unsettled
\* "holding":  the promise resolved with a release closure, not called yet
\* "released": the release closure has been called and may be called again
Status == {"outside", "waiting", "holding", "released"}

Waiting == {c \in Callers : status[c] = "waiting"}
Holding == {c \in Callers : status[c] = "holding"}

\* The positions of the array that are not vacated.
Occupied(ws) == {i \in 1..Len(ws) : ws[i] # Nobody}

Init ==
  /\ inFlight = 0
  /\ waiters = <<>>
  /\ live = 0
  /\ listener = [c \in Callers |-> 0]
  /\ status = [c \in Callers |-> "outside"]

-----------------------------------------------------------------------------
(* pump                                                                    *)

\* How many waiters one run of the loop hands a permit to.
Handoffs(n, l) == IF Limit - n < l THEN Limit - n ELSE l

\* How many entries the loop shifts off `ws` to make k handoffs: up to and
\* including the k-th occupied slot, the vacated ones before it skipped.
Shifted(ws, k) ==
  IF k = 0 THEN 0
  ELSE CHOOSE n \in Occupied(ws) : Cardinality(Occupied(ws) \cap (1..n)) = k

\* For mutation: the loop pops from the back.
PumpLastIn(n, l, st) ==
  LET k == Handoffs(n, l)
      back == CHOOSE i \in Occupied(waiters) : \A j \in Occupied(waiters) : j <= i
      served == IF k = 0 THEN {} ELSE {waiters[back]}
  IN  /\ inFlight' = n + k
      /\ live' = l - k
      /\ waiters' = IF l - k = 0 THEN <<>> ELSE SubSeq(waiters, 1, back - 1)
      /\ status' = [c \in Callers |-> IF c \in served /\ st[c] = "waiting"
                                      THEN "holding" ELSE st[c]]
      /\ listener' = [c \in Callers |-> IF c \in served THEN 0 ELSE listener[c]]

\* The loop, the compaction of an empty queue, and the resolutions, run when
\* the counters are n and l and the callers' states are st.  A resolution
\* settles the promise of a caller that still waits, and does nothing for one
\* whose promise has been rejected; the permit is counted out either way.
Pump(n, l, st) ==
  LET k == Handoffs(n, l)
      cut == Shifted(waiters, k)
      served == {waiters[i] : i \in Occupied(waiters) \cap (1..cut)}
  IN  /\ inFlight' = n + k
      /\ live' = l - k
      /\ waiters' = IF l - k = 0 THEN <<>>
                    ELSE SubSeq(waiters, cut + 1, Len(waiters))
      /\ status' = [c \in Callers |-> IF c \in served /\ st[c] = "waiting"
                                      THEN "holding" ELSE st[c]]
      /\ listener' = [c \in Callers |-> IF c \in served THEN 0 ELSE listener[c]]

-----------------------------------------------------------------------------
(* acquire                                                                 *)

\* A caller starts a new request once nothing of its last one is in the array.
MayAsk(c) ==
  /\ status[c] \in {"outside", "released"}
  /\ \A i \in 1..Len(waiters) : waiters[i] # c

\* A permit is free: it is taken at once, ahead of the array.
AcquireNow(c) ==
  /\ MayAsk(c)
  /\ inFlight < Limit
  /\ inFlight' = inFlight + 1
  /\ status' = [status EXCEPT ![c] = "holding"]
  /\ UNCHANGED <<waiters, live, listener>>

\* For mutation: the queue limit is not looked at.
AcquireUnbounded(c) ==
  /\ MayAsk(c)
  /\ inFlight >= Limit
  /\ Len(waiters) < MaxSlots
  /\ waiters' = Append(waiters, c)
  /\ live' = live + 1
  /\ listener' = [listener EXCEPT ![c] = IF c \in Cancellable
                                          THEN Len(waiters) + 1 ELSE 0]
  /\ status' = [status EXCEPT ![c] = "waiting"]
  /\ UNCHANGED inFlight

\* The queue has room: the caller is pushed and its signal listened to.
AcquireQueued(c) ==
  /\ MayAsk(c)
  /\ inFlight >= Limit
  /\ live < QueueLimit
  /\ Len(waiters) < MaxSlots
  /\ waiters' = Append(waiters, c)
  /\ live' = live + 1
  /\ listener' = [listener EXCEPT ![c] = IF c \in Cancellable
                                          THEN Len(waiters) + 1 ELSE 0]
  /\ status' = [status EXCEPT ![c] = "waiting"]
  /\ UNCHANGED inFlight

\* The queue is full, or the signal has fired before: rejected untouched.
AcquireRefused(c) ==
  /\ MayAsk(c)
  /\ c \in Cancellable \/ (inFlight >= Limit /\ live >= QueueLimit)
  /\ status' = [status EXCEPT ![c] = "outside"]
  /\ UNCHANGED <<inFlight, waiters, live, listener>>

\* For mutation: the release closure has no flag, so each call gives a permit.
ReleaseEveryTime(c) ==
  /\ status[c] \in {"holding", "released"}
  /\ inFlight > 0
  /\ Pump(inFlight - 1, live, [status EXCEPT ![c] = "released"])

\* For mutation: the release closure does not pump.
ReleaseUnpumped(c) ==
  \/ /\ status[c] = "holding"
     /\ inFlight' = inFlight - 1
     /\ status' = [status EXCEPT ![c] = "released"]
     /\ UNCHANGED <<waiters, live, listener>>
  \/ /\ status[c] = "released"
     /\ UNCHANGED vars

\* The release closure: a private flag makes every call but the first inert.
Release(c) ==
  \/ /\ status[c] = "holding"
     /\ Pump(inFlight - 1, live, [status EXCEPT ![c] = "released"])
  \/ /\ status[c] = "released"
     /\ UNCHANGED vars

\* For mutation: the listener vacates the slot and never rejects.
AbortUnsettled(c) ==
  LET here == listener[c] IN
  /\ here # 0
  /\ listener' = [listener EXCEPT ![c] = 0]
  /\ IF here \in Occupied(waiters)
     THEN /\ waiters' = [waiters EXCEPT ![here] = Nobody]
          /\ live' = live - 1
     ELSE UNCHANGED <<waiters, live>>
  /\ UNCHANGED <<inFlight, status>>

\* The abort listener: it looks at the remembered position, whatever entry is
\* there by now.  It is registered once, so it never runs again.
Abort(c) ==
  LET here == listener[c] IN
  /\ here # 0
  /\ listener' = [listener EXCEPT ![c] = 0]
  /\ IF here \in Occupied(waiters)
     THEN /\ waiters' = [waiters EXCEPT ![here] = Nobody]
          /\ live' = live - 1
          /\ status' = [status EXCEPT ![c] = "outside"]
     ELSE UNCHANGED <<waiters, live, status>>
  /\ UNCHANGED inFlight

Next ==
  \E c \in Callers :
    \/ AcquireNow(c)
    \/ AcquireQueued(c)
    \/ AcquireRefused(c)
    \/ Release(c)
    \/ Abort(c)

Spec == Init /\ [][Next]_vars

\* A permit that is held is given back: a byte cap and an inactivity timeout
\* bound a buffered call, and `finally` returns its permit.
Fairness == \A c \in Callers : WF_vars(status[c] = "holding" /\ Release(c))

FairSpec == Spec /\ Fairness

-----------------------------------------------------------------------------
(* Properties                                                              *)

TypeOK ==
  /\ inFlight \in 0..Limit
  /\ waiters \in Seq(Callers \cup {Nobody})
  /\ live \in 0..QueueLimit
  /\ listener \in [Callers -> Nat]
  /\ \A c \in Callers \ Cancellable : listener[c] = 0
  /\ status \in [Callers -> Status]

\* The cap: never more callers with a permit than there are permits, however
\* often each of them calls its release closure.
UpstreamCap == Cardinality(Holding) <= Limit

\* The `live` counter is the number of occupied slots, so the loop of the pump
\* never runs past the end of the array (it would spin on `undefined`).
LiveCountsSlots == live = Cardinality(Occupied(waiters))

\* Nobody waits beside a free permit.
NoIdlePermit == live > 0 => inFlight = Limit

\* Whatever order pushes, shifts and aborts come in, the permits out and the
\* slots occupied add up to the callers holding and waiting: a permit handed
\* to a departed waiter is matched by one waiter that no slot serves.
Conservation ==
  inFlight + live = Cardinality(Holding) + Cardinality(Waiting)

\* The comment of createSemaphore: "a permit is never handed to a departed
\* waiter and lost".  Every permit counted out is held by a caller.
PermitNeverLost == inFlight = Cardinality(Holding)

\* Waiters are served in the order they were pushed: while a caller waits in
\* the array, no caller pushed after it is handed a permit.
FirstComeFirstServed ==
  [][\A i, j \in 1..Len(waiters) :
       /\ i < j
       /\ waiters[i] \in Waiting
       /\ waiters[j] \in Waiting
       /\ status'[waiters[j]] = "holding"
       => status'[waiters[i]] # "waiting"]_vars

\* Every caller that waits is answered: it is handed a permit or, where it
\* passed a signal that fired, rejected.
EveryWaiterAnswered ==
  \A c \in Callers : (status[c] = "waiting") ~> (status[c] # "waiting")
=============================================================================
