------------------------------ MODULE ChatRouter ------------------------------
(***************************************************************************)
(* The failover loop: chat and chatStream of packages/router/src/router.ts *)
(* with the attempt each makes through packages/router/src/transport.ts.   *)
(* It composes the semaphore of concurrency.ts (module Semaphore, one      *)
(* caller per request) and the breaker of circuit.ts (CircuitBreaker).     *)
(*                                                                         *)
(* Between two awaits the code runs alone.  One step is therefore: the     *)
(* scan of the candidates up to the next attempt, the acquire, the opening *)
(* of the upstream call, its end with the return of the permit, and the    *)
(* report that leads to the next scan.                                     *)
(***************************************************************************)
EXTENDS CircuitBreaker, Sequences, FiniteSets

CONSTANTS
  Requests,     \* requests the server may be working on at once
  Streams,      \* those that are streamed (chatStream)
  Cancellable,  \* the streams whose client may go away
  Routes,       \* the candidates of the model, best first (resolveCandidates)
  OperatorMay,  \* what the operator edits: pairs <<"enable" or "reprice", provider>>
  CallEnds,     \* how an attempt may end: a subset of AllCallEnds
  Limit, QueueLimit, MaxSlots, Nobody   \* of the semaphore

\* "config":    refused before a permit is asked for (proxy disabled, credential
\*              gone, egress denied): a code that does not fail over
\* "openfails": http.request throws on a header value, before the try block
\* "transient": unreachable, rate_limited or upstream_error
\* "fatal":     any other code
AllCallEnds == {"ok", "transient", "fatal", "config", "openfails"}

ASSUME ChatRouterAssumption ==
  /\ IsFiniteSet(Requests)
  /\ Streams \subseteq Requests
  /\ Cancellable \subseteq Streams
  /\ Routes \in Seq([provider : Providers, freeOnly : BOOLEAN])
  /\ CallEnds \subseteq AllCallEnds
  /\ OperatorMay \subseteq {"enable", "reprice"} \X Providers
  /\ Nobody \notin Requests
  /\ {Limit, QueueLimit} \subseteq Nat \ {0} /\ MaxSlots \in Nat

VARIABLES
  inFlight, waiters, live, listener, status,   \* of the semaphore
  circuit,    \* provider -> breaker entry
  enabled,    \* the providers that are enabled
  free,       \* the providers whose catalogue says the model is free
  phase,      \* request -> where it stands
  eligible,   \* request -> the candidates it kept, as indices of Routes
  at,         \* request -> position in `eligible` of the current attempt
  outcome,    \* request -> how its last attempt ended
  cancelled   \* the requests whose signal has fired

semVars == <<inFlight, waiters, live, listener, status>>
worldVars == <<enabled, free>>
candidateVars == <<eligible, at>>
vars == <<semVars, circuit, worldVars, phase, candidateVars, outcome, cancelled>>

Sem == INSTANCE Semaphore WITH Callers <- Requests

\* "admitted": about to be sent.  "acquiring": awaiting its permit.
\* "calling": the upstream call is open.  "settled": the attempt is over, not
\* yet looked at by the loop.  "streaming", "streamed": the same two past the
\* first chunk.  "done", "abandoned": the request is over.
Phases == {"idle", "admitted", "acquiring", "calling", "settled",
           "streaming", "streamed", "done", "abandoned"}
Committed == {"streaming", "streamed"}
Outcomes == {"none", "ok", "transient", "refused", "fatal", "aborted", "left"}

Init ==
  /\ Sem!Init
  /\ circuit = NoCircuit
  /\ enabled = Providers
  /\ free = Providers
  /\ phase = [r \in Requests |-> "idle"]
  /\ eligible = [r \in Requests |-> <<>>]
  /\ at = [r \in Requests |-> 0]
  /\ outcome = [r \in Requests |-> "none"]
  /\ cancelled = {}

-----------------------------------------------------------------------------
(* The loop over the candidates                                            *)

ProviderOf(k) == Routes[k].provider

\* A free-only route may use its provider now (isFreeCandidate).
Affordable(k) == Routes[k].freeOnly => ProviderOf(k) \in free

\* The check is made again immediately before an attempt.
StillFree(k) == Affordable(k)

\* filterFreeCandidates, at the arrival of the request.
Eligible == SelectSeq([k \in 1..Len(Routes) |-> k], Affordable)

Candidate(r) == eligible[r][at[r]]

\* The positions from i on at which the loop does not just `continue`: the
\* provider is enabled, and the free-only check refuses or the breaker permits.
Stops(list, i, circ) ==
  {j \in i..Len(list) :
     /\ ProviderOf(list[j]) \in enabled
     /\ ~StillFree(list[j]) \/ Permits(circ[ProviderOf(list[j])])}

\* The request is over; its locals are gone.
Finish(r, verdict) ==
  /\ phase' = [phase EXCEPT ![r] = verdict]
  /\ eligible' = [eligible EXCEPT ![r] = <<>>]
  /\ at' = [at EXCEPT ![r] = 0]
  /\ outcome' = [outcome EXCEPT ![r] = "none"]
  /\ cancelled' = cancelled \ {r}

\* For mutation: the breaker is asked before the free-only check, so a refusal
\* may spend a probe.
ScanGateFirst(r, list, i, circ) ==
  LET stops == {j \in i..Len(list) : /\ ProviderOf(list[j]) \in enabled
                                     /\ Permits(circ[ProviderOf(list[j])])}
      j == CHOOSE s \in stops : \A t \in stops : s <= t
      proceeds == stops # {} /\ StillFree(list[j])
  IN  /\ circuit' = IF stops = {} THEN circ
                    ELSE [circ EXCEPT ![ProviderOf(list[j])] = Admitted(@)]
      /\ IF proceeds
         THEN /\ phase' = [phase EXCEPT ![r] = "admitted"]
              /\ eligible' = [eligible EXCEPT ![r] = list]
              /\ at' = [at EXCEPT ![r] = j]
              /\ outcome' = [outcome EXCEPT ![r] = "none"]
              /\ UNCHANGED cancelled
         ELSE Finish(r, "done")

\* The loop from position i on, over `list`, with the breaker at circ: to the
\* next attempt, or to a final failure (no candidate left, or one that is no
\* longer free).  Admitting a candidate is what `allow` records.
Scan(r, list, i, circ) ==
  LET stops == Stops(list, i, circ)
      j == CHOOSE s \in stops : \A t \in stops : s <= t
      proceeds == stops # {} /\ StillFree(list[j])
  IN  IF proceeds
      THEN /\ phase' = [phase EXCEPT ![r] = "admitted"]
           /\ eligible' = [eligible EXCEPT ![r] = list]
           /\ at' = [at EXCEPT ![r] = j]
           /\ outcome' = [outcome EXCEPT ![r] = "none"]
           /\ circuit' = [circ EXCEPT ![ProviderOf(list[j])] = Admitted(@)]
           /\ UNCHANGED cancelled
      ELSE /\ Finish(r, "done")
           /\ circuit' = circ

\* A request arrives: candidates are filtered once, and the loop begins.
Arrive(r) ==
  /\ phase[r] = "idle"
  /\ Sem!MayAsk(r)
  /\ Scan(r, Eligible, 1, circuit)
  /\ UNCHANGED <<semVars, worldVars>>

\* For mutation: every failure fails over.
FailsOverAlways(r) ==
  phase[r] = "settled" /\ outcome[r] \notin {"ok", "left"} /\ r \notin cancelled

\* For mutation: the commit to the consumer is not looked at.
FailsOverCommitted(r) ==
  outcome[r] \in {"transient", "refused"} /\ r \notin cancelled

\* The failure is one that another provider may mend.
FailsOver(r) ==
  /\ phase[r] = "settled"
  /\ outcome[r] \in {"transient", "refused"}
  /\ r \notin cancelled

\* The loop resumes after an attempt: it reports to the breaker, and either
\* the request is over or the scan goes on.
Resume(r) ==
  LET p == ProviderOf(Candidate(r)) IN
  /\ phase[r] \in {"settled", "streamed"}
  /\ \/ /\ outcome[r] = "ok"
        /\ circuit' = [circuit EXCEPT ![p] = onSuccess(@)]
        /\ Finish(r, "done")
     \/ /\ outcome[r] = "left"
        /\ Finish(r, "abandoned")
        /\ UNCHANGED circuit
     \/ /\ outcome[r] \notin {"ok", "left"} /\ ~FailsOver(r)
        /\ Finish(r, "done")
        /\ UNCHANGED circuit
     \/ /\ FailsOver(r)
        /\ Scan(r, eligible[r], at[r] + 1,
                [circuit EXCEPT ![p] = onTransientFailure(@)])
  /\ UNCHANGED <<semVars, worldVars>>

-----------------------------------------------------------------------------
(* One attempt                                                             *)

\* What every step of an attempt leaves alone.
KeepLoop == UNCHANGED <<circuit, worldVars, candidateVars>>

Settle(r, how) ==
  /\ phase' = [phase EXCEPT ![r] = IF @ = "streaming" THEN "streamed" ELSE "settled"]
  /\ outcome' = [outcome EXCEPT ![r] = how]
  /\ UNCHANGED cancelled
  /\ KeepLoop

MoveTo(r, where) ==
  /\ phase' = [phase EXCEPT ![r] = where]
  /\ UNCHANGED <<outcome, cancelled>>
  /\ KeepLoop

\* The attempt fails before it asks for a permit.
Preflight(r) ==
  /\ phase[r] = "admitted"
  /\ \/ "config" \in CallEnds /\ Settle(r, "fatal")
     \/ "transient" \in CallEnds /\ Settle(r, "transient")
  /\ UNCHANGED semVars

\* The attempt asks for its permit.
Acquire(r) ==
  /\ phase[r] = "admitted"
  /\ \/ /\ r \notin cancelled
        /\ Sem!AcquireNow(r) \/ Sem!AcquireQueued(r)
        /\ MoveTo(r, "acquiring")
     \/ /\ r \notin cancelled
        /\ inFlight >= Limit /\ live >= QueueLimit
        /\ Sem!AcquireRefused(r)
        /\ Settle(r, "refused")
     \/ /\ r \in cancelled
        /\ Sem!AcquireRefused(r)
        /\ Settle(r, "aborted")

\* The permit is there: the upstream call is opened.
OpenCall(r) ==
  /\ phase[r] = "acquiring" /\ status[r] = "holding"
  /\ MoveTo(r, "calling")
  /\ UNCHANGED semVars

\* Opening throws.  The buffered path returns the permit in its finally; on
\* the streaming path the throw comes before the try, and the release closure
\* is dropped uncalled.
OpenThrows(r) ==
  /\ "openfails" \in CallEnds
  /\ phase[r] = "acquiring" /\ status[r] = "holding"
  /\ IF r \in Streams
     THEN /\ status' = [status EXCEPT ![r] = "outside"]
          /\ UNCHANGED <<inFlight, waiters, live, listener>>
     ELSE Sem!Release(r)
  /\ Settle(r, "fatal")

\* The wait for the permit ends in the rejection of the abort listener.
Rejected(r) ==
  /\ phase[r] = "acquiring" /\ status[r] = "outside"
  /\ Settle(r, "aborted")
  /\ UNCHANGED semVars

\* For mutation: only a call that succeeds returns its permit.
EndCallLeaky(r) ==
  /\ phase[r] = "calling"
  /\ \E how \in CallEnds \cap {"ok", "transient", "fatal"} :
       /\ Settle(r, how)
       /\ IF how = "ok" THEN Sem!Release(r) ELSE UNCHANGED semVars

\* The call ends before anything has reached the consumer.
EndCall(r) ==
  /\ phase[r] = "calling"
  /\ \E how \in CallEnds \cap {"ok", "transient", "fatal"} : Settle(r, how)
  /\ Sem!Release(r)

\* The first chunk: from here on the response is committed.
FirstChunk(r) ==
  /\ phase[r] = "calling" /\ r \in Streams
  /\ MoveTo(r, "streaming")
  /\ UNCHANGED semVars

\* The stream ends, breaks, or is left by its consumer.  Of a cancelled one the
\* chunks already queued are delivered first, then the abort is raised, unless
\* the stream had ended before it.
EndStream(r) ==
  /\ phase[r] = "streaming"
  /\ \E how \in (CallEnds \cap {"ok", "transient", "fatal"}) \cup {"left"}
               \cup (IF r \in cancelled THEN {"aborted"} ELSE {}) :
        Settle(r, how)
  /\ Sem!Release(r)

\* The client goes away and the signal fires: the listener of whoever waits
\* at that moment runs, the semaphore's or the transport's.  Before the first
\* chunk the failure is raised at once; later, when the consumer next pulls.
Cancel(r) ==
  /\ r \in Cancellable \ cancelled
  /\ cancelled' = cancelled \cup {r}
  /\ \/ /\ phase[r] \in {"admitted", "streaming"}
        /\ UNCHANGED <<semVars, phase, outcome>>
     \/ /\ phase[r] = "acquiring" /\ status[r] = "waiting"
        /\ Sem!Abort(r)
        /\ UNCHANGED <<phase, outcome>>
     \/ /\ phase[r] = "calling"
        /\ Sem!Release(r)
        /\ phase' = [phase EXCEPT ![r] = "settled"]
        /\ outcome' = [outcome EXCEPT ![r] = "aborted"]
  /\ KeepLoop

-----------------------------------------------------------------------------
(* The operator, the clock, and the whole                                  *)

\* No step of the code: the place of a request that is over is free for the next
\* one, so that few places stand for any number of requests.
Depart(r) ==
  /\ phase[r] \in {"done", "abandoned"}
  /\ phase' = [phase EXCEPT ![r] = "idle"]
  /\ UNCHANGED <<semVars, circuit, worldVars, candidateVars, outcome, cancelled>>

Flip(set, x) == IF x \in set THEN set \ {x} ELSE set \cup {x}

\* The operator switches a provider, or a discovery reclassifies its model.
Edit(p) ==
  /\ \/ /\ <<"enable", p>> \in OperatorMay
        /\ enabled' = Flip(enabled, p)
        /\ UNCHANGED free
     \/ /\ <<"reprice", p>> \in OperatorMay
        /\ free' = Flip(free, p)
        /\ UNCHANGED enabled
  /\ UNCHANGED <<semVars, circuit, phase, candidateVars, outcome, cancelled>>

Tick ==
  /\ circuit' = [p \in Providers |-> Older(circuit[p])]
  /\ UNCHANGED <<semVars, worldVars, phase, candidateVars, outcome, cancelled>>

Advance(r) ==
  \/ Preflight(r) \/ Acquire(r) \/ OpenCall(r) \/ OpenThrows(r) \/ Rejected(r)
  \/ EndCall(r) \/ FirstChunk(r) \/ EndStream(r) \/ Resume(r)

Next ==
  \/ \E r \in Requests : Arrive(r) \/ Advance(r) \/ Cancel(r) \/ Depart(r)
  \/ \E p \in Providers : Edit(p)
  \/ Tick

Spec == Init /\ [][Next]_vars

\* The event loop runs what is ready, and an open call ends: a byte cap and an
\* inactivity timeout bound the buffered one, a total timeout the streamed one,
\* whose consumer is taken to go on reading or to leave.
Fairness == \A r \in Requests : WF_vars(Advance(r))

FairSpec == Spec /\ Fairness

-----------------------------------------------------------------------------
(* Properties                                                              *)

TypeOK ==
  /\ Sem!TypeOK
  /\ circuit \in Circuits
  /\ enabled \subseteq Providers /\ free \subseteq Providers
  /\ phase \in [Requests -> Phases]
  /\ eligible \in [Requests -> Seq(1..Len(Routes))]
  /\ at \in [Requests -> 0..Len(Routes)]
  /\ outcome \in [Requests -> Outcomes]
  /\ cancelled \subseteq Cancellable

\* The requests with an attempt that has a permit.
AtWork ==
  {r \in Requests : \/ phase[r] \in {"calling", "streaming"}
                    \/ phase[r] = "acquiring" /\ status[r] = "holding"}

\* The semaphore counts a permit that no attempt has.
PermitLost == inFlight # Cardinality(AtWork)

\* The next waiter to be handed a permit has left: a shift had moved its slot
\* from where its abort listener looked, and the slot is still its own.
NextWaiterHasLeft ==
  \E i \in Sem!Occupied(waiters) :
    /\ \A j \in Sem!Occupied(waiters) : i <= j
    /\ status[waiters[i]] # "waiting"

\* Whatever fails over, breaks, is aborted or is left, the permits counted out
\* are those of the attempts at work: `finally` returns one per attempt, on
\* every path but two, a streamed call whose opening throws before the try, and
\* a permit handed to a waiter that has left.
PermitsMatchAttempts ==
  [][inFlight' - Cardinality(AtWork') # inFlight - Cardinality(AtWork) =>
       \/ \E r \in Streams : /\ phase[r] = "acquiring" /\ phase'[r] = "settled"
                             /\ outcome'[r] = "fatal"
       \/ NextWaiterHasLeft /\ inFlight' = inFlight]_vars

\* "A limiter that leaks on the error path degrades into a permanent outage"
\* (transport.ts:227): no path loses a permit.
NoPermitLost == ~PermitLost

\* Once a chunk has reached the consumer the request is never sent again, to
\* this provider or another.
CommittedStaysPut ==
  [][\A r \in Requests : phase[r] \in Committed
        => phase'[r] \in Committed \cup {"done", "abandoned"}]_vars

\* A deterministic failure or a client that left surfaces: no other provider
\* masks it, and the breaker does not hear of it.
FatalSurfaces ==
  [][\A r \in Requests :
       (phase[r] = "settled" /\ outcome[r] \in {"fatal", "aborted"}
          /\ phase'[r] # "settled") => phase'[r] = "done" /\ circuit' = circuit]_vars

\* "A route that may not spend money never reaches a paid provider even once"
\* (router.ts:406): whenever an upstream call is opened, a free-only route has a
\* provider that is free.
PaidNeverCalled ==
  [][\A r \in Requests : phase[r] = "acquiring" /\ phase'[r] = "calling"
        => Affordable(Candidate(r))]_vars

\* The attempts at a provider, from the admission by the breaker to the report.
Underway(p) ==
  {r \in Requests : /\ phase[r] \notin {"idle", "done", "abandoned"}
                    /\ ProviderOf(Candidate(r)) = p}

\* The attempt is over, and the loop will report nothing of it.
Unreported(r) ==
  /\ phase[r] \in {"settled", "streamed"} /\ outcome[r] # "ok"
  /\ \/ outcome[r] \notin {"transient", "refused"}
     \/ phase[r] = "streamed" \/ r \in cancelled

\* The probe has an owner: a circuit that turns half open, or stays half open
\* when an attempt at its provider was under way, has one under way, which will
\* report and so decide the circuit; only the end of an attempt that reports
\* nothing leaves it half open for good.  The attempt need not become a call: a
\* failure before the permit and a full local queue use the probe up as well.
HalfOpenIsOwned ==
  [][\A p \in Providers :
       /\ circuit'[p].mode = "half_open"
       /\ circuit[p].mode = "half_open" => Underway(p) # {}
       => Underway(p)' # {} \/ \E r \in Underway(p) : Unreported(r)]_vars

\* "A transient upstream failure is exactly what the breaker counts": only a
\* failed call of its own opens the circuit of a provider.
OnlyFaultsOpenCircuits ==
  [][\A p \in Providers : circuit[p].mode # "open" /\ circuit'[p].mode = "open" =>
       \E r \in Requests : /\ phase[r] = "settled" /\ outcome[r] = "transient"
                           /\ ProviderOf(Candidate(r)) = p]_vars

\* Every request that enters routing is answered, as long as no permit is lost.
EveryRequestEnds ==
  \A r \in Requests :
    (phase[r] = "admitted") ~> (phase[r] \in {"done", "abandoned"} \/ PermitLost)
=============================================================================
