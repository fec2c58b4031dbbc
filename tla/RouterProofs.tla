----------------------------- MODULE RouterProofs -----------------------------
(***************************************************************************)
(* What holds of the circuit breaker for any number of providers and of    *)
(* overlapping attempts, any threshold and any cooldown, and of the        *)
(* failover loop that asks it, for any requests, routes and edits; and of  *)
(* the permits that the loop takes from the limiter.                       *)
(***************************************************************************)
EXTENDS ChatRouter, BreakerLoad, TLAPS

BreakerInv == LoadTypeOK /\ ProbeAccounted

-----------------------------------------------------------------------------
(* The methods of the class, one entry at a time                           *)

\* Every method of the breaker leaves a well-typed entry.
LEMMA EntryTyped ==
  ASSUME NEW e \in Entry
  PROVE  /\ onSuccess(e) \in Entry
         /\ onTransientFailure(e) \in Entry
         /\ Older(e) \in Entry
         /\ Admitted(e) \in Entry
<1> USE BreakerAssumption
<1>1. \A k \in 0..(Threshold - 1) : Closed(k) \in Entry
  BY DEF Closed, EntryOf, Entry
<1>2. Opened \in Entry /\ HalfOpen \in Entry
  BY DEF Opened, HalfOpen, EntryOf, Entry
<1>3. onSuccess(e) \in Entry
  BY <1>1 DEF onSuccess
<1>4. onTransientFailure(e) \in Entry
  <2>1. e.streak \in 0..(Threshold - 1)
    BY DEF Entry
  <2>2. CASE e.mode \in {"open", "half_open"} \/ e.streak + 1 >= Threshold
    BY <2>2, <1>2, Zenon DEF onTransientFailure
  <2>3. CASE ~(e.mode \in {"open", "half_open"} \/ e.streak + 1 >= Threshold)
    <3>1. onTransientFailure(e) = Closed(e.streak + 1)
      BY <2>3, Zenon DEF onTransientFailure
    <3>2. e.streak + 1 \in 0..(Threshold - 1)
      BY <2>1, <2>3
    <3> QED
      BY <3>1, <3>2, <1>1
  <2> QED
    BY <2>2, <2>3
<1>5. Older(e) \in Entry
  BY DEF Older, Entry
<1>6. Admitted(e) \in Entry
  <2>1. CASE e.mode = "unseen"
    BY <2>1, <1>1 DEF Admitted
  <2>2. CASE e.mode = "closed"
    BY <2>2 DEF Admitted
  <2>3. CASE e.mode = "half_open"
    BY <2>3 DEF Admitted, Entry
  <2>4. CASE e.mode = "open"
    BY <2>4, <1>2 DEF Admitted
  <2> QED
    BY <2>1, <2>2, <2>3, <2>4 DEF Entry
<1> QED
  BY <1>3, <1>4, <1>5, <1>6

\* The entry of one provider, and the age of its last probe.
Accounted(e, age) ==
  /\ e.mode = "half_open" <=> e.probeUsed
  /\ e.mode = "open" => e.sinceOpen <= age

\* A report keeps the probe of its provider accounted for.
LEMMA ReportAccounted ==
  ASSUME NEW e \in Entry, NEW age \in 0..Cooldown, Accounted(e, age)
  PROVE  Accounted(onSuccess(e), age) /\ Accounted(onTransientFailure(e), age)
  BY BreakerAssumption
  DEF Entry, Accounted, EntryOf, Closed, Opened, onSuccess, onTransientFailure

\* So does the admission of a call, which resets the age of a probe.
LEMMA AdmittedAccounted ==
  ASSUME NEW e \in Entry, NEW age \in 0..Cooldown, Accounted(e, age), Permits(e)
  PROVE  Accounted(Admitted(e), IF AsProbe(e) THEN 0 ELSE age)
  BY BreakerAssumption
  DEF Entry, Accounted, EntryOf, Closed, HalfOpen, Permits, Admitted, AsProbe

\* So does a tick, which ages the opening and the probe together.
LEMMA OlderAccounted ==
  ASSUME NEW e \in Entry, NEW age \in 0..Cooldown, Accounted(e, age)
  PROVE  Accounted(Older(e), IF age < Cooldown THEN age + 1 ELSE age)
  BY BreakerAssumption DEF Entry, Accounted, Older

-----------------------------------------------------------------------------

\* The invariant holds before any request.
LEMMA InitBreakerInv == LoadInit => BreakerInv
  BY BreakerAssumption
  DEF LoadInit, NoCircuit, BreakerInv, LoadTypeOK, Circuits, ProbeAccounted, Unseen, EntryOf, Entry

\* Every step keeps the invariant; one step of the proof per action.
LEMMA NextBreakerInv == BreakerInv /\ [LoadNext]_loadVars => BreakerInv'
<1> SUFFICES ASSUME BreakerInv, [LoadNext]_loadVars
             PROVE  BreakerInv'
  OBVIOUS
<1> USE BreakerAssumption, LoadAssumption
<1>0. LoadTypeOK /\ \A p \in Providers : Accounted(byProvider[p], probeAge[p])
  BY DEF BreakerInv, ProbeAccounted, Accounted
<1> SUFFICES LoadTypeOK' /\ \A p \in Providers : Accounted(byProvider'[p], probeAge'[p])
  BY DEF BreakerInv, ProbeAccounted, Accounted
<1>1. CASE UNCHANGED loadVars
  BY <1>0, <1>1 DEF loadVars, LoadTypeOK, Circuits
<1>2. ASSUME NEW a \in Attempts, NEW p \in Providers, Begin(a, p)
      PROVE  LoadTypeOK' /\ \A q \in Providers : Accounted(byProvider'[q], probeAge'[q])
  <2>1. Admitted(byProvider[p]) \in Entry
    BY <1>0, <1>2, EntryTyped DEF Begin, LoadTypeOK, Circuits
  <2>2. LoadTypeOK'
    BY <1>0, <1>2, <2>1 DEF Begin, LoadTypeOK, Circuits
  <2>3. Accounted(byProvider'[p], probeAge'[p])
    <3>1. Accounted(Admitted(byProvider[p]), IF AsProbe(byProvider[p]) THEN 0 ELSE probeAge[p])
      BY <1>0, <1>2, AdmittedAccounted DEF Begin, LoadTypeOK, Circuits
    <3>2. /\ byProvider'[p] = Admitted(byProvider[p])
          /\ probeAge'[p] = IF AsProbe(byProvider[p]) THEN 0 ELSE probeAge[p]
      BY <1>0, <1>2 DEF Begin, LoadTypeOK, Circuits
    <3> QED
      BY <3>1, <3>2, Zenon
  <2>4. ASSUME NEW q \in Providers, q # p
        PROVE  Accounted(byProvider'[q], probeAge'[q])
    <3>1. byProvider'[q] = byProvider[q] /\ probeAge'[q] = probeAge[q]
      BY <1>0, <1>2, <2>4 DEF Begin, LoadTypeOK, Circuits
    <3> QED
      BY <1>0, <3>1, Zenon
  <2> QED
    BY <2>2, <2>3, <2>4, Zenon
<1>3. ASSUME NEW a \in Attempts, End(a)
      PROVE  LoadTypeOK' /\ \A q \in Providers : Accounted(byProvider'[q], probeAge'[q])
  <2> DEFINE p == callee[a]
  <2>1. p \in Providers /\ UNCHANGED probeAge
    BY <1>0, <1>3 DEF End, Succeed, FailTransiently, EndSilently, Leave, LoadTypeOK, Circuits
  <2>2. \/ byProvider' = [byProvider EXCEPT ![p] = onSuccess(@)]
        \/ byProvider' = [byProvider EXCEPT ![p] = onTransientFailure(@)]
        \/ byProvider' = byProvider
    BY <1>3 DEF End, Succeed, FailTransiently, EndSilently
  <2> HIDE DEF p
  <2>3. byProvider[p] \in Entry /\ onSuccess(byProvider[p]) \in Entry
          /\ onTransientFailure(byProvider[p]) \in Entry
    BY <1>0, <2>1, EntryTyped DEF LoadTypeOK, Circuits
  <2>4. byProvider' \in [Providers -> Entry]
    BY <1>0, <2>2, <2>3 DEF LoadTypeOK, Circuits
  <2>5. LoadTypeOK'
    BY <1>0, <1>3, <2>1, <2>4
    DEF LoadTypeOK, Circuits, End, Succeed, FailTransiently, EndSilently, Leave
  <2>6. /\ Accounted(onSuccess(byProvider[p]), probeAge[p])
        /\ Accounted(onTransientFailure(byProvider[p]), probeAge[p])
    BY <1>0, <2>1, ReportAccounted DEF LoadTypeOK, Circuits
  <2>7. ASSUME NEW q \in Providers
        PROVE  Accounted(byProvider'[q], probeAge'[q])
    <3>1. byProvider'[q] \in {byProvider[q]} \cup
            (IF q = p THEN {onSuccess(byProvider[p]), onTransientFailure(byProvider[p])} ELSE {})
      BY <1>0, <2>1, <2>2 DEF LoadTypeOK, Circuits
    <3>2. Accounted(byProvider[q], probeAge[q]) /\ probeAge'[q] = probeAge[q]
      BY <1>0, <2>1
    <3>3. \/ byProvider'[q] = byProvider[q]
          \/ q = p /\ byProvider'[q] = onSuccess(byProvider[p])
          \/ q = p /\ byProvider'[q] = onTransientFailure(byProvider[p])
      BY <3>1
    <3> QED
      BY <2>6, <3>2, <3>3, Zenon
  <2> QED
    BY <2>5, <2>7
<1>4. CASE TimePasses
  <2>1. LoadTypeOK'
    BY <1>0, <1>4, EntryTyped DEF TimePasses, LoadTypeOK, Circuits
  <2>2. ASSUME NEW q \in Providers
        PROVE  Accounted(byProvider'[q], probeAge'[q])
    <3>1. Accounted(Older(byProvider[q]),
                    IF probeAge[q] < Cooldown THEN probeAge[q] + 1 ELSE probeAge[q])
      BY <1>0, OlderAccounted DEF LoadTypeOK, Circuits
    <3>2. /\ byProvider'[q] = Older(byProvider[q])
          /\ probeAge'[q] = IF probeAge[q] < Cooldown THEN probeAge[q] + 1 ELSE probeAge[q]
      BY <1>4 DEF TimePasses
    <3> QED
      BY <3>1, <3>2, Zenon
  <2> QED
    BY <2>1, <2>2
<1> QED
  BY <1>1, <1>2, <1>3, <1>4 DEF LoadNext

\* Every entry of the map keeps its shape, and no open circuit is older than
\* the last probe of its provider (allow, onSuccess, onTransientFailure).
THEOREM BreakerInvHolds == LoadSpec => []BreakerInv
  BY InitBreakerInv, NextBreakerInv, PTL DEF LoadSpec

\* The streak stays below the threshold and every entry well formed, whatever
\* order the reports of overlapping attempts come in (CircuitBreaker).
THEOREM TypeCorrect == LoadSpec => []LoadTypeOK
<1>1. BreakerInv => LoadTypeOK
  BY DEF BreakerInv
<1> QED
  BY <1>1, BreakerInvHolds, PTL

\* A half-open circuit has its probe spent, and an open one has not been open
\* for longer than its last probe is ago (allow, onTransientFailure).
THEOREM ProbesAccountedFor == LoadSpec => []ProbeAccounted
<1>1. BreakerInv => ProbeAccounted
  BY DEF BreakerInv
<1> QED
  BY <1>1, BreakerInvHolds, PTL

-----------------------------------------------------------------------------
(* What a step may never do                                                *)

\* Whatever the overlap of attempts and of late answers, two probes of one
\* provider are a cooldown apart (allow).
THEOREM ProbesApart == LoadSpec => ProbesACooldownApart
<1> DEFINE Probes(p) == AsProbe(byProvider[p]) /\ InFlight(p)' \ InFlight(p) # {}
<1>1. BreakerInv /\ [LoadNext]_loadVars => \A p \in Providers : Probes(p) => probeAge[p] = Cooldown
  <2> SUFFICES ASSUME BreakerInv, [LoadNext]_loadVars, NEW p \in Providers, Probes(p)
               PROVE  probeAge[p] = Cooldown
    OBVIOUS
  <2>1. PICK a \in Attempts : callee'[a] = p /\ callee[a] # p
    BY DEF InFlight
  <2>2. LoadTypeOK /\ ProbeAccounted /\ a \in Attempts
    BY DEF BreakerInv
  <2>3. Begin(a, p)
    <3>1. ~ UNCHANGED callee
      BY <2>1
    <3>2. \A b \in Attempts : ~ End(b)
      BY <2>1, <2>2, LoadAssumption
      DEF End, Succeed, FailTransiently, EndSilently, Leave, LoadTypeOK, Circuits
    <3>3. PICK b \in Attempts, q \in Providers : Begin(b, q)
      BY <3>1, <3>2 DEF LoadNext, TimePasses, loadVars
    <3>4. b = a /\ q = p
      BY <2>1, <2>2, <3>3 DEF Begin, LoadTypeOK, Circuits
    <3> QED
      BY <3>3, <3>4
  <2>4. byProvider[p] \in Entry /\ probeAge[p] \in 0..Cooldown
    BY <2>2 DEF LoadTypeOK, Circuits
  <2>5. byProvider[p].mode = "open" /\ byProvider[p].sinceOpen >= Cooldown
    BY <2>2, <2>3, Zenon DEF Begin, Permits, AsProbe, ProbeAccounted
  <2> QED
    BY <2>2, <2>4, <2>5, BreakerAssumption DEF ProbeAccounted, Entry
<1> QED
  BY <1>1, BreakerInvHolds, PTL DEF LoadSpec, ProbesACooldownApart, Probes

\* A failure reported late never closes or half-opens an open circuit, and no
\* request is let through before the cooldown is over (allow, onSuccess and
\* onTransientFailure).
THEOREM OpenIsLeftTwoWays == LoadSpec => OpenLeftByProbeOrSuccess
<1> DEFINE Leaves(p) == byProvider[p].mode = "open" /\ byProvider'[p].mode # "open"
           Cause(p) == \/ byProvider'[p] = HalfOpen /\ byProvider[p].sinceOpen = Cooldown
                       \/ byProvider'[p] = Closed(0) /\ \E a \in InFlight(p) : Succeed(a)
<1>1. LoadTypeOK /\ [LoadNext]_loadVars => \A p \in Providers : Leaves(p) => Cause(p)
  <2> SUFFICES ASSUME LoadTypeOK, [LoadNext]_loadVars, NEW p \in Providers, Leaves(p)
               PROVE  Cause(p)
    OBVIOUS
  <2>0. byProvider[p] \in Entry /\ byProvider[p].mode = "open"
    BY DEF LoadTypeOK, Circuits
  <2>1. CASE UNCHANGED loadVars
    BY <2>1 DEF loadVars
  <2>2. CASE TimePasses
    BY <2>2, <2>0 DEF TimePasses, Older, Entry
  <2>3. ASSUME NEW a \in Attempts, NEW q \in Providers, Begin(a, q)
        PROVE  Cause(p)
    <3>1. q = p
      BY <2>3 DEF Begin, LoadTypeOK, Circuits
    <3>2. byProvider'[p] = Admitted(byProvider[p]) /\ Permits(byProvider[p])
      BY <2>3, <3>1 DEF Begin, LoadTypeOK, Circuits
    <3>3. byProvider[p].sinceOpen >= Cooldown
      BY <2>0, <3>2 DEF Permits
    <3>4. byProvider[p].sinceOpen = Cooldown
      BY <2>0, <3>3, BreakerAssumption DEF Entry
    <3>5. Admitted(byProvider[p]) = HalfOpen
      BY <2>0 DEF Admitted
    <3> QED
      BY <3>2, <3>4, <3>5
  <2>4. ASSUME NEW a \in Attempts, End(a)
        PROVE  Cause(p)
    <3>1. callee[a] \in Providers
      BY <2>4 DEF End, Succeed, FailTransiently, EndSilently, Leave, LoadTypeOK, Circuits
    <3>2. CASE Succeed(a)
      <4>1. callee[a] = p
        BY <3>1, <3>2 DEF Succeed, LoadTypeOK, Circuits
      <4>2. byProvider'[p] = Closed(0)
        BY <3>2, <4>1 DEF Succeed, onSuccess, LoadTypeOK, Circuits
      <4> QED
        BY <3>2, <4>1, <4>2 DEF InFlight
    <3>3. CASE FailTransiently(a)
      <4>1. callee[a] = p
        BY <3>1, <3>3 DEF FailTransiently, LoadTypeOK, Circuits
      <4>2. byProvider'[p] = Opened
        BY <2>0, <3>3, <4>1 DEF FailTransiently, onTransientFailure, LoadTypeOK, Circuits
      <4> QED
        BY <4>2 DEF Opened, EntryOf
    <3>4. CASE EndSilently(a)
      BY <3>4 DEF EndSilently
    <3> QED
      BY <2>4, <3>2, <3>3, <3>4 DEF End
  <2> QED
    BY <2>1, <2>2, <2>3, <2>4 DEF LoadNext
<1> QED
  BY <1>1, TypeCorrect, PTL DEF LoadSpec, OpenLeftByProbeOrSuccess, Leaves, Cause

-----------------------------------------------------------------------------
(* The failover loop                                                       *)

\* The part of the type that the loop's steps rest on.
LoopTyped ==
  /\ circuit \in Circuits
  /\ phase \in [Requests -> Phases]
  /\ outcome \in [Requests -> Outcomes]
  /\ DOMAIN eligible = Requests /\ DOMAIN at = Requests

\* What a scan from a breaker at circ may leave behind.
Scanned(r, circ) ==
  \/ /\ phase' = [phase EXCEPT ![r] = "admitted"]
     /\ outcome' = [outcome EXCEPT ![r] = "none"]
     /\ \E list, j :
          /\ eligible' = [eligible EXCEPT ![r] = list]
          /\ at' = [at EXCEPT ![r] = j]
          /\ circuit' = [circ EXCEPT ![ProviderOf(list[j])] = Admitted(@)]
  \/ Finish(r, "done") /\ circuit' = circ

\* The breaker after a transient failure of the provider p.
Failed(p) == [circuit EXCEPT ![p] = onTransientFailure(@)]

\* The steps of a request between the loop's: the phases they lead between.
Moves ==
  {<<"admitted", "settled">>, <<"admitted", "acquiring">>,
   <<"acquiring", "calling">>, <<"acquiring", "settled">>,
   <<"calling", "settled">>, <<"calling", "streaming">>,
   <<"streaming", "streamed">>, <<"done", "idle">>, <<"abandoned", "idle">>}

\* The kinds of step.
Arrives(r) == phase[r] = "idle" /\ Scanned(r, circuit)

GoesOn(r) ==
  /\ phase[r] = "settled" /\ outcome[r] \in {"transient", "refused"}
  /\ Scanned(r, Failed(ProviderOf(Candidate(r))))

Succeeds(r) ==
  /\ phase[r] \in {"settled", "streamed"} /\ outcome[r] = "ok"
  /\ Finish(r, "done")
  /\ circuit' = [circuit EXCEPT ![ProviderOf(Candidate(r))] = onSuccess(@)]

Ends(r) ==
  /\ Unreported(r)
  /\ \/ outcome[r] = "left" /\ Finish(r, "abandoned")
     \/ outcome[r] # "left" /\ Finish(r, "done")
  /\ UNCHANGED circuit

Moved(r) ==
  /\ \E m \in Moves : phase[r] = m[1] /\ phase' = [phase EXCEPT ![r] = m[2]]
  /\ outcome' = outcome \/ \E how \in Outcomes : outcome' = [outcome EXCEPT ![r] = how]
  /\ UNCHANGED <<circuit, eligible, at>>

Ticks ==
  /\ circuit' = [p \in Providers |-> Older(circuit[p])]
  /\ UNCHANGED <<phase, outcome, eligible, at>>

Rests == UNCHANGED <<circuit, phase, outcome, eligible, at>>

\* What Scan does is one of the two ways a scan can end.
LEMMA ScanScans ==
  ASSUME NEW r, NEW list, NEW i, NEW circ, Scan(r, list, i, circ)
  PROVE  Scanned(r, circ)
<1> DEFINE stops == Stops(list, i, circ)
           j == CHOOSE s \in stops : \A t \in stops : s <= t
<1> HIDE DEF stops, j
<1>1. CASE stops # {} /\ StillFree(list[j])
  <2>1. /\ phase' = [phase EXCEPT ![r] = "admitted"]
        /\ eligible' = [eligible EXCEPT ![r] = list]
        /\ at' = [at EXCEPT ![r] = j]
        /\ outcome' = [outcome EXCEPT ![r] = "none"]
        /\ circuit' = [circ EXCEPT ![ProviderOf(list[j])] = Admitted(@)]
    BY <1>1 DEF Scan, stops, j
  <2> QED
    BY <2>1 DEF Scanned
<1>2. CASE ~(stops # {} /\ StillFree(list[j]))
  <2>1. Finish(r, "done") /\ circuit' = circ
    BY <1>2 DEF Scan, stops, j
  <2> QED
    BY <2>1 DEF Scanned
<1> QED
  BY <1>1, <1>2

\* Every step of the loop is of one of these kinds.
LEMMA LoopSteps ==
  ASSUME LoopTyped, [Next]_vars
  PROVE  \/ \E r \in Requests :
              Arrives(r) \/ GoesOn(r) \/ Succeeds(r) \/ Ends(r) \/ Moved(r)
         \/ Ticks \/ Rests
<1>1. CASE UNCHANGED vars
  BY <1>1 DEF vars, candidateVars, Rests
<1>2. ASSUME NEW r \in Requests, Arrive(r) PROVE Arrives(r)
  <2>1. Scanned(r, circuit)
    BY <1>2, ScanScans DEF Arrive
  <2> QED
    BY <1>2, <2>1 DEF Arrive, Arrives
<1>3. ASSUME NEW r \in Requests, Resume(r)
      PROVE  GoesOn(r) \/ Succeeds(r) \/ Ends(r)
  <2> DEFINE p == ProviderOf(Candidate(r))
  <2>1. CASE FailsOver(r)
    <3>1. Scan(r, eligible[r], at[r] + 1, Failed(p))
      BY <1>3, <2>1 DEF Resume, FailsOver, Failed
    <3>2. Scanned(r, Failed(p))
      BY <3>1, ScanScans
    <3> QED
      BY <2>1, <3>2 DEF GoesOn, FailsOver
  <2>2. CASE ~FailsOver(r) /\ outcome[r] = "ok"
    BY <1>3, <2>2 DEF Resume, Succeeds
  <2>3. CASE ~FailsOver(r) /\ outcome[r] # "ok"
    <3>1. Unreported(r)
      BY <1>3, <2>3 DEF Resume, FailsOver, Unreported
    <3> QED
      BY <1>3, <2>3, <3>1 DEF Resume, Ends
  <2> QED
    BY <2>1, <2>2, <2>3
<1>4. ASSUME NEW r \in Requests, NEW to, <<phase[r], to>> \in Moves,
             phase' = [phase EXCEPT ![r] = to],
             UNCHANGED <<circuit, eligible, at>>,
             outcome' = outcome \/ \E how \in Outcomes :
                                     outcome' = [outcome EXCEPT ![r] = how]
      PROVE  Moved(r)
  <2> DEFINE m == <<phase[r], to>>
  <2>1. m \in Moves /\ phase[r] = m[1] /\ to = m[2]
    BY <1>4
  <2> QED
    BY <1>4, <2>1 DEF Moved
<1>5. ASSUME NEW r \in Requests, NEW how \in Outcomes, Settle(r, how),
             phase[r] \in {"admitted", "acquiring", "calling", "streaming"}
      PROVE  Moved(r)
  <2>1. /\ phase' = [phase EXCEPT ![r] = IF phase[r] = "streaming" THEN "streamed"
                                         ELSE "settled"]
        /\ outcome' = [outcome EXCEPT ![r] = how]
        /\ UNCHANGED <<circuit, eligible, at>>
    BY <1>5 DEF Settle, KeepLoop, candidateVars, LoopTyped
  <2>2. CASE phase[r] = "streaming"
    <3>1. <<phase[r], "streamed">> \in Moves /\ phase' = [phase EXCEPT ![r] = "streamed"]
      BY <2>1, <2>2 DEF Moves
    <3> QED
      BY <1>4, <1>5, <2>1, <3>1
  <2>3. CASE phase[r] # "streaming"
    <3>1. <<phase[r], "settled">> \in Moves /\ phase' = [phase EXCEPT ![r] = "settled"]
      BY <1>5, <2>1, <2>3 DEF Moves
    <3> QED
      BY <1>4, <1>5, <2>1, <3>1
  <2> QED
    BY <2>2, <2>3
<1>6. ASSUME NEW r \in Requests, NEW to, MoveTo(r, to), <<phase[r], to>> \in Moves
      PROVE  Moved(r)
  <2>1. phase' = [phase EXCEPT ![r] = to] /\ UNCHANGED <<circuit, eligible, at, outcome>>
    BY <1>6 DEF MoveTo, KeepLoop, candidateVars
  <2> QED
    BY <1>4, <1>6, <2>1
<1>7. ASSUME NEW r \in Requests,
             \/ Preflight(r) \/ Acquire(r) \/ OpenCall(r)
             \/ OpenThrows(r) \/ Rejected(r) \/ EndCall(r)
             \/ FirstChunk(r) \/ EndStream(r)
      PROVE  Moved(r)
  <2> DEFINE settles == \E how \in Outcomes :
                          /\ Settle(r, how)
                          /\ phase[r] \in {"admitted", "acquiring", "calling", "streaming"}
  <2>1. CASE Preflight(r) \/ OpenThrows(r) \/ Rejected(r)
    <3>1. settles
      BY <2>1 DEF Preflight, OpenThrows, Rejected, Outcomes
    <3> QED
      BY <1>5, <3>1
  <2>2. CASE EndCall(r) \/ EndStream(r)
    <3>1. settles
      BY <2>2 DEF EndCall, EndStream, Outcomes
    <3> QED
      BY <1>5, <3>1
  <2>3. CASE Acquire(r)
    <3>1. settles \/ (phase[r] = "admitted" /\ MoveTo(r, "acquiring"))
      BY <2>3 DEF Acquire, Outcomes
    <3> QED
      BY <1>5, <1>6, <3>1 DEF Moves
  <2>4. CASE OpenCall(r) \/ FirstChunk(r)
    BY <1>6, <2>4 DEF OpenCall, FirstChunk, Moves
  <2> QED
    BY <1>7, <2>1, <2>2, <2>3, <2>4
<1>8. ASSUME NEW r \in Requests, Cancel(r) PROVE Moved(r) \/ Rests
  <2>1. UNCHANGED <<circuit, eligible, at>>
    BY <1>8 DEF Cancel, KeepLoop, candidateVars
  <2>2. CASE UNCHANGED <<phase, outcome>>
    BY <2>1, <2>2 DEF Rests
  <2>3. CASE ~UNCHANGED <<phase, outcome>>
    <3>1. /\ phase[r] = "calling" /\ phase' = [phase EXCEPT ![r] = "settled"]
          /\ outcome' = [outcome EXCEPT ![r] = "aborted"]
      BY <1>8, <2>3 DEF Cancel
    <3>2. "aborted" \in Outcomes /\ <<phase[r], "settled">> \in Moves
      BY <3>1 DEF Outcomes, Moves
    <3> QED
      BY <1>4, <2>1, <3>1, <3>2
  <2> QED
    BY <2>2, <2>3
<1>9. ASSUME NEW r \in Requests, Depart(r) PROVE Moved(r)
  <2>1. /\ phase[r] \in {"done", "abandoned"} /\ phase' = [phase EXCEPT ![r] = "idle"]
        /\ UNCHANGED <<circuit, eligible, at, outcome>>
    BY <1>9 DEF Depart, candidateVars
  <2>2. <<phase[r], "idle">> \in Moves
    BY <2>1 DEF Moves
  <2> QED
    BY <1>4, <2>1, <2>2
<1>10. ASSUME NEW p \in Providers, Edit(p) PROVE Rests
  BY <1>10 DEF Edit, candidateVars, Rests
<1>11. CASE Tick
  BY <1>11 DEF Tick, candidateVars, Ticks
<1> QED
  BY <1>1, <1>2, <1>3, <1>7, <1>8, <1>9, <1>10, <1>11 DEF Next, Advance

\* Whatever a scan starts from, it leaves the types.
LEMMA ScannedTyped ==
  ASSUME LoopTyped, NEW r \in Requests, NEW circ \in Circuits,
         Scanned(r, circ)
  PROVE  LoopTyped'
<1>1. \A q : [circ EXCEPT ![q] = Admitted(@)] \in Circuits
  BY EntryTyped DEF Circuits
<1> QED
  BY <1>1 DEF LoopTyped, Circuits, Scanned, Finish, Phases, Outcomes

\* The types hold throughout.
LEMMA LoopTypedHolds == Spec => []LoopTyped
<1>1. Init => LoopTyped
  BY BreakerAssumption
  DEF Init, LoopTyped, NoCircuit, Circuits, Unseen, EntryOf, Entry, Phases, Outcomes
<1>2. LoopTyped /\ [Next]_vars => LoopTyped'
  <2> SUFFICES ASSUME LoopTyped, [Next]_vars PROVE LoopTyped'
    OBVIOUS
  <2>0. circuit \in Circuits
    BY DEF LoopTyped
  <2>1. ASSUME NEW r \in Requests, Arrives(r) PROVE LoopTyped'
    BY <2>0, <2>1, ScannedTyped DEF Arrives
  <2>2. ASSUME NEW r \in Requests, GoesOn(r) PROVE LoopTyped'
    <3>1. \A p : Failed(p) \in Circuits
      BY <2>0, EntryTyped DEF Failed, Circuits
    <3> QED
      BY <2>2, <3>1, ScannedTyped DEF GoesOn
  <2>3. ASSUME NEW r \in Requests, Succeeds(r) PROVE LoopTyped'
    <3>1. circuit' \in Circuits
      BY <2>0, <2>3, EntryTyped DEF Succeeds, Circuits
    <3> QED
      BY <2>3, <3>1 DEF LoopTyped, Succeeds, Finish, Phases, Outcomes
  <2>4. ASSUME NEW r \in Requests, Ends(r) PROVE LoopTyped'
    BY <2>4 DEF LoopTyped, Ends, Finish, Phases, Outcomes
  <2>5. ASSUME NEW r \in Requests, Moved(r) PROVE LoopTyped'
    BY <2>5 DEF LoopTyped, Moved, Moves, Phases
  <2>6. CASE Ticks
    BY <2>6, <2>0, EntryTyped DEF LoopTyped, Ticks, Circuits
  <2>7. CASE Rests
    BY <2>7 DEF LoopTyped, Rests
  <2> QED
    BY <2>1, <2>2, <2>3, <2>4, <2>5, <2>6, <2>7, LoopSteps
<1> QED
  BY <1>1, <1>2, PTL DEF Spec

\* Once a chunk has reached the consumer a request is only ever ended: neither
\* the scan nor a failure after the first chunk sends it again (chatStream).
THEOREM CommitHolds == Spec => CommittedStaysPut
<1> DEFINE Stays == \A r \in Requests : phase[r] \in Committed
                      => phase'[r] \in Committed \cup {"done", "abandoned"}
<1>1. LoopTyped /\ [Next]_vars => Stays
  <2> SUFFICES ASSUME LoopTyped, [Next]_vars,
                      NEW r \in Requests, phase[r] \in {"streaming", "streamed"}
               PROVE  phase'[r] \in {"streaming", "streamed", "done", "abandoned"}
    BY DEF Committed
  <2> USE DEF LoopTyped
  <2>1. ASSUME NEW q \in Requests, Arrives(q) \/ GoesOn(q) PROVE phase'[r] = phase[r]
    BY <2>1 DEF Arrives, GoesOn, Scanned, Finish
  <2>2. ASSUME NEW q \in Requests, Succeeds(q) \/ Ends(q)
        PROVE  phase'[r] \in {phase[r], "done", "abandoned"}
    BY <2>2 DEF Succeeds, Ends, Finish
  <2>3. ASSUME NEW q \in Requests, Moved(q) PROVE phase'[r] \in {phase[r], "streamed"}
    BY <2>3 DEF Moved, Moves
  <2>4. CASE Ticks \/ Rests
    BY <2>4 DEF Ticks, Rests
  <2> QED
    BY <2>1, <2>2, <2>3, <2>4, LoopSteps
<1> QED
  BY <1>1, LoopTypedHolds, PTL DEF Spec, CommittedStaysPut, Stays

\* A failure that no other provider may mend ends the request, and the breaker
\* does not hear of it (the rethrow in chat and chatStream).
THEOREM FatalEnds == Spec => FatalSurfaces
<1> DEFINE Surfaces ==
             \A r \in Requests :
               (phase[r] = "settled" /\ outcome[r] \in {"fatal", "aborted"}
                  /\ phase'[r] # "settled") => phase'[r] = "done" /\ circuit' = circuit
<1>1. LoopTyped /\ [Next]_vars => Surfaces
  <2> SUFFICES ASSUME LoopTyped, [Next]_vars, NEW r \in Requests,
                      phase[r] = "settled", outcome[r] \in {"fatal", "aborted"},
                      phase'[r] # "settled"
               PROVE  phase'[r] = "done" /\ circuit' = circuit
    OBVIOUS
  <2> USE DEF LoopTyped
  <2>1. ASSUME NEW q \in Requests, Arrives(q) \/ GoesOn(q) PROVE FALSE
    BY <2>1 DEF Arrives, GoesOn, Scanned, Finish
  <2>2. ASSUME NEW q \in Requests, Succeeds(q) PROVE FALSE
    BY <2>2 DEF Succeeds, Finish
  <2>3. ASSUME NEW q \in Requests, Ends(q) PROVE phase'[r] = "done" /\ circuit' = circuit
    BY <2>3 DEF Ends, Finish
  <2>4. ASSUME NEW q \in Requests, Moved(q) PROVE FALSE
    BY <2>4 DEF Moved, Moves
  <2>5. CASE Ticks \/ Rests
    BY <2>5 DEF Ticks, Rests
  <2> QED
    BY <2>1, <2>2, <2>3, <2>4, <2>5, LoopSteps
<1> QED
  BY <1>1, LoopTypedHolds, PTL DEF Spec, FatalSurfaces, Surfaces

\* An attempt at a provider that another request's step leaves alone.
LEMMA StaysUnderway ==
  ASSUME LoopTyped, NEW p, NEW r \in Requests, NEW q \in Underway(p), q # r,
         phase'[q] = phase[q], eligible'[q] = eligible[q], at'[q] = at[q]
  PROVE  q \in Underway(p)'
BY DEF Underway, Candidate, ProviderOf

\* A circuit that is half open has an attempt under way that will report, unless
\* the last one under way ended without a report: neither the order of the checks
\* around `allow` nor the report of another attempt leaves a probe without its
\* owner (chat and chatStream).
THEOREM ProbeIsOwned == Spec => HalfOpenIsOwned
<1> DEFINE Owned ==
             \A p \in Providers :
               /\ circuit'[p].mode = "half_open"
               /\ circuit[p].mode = "half_open" => Underway(p) # {}
               => Underway(p)' # {} \/ \E r \in Underway(p) : Unreported(r)
<1>1. LoopTyped /\ [Next]_vars => Owned
  <2> SUFFICES ASSUME LoopTyped, [Next]_vars, NEW p \in Providers,
                      circuit'[p].mode = "half_open",
                      circuit[p].mode = "half_open" => Underway(p) # {},
                      \A r \in Underway(p) : ~Unreported(r)
               PROVE  Underway(p)' # {}
    OBVIOUS
  <2> USE DEF LoopTyped
  <2>0. \A e : onSuccess(e).mode # "half_open"
               /\ onTransientFailure(e).mode # "half_open"
    BY DEF onSuccess, onTransientFailure, Closed, Opened, EntryOf
  <2>1. ASSUME NEW r \in Requests, NEW circ \in Circuits, Scanned(r, circ),
               circ[p].mode = "half_open" => \E q \in Underway(p) : q # r
        PROVE  Underway(p)' # {}
    <3>1. CASE circ[p].mode = "half_open"
      <4>1. PICK q \in Underway(p) : q # r
        BY <2>1, <3>1
      <4>2. q \in Requests
        BY DEF Underway
      <4>3. phase'[q] = phase[q] /\ eligible'[q] = eligible[q] /\ at'[q] = at[q]
        BY <2>1, <4>1, <4>2 DEF Scanned, Finish
      <4> QED
        BY <4>1, <4>3, StaysUnderway
    <3>2. CASE circ[p].mode # "half_open"
      <4>1. circuit' # circ
        BY <3>2
      <4>2. PICK list, j :
              /\ phase' = [phase EXCEPT ![r] = "admitted"]
              /\ eligible' = [eligible EXCEPT ![r] = list]
              /\ at' = [at EXCEPT ![r] = j]
              /\ circuit' = [circ EXCEPT ![ProviderOf(list[j])] = Admitted(@)]
        BY <2>1, <4>1 DEF Scanned
      <4>3. eligible'[r] = list /\ at'[r] = j /\ phase'[r] = "admitted"
        BY <4>2
      <4>4. ProviderOf(list[j]) = p
        BY <3>2, <4>2
      <4>5. r \in Underway(p)'
        BY <4>3, <4>4 DEF Underway, Candidate, ProviderOf
      <4> QED
        BY <4>5
    <3> QED
      BY <3>1, <3>2
  <2>2. ASSUME NEW r \in Requests, Arrives(r) PROVE Underway(p)' # {}
    <3>1. \A q \in Underway(p) : q # r
      BY <2>2 DEF Arrives, Underway
    <3>2. circuit[p].mode = "half_open" => \E q \in Underway(p) : q # r
      BY <3>1
    <3> QED
      BY <2>1, <2>2, <3>2 DEF Arrives
  <2>3. ASSUME NEW r \in Requests, GoesOn(r) PROVE Underway(p)' # {}
    <3> DEFINE f == ProviderOf(Candidate(r))
    <3>1. Failed(f) \in Circuits
      BY EntryTyped DEF Failed, Circuits
    <3>2. ASSUME Failed(f)[p].mode = "half_open" PROVE \E q \in Underway(p) : q # r
      <4>1. p # f
        BY <2>0, <3>2 DEF Failed, Circuits
      <4>2. circuit[p].mode = "half_open"
        BY <3>2, <4>1 DEF Failed, Circuits
      <4>3. r \notin Underway(p)
        BY <4>1 DEF Underway
      <4> QED
        BY <4>2, <4>3
    <3>3. Scanned(r, Failed(f))
      BY <2>3 DEF GoesOn
    <3> HIDE DEF f
    <3> QED
      BY <2>1, <3>1, <3>2, <3>3
  <2>4. ASSUME NEW r \in Requests, Succeeds(r) \/ Ends(r) PROVE Underway(p)' # {}
    <3>1. circuit[p].mode = "half_open" /\ r \notin Underway(p)
      <4>1. CASE Succeeds(r)
        <5>1. ProviderOf(Candidate(r)) # p
          BY <2>0, <4>1 DEF Succeeds, Circuits
        <5> QED
          BY <4>1, <5>1 DEF Succeeds, Circuits, Underway
      <4>2. CASE Ends(r)
        BY <4>2 DEF Ends, Unreported
      <4> QED
        BY <2>4, <4>1, <4>2
    <3>2. PICK q \in Underway(p) : q # r
      BY <3>1
    <3>3. q \in Requests
      BY DEF Underway
    <3>4. phase'[q] = phase[q] /\ eligible'[q] = eligible[q] /\ at'[q] = at[q]
      BY <2>4, <3>2, <3>3 DEF Succeeds, Ends, Finish
    <3> QED
      BY <3>2, <3>4, StaysUnderway
  <2>5. ASSUME UNCHANGED <<eligible, at>>, Underway(p) # {},
               \A q \in Requests : phase[q] \notin {"idle", "done", "abandoned"}
                                     => phase'[q] \notin {"idle", "done", "abandoned"}
        PROVE  Underway(p)' # {}
    BY <2>5 DEF Underway, Candidate, ProviderOf
  <2>6. ASSUME NEW r \in Requests, Moved(r) PROVE Underway(p)' # {}
    <3>1. circuit[p].mode = "half_open" /\ UNCHANGED <<eligible, at>>
      BY <2>6 DEF Moved
    <3>2. \A q \in Requests : phase[q] \notin {"idle", "done", "abandoned"}
                                => phase'[q] \notin {"idle", "done", "abandoned"}
      BY <2>6 DEF Moved, Moves
    <3> QED
      BY <2>5, <3>1, <3>2
  <2>7. CASE Ticks \/ Rests
    <3>1. circuit[p].mode = "half_open" /\ UNCHANGED <<phase, eligible, at>>
      BY <2>7 DEF Ticks, Rests, Older, Circuits, Entry
    <3> QED
      BY <2>5, <3>1
  <2> QED
    BY <2>2, <2>3, <2>4, <2>6, <2>7, LoopSteps
<1> QED
  BY <1>1, LoopTypedHolds, PTL DEF Spec, HalfOpenIsOwned, Owned

-----------------------------------------------------------------------------
(* The permits of the failover loop                                        *)

\* What is proved of the semaphore, with the requests for its callers.
Limiter == INSTANCE SemaphoreProofs WITH Callers <- Requests

\* Where a request stands says what it has of the semaphore.
PhaseInv ==
  /\ phase \in [Requests -> Phases]
  /\ DOMAIN outcome = Requests
  /\ \A r \in Requests :
       /\ status[r] = "holding" => phase[r] \in {"acquiring", "calling", "streaming"}
       /\ phase[r] \in {"calling", "streaming"} => status[r] = "holding"
       /\ status[r] = "waiting" => phase[r] = "acquiring"

RouterInv == Limiter!CoreInv /\ PhaseInv

\* A request moves on, and the semaphore does not notice.
Quiet(r, to) ==
  /\ \/ /\ phase[r] \notin {"acquiring", "calling", "streaming"}
        /\ to \notin {"acquiring", "calling", "streaming"}
     \/ phase[r] = "acquiring" /\ status[r] = "outside" /\ to = "settled"
     \/ phase[r] = "acquiring" /\ status[r] = "holding" /\ to = "calling"
     \/ phase[r] = "calling" /\ to = "streaming"
  /\ UNCHANGED Limiter!vars

\* A request asks for a permit, and gets it, waits for it or is refused.
Asks(r, to) ==
  /\ phase[r] = "admitted"
  /\ \/ (Limiter!AcquireNow(r) \/ Limiter!AcquireQueued(r)) /\ to = "acquiring"
     \/ Limiter!AcquireRefused(r) /\ to = "settled"

\* An attempt is over and gives its permit back.
Returns(r, to) ==
  /\ phase[r] \in {"acquiring", "calling", "streaming"} /\ status[r] = "holding"
  /\ Limiter!Release(r) /\ to \in {"settled", "streamed"}

\* The stream that cannot be opened drops its release closure.
Drops(r, to) ==
  /\ r \in Streams /\ "openfails" \in CallEnds
  /\ phase[r] = "acquiring" /\ to = "settled" /\ outcome'[r] = "fatal"
  /\ Limiter!Dropped(r)

Turns(r) ==
  \E to \in Phases :
    /\ phase' = [phase EXCEPT ![r] = to]
    /\ Quiet(r, to) \/ Asks(r, to) \/ Returns(r, to) \/ Drops(r, to)

\* The signal of a request that waits fires, or nothing happens.
Departs(r) == phase[r] = "acquiring" /\ Limiter!Abort(r) /\ UNCHANGED phase
Stands == UNCHANGED Limiter!vars /\ UNCHANGED phase

\* The conditions of its theorems.
LEMMA LimiterAssumption ==
  /\ Limiter!IsFiniteSet(Requests)
  /\ Cancellable \subseteq Requests
  /\ Nobody \notin Requests
  /\ Limit \in Nat \ {0}
  /\ QueueLimit \in Nat \ {0}
  /\ MaxSlots \in Nat
BY ChatRouterAssumption DEF Limiter!IsFiniteSet, IsFiniteSet

\* The router's instance of Semaphore and this one do the same.
LEMMA SameSemaphore ==
  ASSUME NEW c
  PROVE  /\ Sem!AcquireNow(c) <=> Limiter!AcquireNow(c)
         /\ Sem!AcquireQueued(c) <=> Limiter!AcquireQueued(c)
         /\ Sem!AcquireRefused(c) <=> Limiter!AcquireRefused(c)
         /\ Sem!Release(c) <=> Limiter!Release(c)
         /\ Sem!Abort(c) <=> Limiter!Abort(c)
<1>1. Sem!MayAsk(c) <=> Limiter!MayAsk(c)
  BY DEF Sem!MayAsk, Limiter!MayAsk
<1>2. \A ws : Sem!Occupied(ws) = Limiter!Occupied(ws)
  BY DEF Sem!Occupied, Limiter!Occupied
<1>3. \A ws, k : Sem!Shifted(ws, k) = Limiter!Shifted(ws, k)
  BY DEF Sem!Shifted, Limiter!Shifted, Sem!Occupied, Limiter!Occupied,
         Sem!Cardinality, Limiter!Cardinality
<1>4. \A n, l : Sem!Handoffs(n, l) = Limiter!Handoffs(n, l)
  BY DEF Sem!Handoffs, Limiter!Handoffs
<1>5. \A n, l, st : Sem!Pump(n, l, st) <=> Limiter!Pump(n, l, st)
  BY <1>2, <1>3, <1>4 DEF Sem!Pump, Limiter!Pump
<1>6. Sem!AcquireNow(c) <=> Limiter!AcquireNow(c)
  BY <1>1 DEF Sem!AcquireNow, Limiter!AcquireNow
<1>7. Sem!AcquireQueued(c) <=> Limiter!AcquireQueued(c)
  BY <1>1 DEF Sem!AcquireQueued, Limiter!AcquireQueued
<1>8. Sem!AcquireRefused(c) <=> Limiter!AcquireRefused(c)
  BY <1>1 DEF Sem!AcquireRefused, Limiter!AcquireRefused
<1>9. Sem!Release(c) <=> Limiter!Release(c)
  BY <1>5 DEF Sem!Release, Limiter!Release, Sem!vars, Limiter!vars
<1>10. Sem!Abort(c) <=> Limiter!Abort(c)
  BY <1>2 DEF Sem!Abort, Limiter!Abort
<1> QED
  BY <1>6, <1>7, <1>8, <1>9, <1>10

\* Every step of the loop is one of these.
LEMMA RouterSteps ==
  ASSUME PhaseInv, [Next]_vars
  PROVE  /\ (\E r \in Requests : Turns(r) \/ Departs(r)) \/ Stands
         /\ DOMAIN outcome' = Requests
<1> USE DEF PhaseInv
<1> DEFINE Told == DOMAIN outcome' = Requests
<1>1. CASE UNCHANGED vars
  BY <1>1 DEF vars, semVars, Stands, Limiter!vars
<1>2. ASSUME NEW r \in Requests, NEW to \in Phases,
             phase' = [phase EXCEPT ![r] = to],
             Quiet(r, to) \/ Asks(r, to) \/ Returns(r, to) \/ Drops(r, to)
      PROVE  Turns(r)
  BY <1>2 DEF Turns
<1>3. ASSUME NEW r \in Requests, NEW list, NEW i, NEW circ,
             Scan(r, list, i, circ), UNCHANGED semVars,
             phase[r] \in {"idle", "settled", "streamed"}
      PROVE  Turns(r) /\ Told
  <2>1. \/ phase' = [phase EXCEPT ![r] = "admitted"]
        \/ phase' = [phase EXCEPT ![r] = "done"]
    BY <1>3 DEF Scan, Finish
  <2>2. Told
    BY <1>3 DEF Scan, Finish
  <2>3. Quiet(r, "admitted") /\ Quiet(r, "done")
    BY <1>3 DEF Quiet, semVars, Limiter!vars
  <2>4. "admitted" \in Phases /\ "done" \in Phases
    BY DEF Phases
  <2> QED
    BY <1>2, <2>1, <2>2, <2>3, <2>4
<1>4. ASSUME NEW r \in Requests, Arrive(r) PROVE Turns(r) /\ Told
  BY <1>3, <1>4 DEF Arrive
<1>5. ASSUME NEW r \in Requests, Resume(r) PROVE Turns(r) /\ Told
  <2> DEFINE p == ProviderOf(Candidate(r))
  <2>0. UNCHANGED semVars /\ phase[r] \in {"settled", "streamed"}
    BY <1>5 DEF Resume
  <2>1. CASE Scan(r, eligible[r], at[r] + 1,
                         [circuit EXCEPT ![p] = onTransientFailure(@)])
    BY <1>3, <2>0, <2>1
  <2>2. ASSUME NEW to \in {"done", "abandoned"}, Finish(r, to) PROVE Turns(r) /\ Told
    <3>1. phase' = [phase EXCEPT ![r] = to] /\ Told
      BY <2>2 DEF Finish
    <3>2. Quiet(r, to) /\ to \in Phases
      BY <2>0 DEF Quiet, semVars, Limiter!vars, Phases
    <3> QED
      BY <1>2, <3>1, <3>2
  <2> QED
    BY <1>5, <2>1, <2>2 DEF Resume
<1>6. ASSUME NEW r \in Requests, NEW how, Settle(r, how)
      PROVE  /\ \E to \in {"settled", "streamed"} : phase' = [phase EXCEPT ![r] = to]
             /\ phase[r] # "streaming" => phase' = [phase EXCEPT ![r] = "settled"]
             /\ outcome'[r] = how /\ Told
  BY <1>6 DEF Settle
<1>7. ASSUME NEW r \in Requests, Preflight(r) PROVE Turns(r) /\ Told
  <2>1. /\ phase[r] = "admitted" /\ UNCHANGED Limiter!vars
        /\ \E how : Settle(r, how)
    BY <1>7 DEF Preflight, semVars, Limiter!vars
  <2>2. Quiet(r, "settled") /\ "settled" \in Phases
    BY <2>1 DEF Quiet, Phases
  <2> QED
    BY <1>2, <1>6, <2>1, <2>2
<1>8. ASSUME NEW r \in Requests, Acquire(r) PROVE Turns(r) /\ Told
  <2>1. phase[r] = "admitted"
    BY <1>8 DEF Acquire
  <2>2. CASE (Limiter!AcquireNow(r) \/ Limiter!AcquireQueued(r)) /\ MoveTo(r, "acquiring")
    <3>1. phase' = [phase EXCEPT ![r] = "acquiring"] /\ Told
      BY <2>2 DEF MoveTo
    <3>2. Asks(r, "acquiring") /\ "acquiring" \in Phases
      BY <2>1, <2>2 DEF Asks, Phases
    <3> QED
      BY <1>2, <3>1, <3>2
  <2>3. ASSUME NEW how, Limiter!AcquireRefused(r), Settle(r, how) PROVE Turns(r) /\ Told
    <3>1. Asks(r, "settled") /\ "settled" \in Phases
      BY <2>1, <2>3 DEF Asks, Phases
    <3>2. phase' = [phase EXCEPT ![r] = "settled"] /\ Told
      BY <1>6, <2>1, <2>3
    <3> QED
      BY <1>2, <3>1, <3>2
  <2>4. \/ (Limiter!AcquireNow(r) \/ Limiter!AcquireQueued(r)) /\ MoveTo(r, "acquiring")
        \/ Limiter!AcquireRefused(r) /\ Settle(r, "refused")
        \/ Limiter!AcquireRefused(r) /\ Settle(r, "aborted")
    BY <1>8, SameSemaphore DEF Acquire
  <2> QED
    BY <2>2, <2>3, <2>4
<1>9. ASSUME NEW r \in Requests, OpenCall(r) \/ FirstChunk(r)
      PROVE  Turns(r) /\ Told
  <2>1. PICK to \in {"calling", "streaming"} :
          /\ MoveTo(r, to) /\ UNCHANGED Limiter!vars
          /\ \/ phase[r] = "acquiring" /\ status[r] = "holding" /\ to = "calling"
             \/ phase[r] = "calling" /\ to = "streaming"
    BY <1>9 DEF OpenCall, FirstChunk, semVars, Limiter!vars
  <2>2. phase' = [phase EXCEPT ![r] = to] /\ Told
    BY <2>1 DEF MoveTo
  <2>3. Quiet(r, to) /\ to \in Phases
    BY <2>1 DEF Quiet, Phases
  <2> QED
    BY <1>2, <2>2, <2>3
<1>10. ASSUME NEW r \in Requests, OpenThrows(r) PROVE Turns(r) /\ Told
  <2>1. /\ phase[r] = "acquiring" /\ status[r] = "holding" /\ "openfails" \in CallEnds
        /\ Settle(r, "fatal")
    BY <1>10 DEF OpenThrows
  <2>2. /\ phase' = [phase EXCEPT ![r] = "settled"] /\ outcome'[r] = "fatal" /\ Told
        /\ "settled" \in Phases
    BY <1>6, <2>1 DEF Phases
  <2>3. CASE r \in Streams
    <3>1. Drops(r, "settled")
      BY <1>10, <2>1, <2>2, <2>3 DEF OpenThrows, Drops, Limiter!Dropped
    <3> QED
      BY <1>2, <2>2, <3>1
  <2>4. CASE r \notin Streams
    <3>1. Limiter!Release(r)
      BY <1>10, <2>4, SameSemaphore DEF OpenThrows
    <3>2. Returns(r, "settled")
      BY <2>1, <3>1 DEF Returns
    <3> QED
      BY <1>2, <2>2, <3>2
  <2> QED
    BY <2>3, <2>4
<1>11. ASSUME NEW r \in Requests, Rejected(r) PROVE Turns(r) /\ Told
  <2>1. /\ phase[r] = "acquiring" /\ status[r] = "outside" /\ UNCHANGED Limiter!vars
        /\ Settle(r, "aborted")
    BY <1>11 DEF Rejected, semVars, Limiter!vars
  <2>2. Quiet(r, "settled") /\ "settled" \in Phases
    BY <2>1 DEF Quiet, Phases
  <2> QED
    BY <1>2, <1>6, <2>1, <2>2
<1>12. ASSUME NEW r \in Requests, EndCall(r) \/ EndStream(r)
       PROVE  Turns(r) /\ Told
  <2>1. /\ phase[r] \in {"calling", "streaming"} /\ Limiter!Release(r)
        /\ \E how : Settle(r, how)
    BY <1>12, SameSemaphore DEF EndCall, EndStream
  <2>2. PICK to \in {"settled", "streamed"} : phase' = [phase EXCEPT ![r] = to] /\ Told
    BY <1>6, <2>1
  <2>3. Returns(r, to) /\ to \in Phases
    BY <2>1 DEF Returns, Phases
  <2> QED
    BY <1>2, <2>2, <2>3
<1>13. ASSUME NEW r \in Requests, Cancel(r)
       PROVE  (Turns(r) \/ Departs(r) \/ Stands) /\ Told
  <2>1. CASE UNCHANGED <<semVars, phase, outcome>>
    BY <2>1 DEF Stands, semVars, Limiter!vars
  <2>2. CASE /\ phase[r] = "acquiring" /\ Sem!Abort(r)
             /\ UNCHANGED <<phase, outcome>>
    BY <2>2, SameSemaphore DEF Departs
  <2>3. CASE /\ phase[r] = "calling" /\ Sem!Release(r)
             /\ phase' = [phase EXCEPT ![r] = "settled"]
             /\ outcome' = [outcome EXCEPT ![r] = "aborted"]
    <3>1. Returns(r, "settled") /\ "settled" \in Phases
      BY <2>3, SameSemaphore DEF Returns, Phases
    <3> QED
      BY <1>2, <2>3, <3>1
  <2> QED
    BY <1>13, <2>1, <2>2, <2>3 DEF Cancel
<1>14. ASSUME NEW r \in Requests, Depart(r) PROVE Turns(r) /\ Told
  <2>1. /\ phase[r] \in {"done", "abandoned"} /\ phase' = [phase EXCEPT ![r] = "idle"]
        /\ UNCHANGED Limiter!vars /\ Told
    BY <1>14 DEF Depart, semVars, Limiter!vars
  <2>2. Quiet(r, "idle") /\ "idle" \in Phases
    BY <2>1 DEF Quiet, Phases
  <2> QED
    BY <1>2, <2>1, <2>2
<1>15. ASSUME NEW p \in Providers, Edit(p) PROVE Stands /\ Told
  BY <1>15 DEF Edit, Stands, semVars, Limiter!vars
<1>16. CASE Tick
  BY <1>16 DEF Tick, Stands, semVars, Limiter!vars
<1> QED
  BY <1>1, <1>4, <1>5, <1>7, <1>8, <1>9, <1>10, <1>11, <1>12, <1>13, <1>14, <1>15, <1>16
  DEF Next, Advance

\* Permits and holders stay together, or a waiter that has left is served.
Together ==
  \/ Limiter!Drift' = Limiter!Drift
  \/ Limiter!FirstInLineLeft /\ inFlight' = inFlight

\* The invariant is inductive, and only a dropped closure and a permit for a
\* waiter that has left let permits and holders drift apart.
LEMMA RouterNext ==
  ASSUME RouterInv, [Next]_vars
  PROVE  /\ RouterInv'
         /\ \/ Together
            \/ \E r \in Requests : Drops(r, "settled") /\ phase'[r] = "settled"
<1> USE DEF RouterInv
<1>0. /\ phase \in [Requests -> Phases]
      /\ status \in [Requests -> Limiter!Status]
      /\ \A r \in Requests :
           /\ status[r] = "holding" => phase[r] \in {"acquiring", "calling", "streaming"}
           /\ phase[r] \in {"calling", "streaming"} => status[r] = "holding"
           /\ status[r] = "waiting" => phase[r] = "acquiring"
  BY DEF PhaseInv, Limiter!CoreInv, Limiter!TypeOK
<1>1. DOMAIN outcome' = Requests
  BY RouterSteps
<1>2. ASSUME [Limiter!Next]_(Limiter!vars)
      PROVE  Limiter!CoreInv' /\ Together
  BY <1>2, LimiterAssumption, Limiter!NextKeeps, Limiter!NextDrift DEF Together
<1>3. ASSUME NEW r \in Requests, NEW to \in Phases,
             phase' = [phase EXCEPT ![r] = to],
             \A d \in Requests \ {r} :
               \/ status'[d] = status[d]
               \/ status[d] = "waiting" /\ status'[d] = "holding",
             status'[r] = "holding" => to \in {"acquiring", "calling", "streaming"},
             to \in {"calling", "streaming"} => status'[r] = "holding",
             status'[r] = "waiting" => to = "acquiring"
      PROVE  PhaseInv'
  <2>1. phase' \in [Requests -> Phases]
    BY <1>0, <1>3
  <2>2. ASSUME NEW d \in Requests
        PROVE  /\ status'[d] = "holding" => phase'[d] \in {"acquiring", "calling", "streaming"}
               /\ phase'[d] \in {"calling", "streaming"} => status'[d] = "holding"
               /\ status'[d] = "waiting" => phase'[d] = "acquiring"
    <3>1. CASE d = r
      BY <1>0, <1>3, <3>1
    <3>2. CASE d # r
      <4>1. phase'[d] = phase[d]
        BY <1>0, <1>3, <3>2
      <4>2. status'[d] = status[d] \/ (status[d] = "waiting" /\ status'[d] = "holding")
        BY <1>3, <3>2
      <4> QED
        BY <1>0, <4>1, <4>2
    <3> QED
      BY <3>1, <3>2
  <2> QED
    BY <1>1, <2>1, <2>2 DEF PhaseInv
<1>4. ASSUME NEW r \in Requests, NEW to \in Phases,
             phase' = [phase EXCEPT ![r] = to], Quiet(r, to)
      PROVE  RouterInv' /\ Together
  <2>1. UNCHANGED Limiter!vars /\ status' = status
    BY <1>4 DEF Quiet, Limiter!vars
  <2>2. /\ status[r] = "holding" => to \in {"acquiring", "calling", "streaming"}
        /\ to \in {"calling", "streaming"} => status[r] = "holding"
        /\ status[r] = "waiting" => to = "acquiring"
    BY <1>0, <1>4 DEF Quiet
  <2>3. PhaseInv'
    BY <1>3, <1>4, <2>1, <2>2
  <2> QED
    BY <1>2, <2>1, <2>3
<1>5. ASSUME NEW r \in Requests, NEW to \in Phases,
             phase' = [phase EXCEPT ![r] = to], Asks(r, to)
      PROVE  RouterInv' /\ Together
  <2>1. [Limiter!Next]_(Limiter!vars)
    BY <1>5 DEF Asks, Limiter!Next
  <2>2. \/ to = "acquiring" /\ status' = [status EXCEPT ![r] = "holding"]
        \/ to = "acquiring" /\ status' = [status EXCEPT ![r] = "waiting"]
        \/ to = "settled" /\ status' = [status EXCEPT ![r] = "outside"]
    BY <1>5, LimiterAssumption, Limiter!StatusMoves DEF Asks
  <2>3. PhaseInv'
    BY <1>0, <1>3, <1>5, <2>2
  <2> QED
    BY <1>2, <2>1, <2>3
<1>6. ASSUME NEW r \in Requests, NEW to \in Phases,
             phase' = [phase EXCEPT ![r] = to], Returns(r, to)
      PROVE  RouterInv' /\ Together
  <2>1. [Limiter!Next]_(Limiter!vars)
    BY <1>6 DEF Returns, Limiter!Next
  <2>2. /\ status'[r] = "released" /\ to \in {"settled", "streamed"}
        /\ \A d \in Requests \ {r} :
             \/ status'[d] = status[d]
             \/ status[d] = "waiting" /\ status'[d] = "holding"
    BY <1>6, LimiterAssumption, Limiter!StatusMoves DEF Returns
  <2>3. PhaseInv'
    BY <1>3, <1>6, <2>2
  <2> QED
    BY <1>2, <2>1, <2>3
<1>7. ASSUME NEW r \in Requests, NEW to \in Phases,
             phase' = [phase EXCEPT ![r] = to], Drops(r, to)
      PROVE  RouterInv' /\ Drops(r, "settled") /\ phase'[r] = "settled"
  <2>1. to = "settled" /\ status' = [status EXCEPT ![r] = "outside"]
    BY <1>7 DEF Drops, Limiter!Dropped
  <2>2. PhaseInv'
    BY <1>0, <1>3, <1>7, <2>1
  <2> QED
    BY <1>0, <1>7, <2>1, <2>2, LimiterAssumption, Limiter!DropsKeeps DEF Drops
<1>8. ASSUME NEW r \in Requests, Departs(r) PROVE RouterInv' /\ Together
  <2>1. [Limiter!Next]_(Limiter!vars) /\ UNCHANGED phase /\ phase[r] = "acquiring"
    BY <1>8 DEF Departs, Limiter!Next
  <2>2. status' = status \/ status' = [status EXCEPT ![r] = "outside"]
    BY <1>8, LimiterAssumption, Limiter!StatusMoves DEF Departs
  <2>3. PhaseInv'
    BY <1>0, <1>1, <2>1, <2>2 DEF PhaseInv
  <2> QED
    BY <1>2, <2>1, <2>3
<1>9. CASE Stands
  <2>1. PhaseInv'
    BY <1>1, <1>9 DEF Stands, PhaseInv, Limiter!vars
  <2> QED
    BY <1>2, <1>9, <2>1 DEF Stands
<1> QED
  BY <1>4, <1>5, <1>6, <1>7, <1>8, <1>9, RouterSteps DEF Turns

\* It holds throughout.
LEMMA RouterInvHolds == Spec => []RouterInv
<1>1. Init => RouterInv
  <2> SUFFICES ASSUME Init PROVE RouterInv
    OBVIOUS
  <2>1. Limiter!Init
    BY DEF Init, Sem!Init, Limiter!Init
  <2>2. Limiter!CoreInv
    BY <2>1, LimiterAssumption, Limiter!InitSemInv DEF Limiter!SemInv
  <2>3. PhaseInv
    BY DEF Init, Sem!Init, PhaseInv, Phases
  <2> QED
    BY <2>2, <2>3 DEF RouterInv
<1>2. RouterInv /\ [Next]_vars => RouterInv'
  BY RouterNext
<1> QED
  BY <1>1, <1>2, PTL DEF Spec

\* The permits counted out are those of the attempts at work, whatever fails
\* over, is cancelled or breaks: they drift apart only where a streamed call
\* cannot be opened, and where a permit goes to a waiter that has left
\* (sendChatRequest, sendChatRequestStreaming).
THEOREM PermitsMatch == Spec => PermitsMatchAttempts
<1> DEFINE Matched ==
             inFlight' - Cardinality(AtWork') # inFlight - Cardinality(AtWork) =>
             \/ \E r \in Streams : /\ phase[r] = "acquiring" /\ phase'[r] = "settled"
                                   /\ outcome'[r] = "fatal"
             \/ NextWaiterHasLeft /\ inFlight' = inFlight
<1>1. \A S : Limiter!Cardinality(S) = Cardinality(S)
  BY DEF Limiter!Cardinality, Cardinality
<1>2. RouterInv /\ [Next]_vars => Matched
  <2> SUFFICES ASSUME RouterInv, [Next]_vars PROVE Matched
    OBVIOUS
  <2>1. RouterInv'
    BY RouterNext
  <2>2. AtWork = Limiter!Holding /\ AtWork' = Limiter!Holding'
    BY <2>1 DEF RouterInv, PhaseInv, AtWork, Limiter!Holding
  <2>3. CASE Limiter!Drift' = Limiter!Drift
    BY <1>1, <2>2, <2>3 DEF Limiter!Drift
  <2>4. CASE \E r \in Requests : Drops(r, "settled") /\ phase'[r] = "settled"
    BY <2>4 DEF Drops
  <2>5. CASE Limiter!FirstInLineLeft /\ inFlight' = inFlight
    <3>1. NextWaiterHasLeft
      BY <2>5 DEF Limiter!FirstInLineLeft, NextWaiterHasLeft, Limiter!Occupied, Sem!Occupied
    <3> QED
      BY <2>5, <3>1
  <2> QED
    BY <2>3, <2>4, <2>5, RouterNext DEF Together
<1> QED
  BY <1>2, RouterInvHolds, PTL DEF Spec, PermitsMatchAttempts, Matched
=============================================================================
