----------------------------- MODULE BreakerLoad -----------------------------
(***************************************************************************)
(* The circuit breaker under upstream attempts that overlap: between the   *)
(* `allow` that admits an attempt and the report that ends it the upstream *)
(* call is awaited (packages/router/src/router.ts), and any other attempt  *)
(* may report in between.                                                  *)
(***************************************************************************)
EXTENDS CircuitBreaker, FiniteSets

CONSTANTS
  Attempts,   \* upstream attempts that may be in flight at once
  Mute,       \* the providers whose attempts may end with no report
  NoProvider  \* what an attempt that is not in flight calls

ASSUME LoadAssumption ==
  /\ NoProvider \notin Providers
  /\ Mute \subseteq Providers

VARIABLES
  byProvider, \* provider -> entry
  callee,    \* attempt -> the provider it is calling, or NoProvider
  probeAge   \* provider -> ticks since its last probe, up to Cooldown

loadVars == <<byProvider, callee, probeAge>>

InFlight(p) == {a \in Attempts : callee[a] = p}

LoadInit ==
  /\ byProvider = NoCircuit
  /\ callee = [a \in Attempts |-> NoProvider]
  /\ probeAge = [p \in Providers |-> Cooldown]

\* The failover loop reaches a provider the breaker permits: the call goes out.
Begin(a, p) ==
  /\ callee[a] = NoProvider
  /\ Permits(byProvider[p])
  /\ byProvider' = [byProvider EXCEPT ![p] = Admitted(@)]
  /\ callee' = [callee EXCEPT ![a] = p]
  /\ probeAge' = IF AsProbe(byProvider[p]) THEN [probeAge EXCEPT ![p] = 0] ELSE probeAge

Leave(a) ==
  /\ callee[a] # NoProvider
  /\ callee' = [callee EXCEPT ![a] = NoProvider]
  /\ UNCHANGED probeAge

Succeed(a) ==
  /\ Leave(a)
  /\ byProvider' = [byProvider EXCEPT ![callee[a]] = onSuccess(@)]

FailTransiently(a) ==
  /\ Leave(a)
  /\ byProvider' = [byProvider EXCEPT ![callee[a]] = onTransientFailure(@)]

\* The attempt ends and the breaker hears nothing of it: an error that does not
\* fail over, a client abort, a failure after the first chunk.
EndSilently(a) ==
  /\ callee[a] \in Mute
  /\ Leave(a)
  /\ UNCHANGED byProvider

End(a) == Succeed(a) \/ FailTransiently(a) \/ EndSilently(a)

TimePasses ==
  /\ byProvider' = [p \in Providers |-> Older(byProvider[p])]
  /\ probeAge' = [p \in Providers |->
                    IF probeAge[p] < Cooldown THEN probeAge[p] + 1 ELSE probeAge[p]]
  /\ UNCHANGED callee

LoadNext ==
  \/ \E a \in Attempts, p \in Providers : Begin(a, p)
  \/ \E a \in Attempts : End(a)
  \/ TimePasses

LoadSpec == LoadInit /\ [][LoadNext]_loadVars

\* Time passes, an attempt ends (its transport times out), and requests keep
\* coming for every provider, so one meets the breaker whenever it permits.
LoadFairness ==
  /\ WF_loadVars(TimePasses)
  /\ \A a \in Attempts : WF_loadVars(End(a))
  /\ \A p \in Providers : SF_loadVars(\E a \in Attempts : Begin(a, p))

FairLoadSpec == LoadSpec /\ LoadFairness

-----------------------------------------------------------------------------
(* Properties                                                              *)

LoadTypeOK ==
  /\ byProvider \in Circuits
  /\ callee \in [Attempts -> Providers \cup {NoProvider}]
  /\ probeAge \in [Providers -> 0..Cooldown]

\* The breaker owes no probe and forgets none: a half-open circuit has its
\* probe spent, and an open one has not been open for longer than the last
\* probe is ago, so the next probe waits for that one's cooldown as well.
ProbeAccounted ==
  \A p \in Providers :
    /\ byProvider[p].mode = "half_open" <=> byProvider[p].probeUsed
    /\ byProvider[p].mode = "open" => byProvider[p].sinceOpen <= probeAge[p]

\* A provider that is failing sees at most one probe per cooldown, whatever
\* late answers of earlier attempts close or reopen its circuit in between.
ProbesACooldownApart ==
  [][\A p \in Providers :
       (AsProbe(byProvider[p]) /\ InFlight(p)' \ InFlight(p) # {})
          => probeAge[p] = Cooldown]_loadVars

\* While a provider cools down, no failure report and no request lets a call
\* through: its circuit is left for its probe when the cooldown is over, or
\* for a success that an earlier call brings home.
OpenLeftByProbeOrSuccess ==
  [][\A p \in Providers :
       (byProvider[p].mode = "open" /\ byProvider'[p].mode # "open") =>
          \/ byProvider'[p] = HalfOpen /\ byProvider[p].sinceOpen = Cooldown
          \/ byProvider'[p] = Closed(0) /\ \E a \in InFlight(p) : Succeed(a)]_loadVars

Resolves(p) == (byProvider[p].mode = "half_open") ~> (byProvider[p].mode # "half_open")

\* Whatever is reported late or out of turn, a half-open circuit does not stay
\* half open where every attempt reports.
HalfOpenResolves == \A p \in Providers \ Mute : Resolves(p)

\* The comment of the class: "Probe success -> closed and the streak resets;
\* probe failure -> open again".  Every probe decides its circuit.
EveryProbeDecides == \A p \in Providers : Resolves(p)
=============================================================================
