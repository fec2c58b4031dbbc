--------------------------- MODULE CircuitBreaker ---------------------------
(***************************************************************************)
(* The class CircuitBreaker of packages/router/src/circuit.ts, as          *)
(* operators on the entry its map keeps for one provider.  The methods are *)
(* synchronous, so a module that drives them applies each in one step.     *)
(*                                                                         *)
(* The clock is abstracted to the ticks since openedAt, counted up to the  *)
(* cooldown: `allow` compares nothing else.                                *)
(***************************************************************************)
EXTENDS Integers

CONSTANTS
  Providers,  \* provider ids, the keys of the map
  Threshold,  \* transient failures in a row that open the circuit
  Cooldown    \* ticks the circuit stays open

ASSUME BreakerAssumption ==
  /\ Threshold \in Nat \ {0}
  /\ Cooldown \in Nat

\* "unseen": the map has no entry.  The fields of the other states are kept
\* at 0 or FALSE where the entry does not carry them.
Entry == [mode : {"unseen", "closed", "open", "half_open"},
          streak : 0..(Threshold - 1),
          sinceOpen : 0..Cooldown,
          probeUsed : BOOLEAN]

EntryOf(mode, streak, probeUsed) ==
  [mode |-> mode, streak |-> streak, sinceOpen |-> 0, probeUsed |-> probeUsed]

Unseen == EntryOf("unseen", 0, FALSE)
Closed(streak) == EntryOf("closed", streak, FALSE)
Opened == EntryOf("open", 0, FALSE)
HalfOpen == EntryOf("half_open", 0, TRUE)

\* The map as it may be, and as the class is made.
Circuits == [Providers -> Entry]
NoCircuit == [p \in Providers |-> Unseen]

\* For mutation: a half-open circuit lets every call through.
PermitsAnyHalfOpen(e) ==
  \/ e.mode \in {"unseen", "closed", "half_open"}
  \/ e.mode = "open" /\ e.sinceOpen >= Cooldown

\* What `allow` answers.
Permits(e) ==
  \/ e.mode \in {"unseen", "closed"}
  \/ e.mode = "half_open" /\ ~e.probeUsed
  \/ e.mode = "open" /\ e.sinceOpen >= Cooldown

\* Whether the call `allow` lets through is a probe of a failing provider.
AsProbe(e) == e.mode \in {"open", "half_open"}

\* What `allow` leaves behind when it answers yes; answering no changes nothing.
Admitted(e) ==
  CASE e.mode = "unseen" -> Closed(0)
    [] e.mode = "closed" -> e
    [] e.mode = "half_open" -> [e EXCEPT !.probeUsed = TRUE]
    [] e.mode = "open" -> HalfOpen

onSuccess(e) == Closed(0)

\* For mutation: the threshold is off by one.
FailureCountedLate(e) ==
  IF e.mode \in {"open", "half_open"} \/ e.streak >= Threshold
  THEN Opened
  ELSE Closed(e.streak + 1)

\* For mutation: a failure while open starts a new streak.
FailureForgetsOpen(e) ==
  IF e.mode = "half_open" \/ e.streak + 1 >= Threshold
  THEN Opened
  ELSE Closed(e.streak + 1)

\* For mutation: a failed probe leaves the circuit half open.
FailureKeepsHalfOpen(e) ==
  CASE e.mode = "half_open" -> e
    [] e.mode = "open" -> Opened
    [] OTHER -> IF e.streak + 1 >= Threshold THEN Opened ELSE Closed(e.streak + 1)

onTransientFailure(e) ==
  IF e.mode \in {"open", "half_open"} \/ e.streak + 1 >= Threshold
  THEN Opened
  ELSE Closed(e.streak + 1)

\* One tick of the clock.
Older(e) ==
  IF e.mode = "open" /\ e.sinceOpen < Cooldown
  THEN [e EXCEPT !.sinceOpen = @ + 1] ELSE e
=============================================================================
