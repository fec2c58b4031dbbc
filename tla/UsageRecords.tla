---------------------------- MODULE UsageRecords ----------------------------
(***************************************************************************)
(* What is left of the calls once they are over: the events the router     *)
(* emits along a chat or a stream (router.ts, emit), the recorder that     *)
(* swallows its own faults (runtime.ts), and the two usage tables with     *)
(* their bounded retention (telemetry/src/repository.ts).                  *)
(*                                                                         *)
(* The control of the failover loop is that of router.ts seen by its       *)
(* events; why an attempt fails or a candidate is skipped is ChatRouter's. *)
(* A block of events is emitted without an await, so no other call runs    *)
(* in its midst; the process may die between two of its statements, which  *)
(* are transactions of their own.  Providers are numbered in the order a   *)
(* turn tries them.  An event carries the time at which it is recorded, so *)
(* the window of normalizeTimestamp never rejects it; its latency and its  *)
(* count of attempts may be out of range, and then it is dropped.          *)
(***************************************************************************)
EXTENDS Integers, Sequences, FiniteSets, FiniteSetsExt

CONSTANTS
  Calls, Streams,    \* calls of clients, and those of them that stream
  Ids,               \* request ids, in their order as text
  RequestRetention,  \* newest requests kept
  AttemptRetention,  \* newest attempts kept
  Reports,           \* the token counts an upstream may report
  MaxAttempts,       \* attempts an event may count (MAX_ATTEMPTS)
  MaxEligible,       \* bound of the model: candidates of a turn
  MaxTurns,          \* MAX_DISPATCH_TURNS of the tool loop
  MaxWork,           \* bound of the model: turns of all the calls
  MaxTime,           \* bound of the model: times the clock may show
  MaxUpsets          \* bound of the model: failed writes, crashes and purges

ASSUME UsageAssumption ==
  /\ Streams \subseteq Calls /\ Ids \subseteq Nat
  /\ {RequestRetention, AttemptRetention} \subseteq {n \in Nat : 1 <= n /\ n <= 1000000}
  /\ Reports \subseteq SUBSET {"prompt", "completion", "cached"}
  /\ {MaxAttempts, MaxEligible, MaxTurns, MaxWork, MaxTime, MaxUpsets} \subseteq Nat

VARIABLES
  requests,  \* usage_requests: at most one row of an id
  attempts,  \* usage_attempts
  serial,    \* the last id AUTOINCREMENT has given to an attempt
  call,      \* call[c]: where a call stands
  out,       \* the events of a block that are still to be recorded
  upsets,    \* failed writes, crashes and purges so far
  life,      \* history, of each id: "new", "used" by one turn, or "spoilt"
  ended,     \* history: [id, at] of each last record of a request since a purge
  gone,      \* history: the newest attempt that retention has deleted, if any
  turnedBack \* history: a record has replaced one with a later time

vars == <<requests, attempts, serial, call, out, upsets, life, ended, gone,
          turnedBack>>
tables == <<requests, attempts, serial, ended, gone, turnedBack>>

\* What the variables range over.
Times == 0..MaxTime
Modes == {"direct", "combo", "failover"}
Kinds == {"provider.attempted", "provider.failed", "failover.started",
          "request.completed", "request.failed"}
Counts == {"prompt", "completion", "cached"}
Events == [kind : Kinds, id : Ids, provider : Nat, mode : Modes, attempts : Nat,
           reports : SUBSET Counts]
RequestRows == [id : Ids, at : Times, provider : Nat, mode : Modes,
                outcome : {"ok", "failed"}, attempts : Nat, reports : SUBSET Counts]
AttemptRows == [serial : Nat, id : Ids, at : Times, provider : Nat,
                outcome : {"ok", "failed"}]
CallStates == [step : {"idle", "routing", "trying", "streaming", "over"}, id : Ids \cup {0},
               turn : Nat, eligible : Nat, next : Nat, tried : Nat]

TypeOK ==
  /\ requests \subseteq RequestRows /\ attempts \subseteq AttemptRows
  /\ serial \in Nat /\ upsets \in 0..MaxUpsets
  /\ call \in [Calls -> CallStates]
  /\ out \in Seq(Events)
  /\ life \in [Ids -> {"new", "used", "spoilt"}]
  /\ ended \subseteq [id : Ids, at : Times]
  /\ gone \subseteq AttemptRows
  /\ turnedBack \in BOOLEAN

NoCall == [step |-> "idle", id |-> 0, turn |-> 0,
           eligible |-> 0, next |-> 1, tried |-> 0]

Init ==
  /\ requests = {} /\ attempts = {} /\ serial = 0
  /\ call = [c \in Calls |-> NoCall]
  /\ out = <<>>
  /\ upsets = 0
  /\ life = [i \in Ids |-> "new"]
  /\ ended = {} /\ gone = {} /\ turnedBack = FALSE

-----------------------------------------------------------------------------
(* The repository                                                          *)

\* The column each table is pruned by: the serial of an attempt, the id of a request.
Key(r) == IF "serial" \in DOMAIN r THEN r.serial ELSE r.id

\* ORDER BY occurred_at DESC, key DESC
Later(r, s) == r.at > s.at \/ (r.at = s.at /\ Key(r) > Key(s))

\* For mutation: the order is ascending.
PruneAscending(rows, keep) ==
  {r \in rows : Cardinality({s \in rows : Later(r, s)}) < keep}

\* The newest rows of a table.
Prune(rows, keep) == {r \in rows : Cardinality({s \in rows : Later(s, r)}) < keep}

RequestRow(e, now) ==
  [id |-> e.id, at |-> now, provider |-> e.provider, mode |-> e.mode,
   outcome |-> IF e.kind = "request.completed" THEN "ok" ELSE "failed",
   attempts |-> e.attempts, reports |-> e.reports]

\* ON CONFLICT(request_id) DO UPDATE: the row of an id is replaced whole.
Upsert(row) == {r \in requests : r.id # row.id} \union {row}

RecordRequest(e, now, pruned) ==
  LET rows == Upsert(RequestRow(e, now))
  IN  /\ requests' = IF pruned THEN Prune(rows, RequestRetention) ELSE rows
      /\ ended' = {f \in ended : f.id # e.id} \union {[id |-> e.id, at |-> now]}
      /\ turnedBack' = (turnedBack \/ \E f \in ended : f.id = e.id /\ f.at > now)
      /\ UNCHANGED <<attempts, serial, gone>>

RecordAttempt(e, now, pruned) ==
  LET row == [serial |-> serial + 1, id |-> e.id, at |-> now, provider |-> e.provider,
              outcome |-> IF e.kind = "provider.failed" THEN "failed" ELSE "ok"]
      rows == attempts \union {row}
      dead == gone \union (rows \ attempts')
  IN  /\ attempts' = IF pruned THEN Prune(rows, AttemptRetention) ELSE rows
      /\ serial' = serial + 1
      /\ gone' = {a \in dead : \A b \in dead \ {a} : Later(a, b)}
      /\ UNCHANGED <<requests, ended, turnedBack>>

\* For mutation: the marker of a failover is stored like the attempt it names.
RecordMarker(e, now, pruned) ==
  IF e.kind \in {"request.completed", "request.failed"}
  THEN RecordRequest(e, now, pruned)
  ELSE RecordAttempt(e, now, pruned)

\* repository.record: the marker of a failover is not stored.
Record(e, now, pruned) ==
  CASE e.kind \in {"request.completed", "request.failed"} -> RecordRequest(e, now, pruned)
    [] e.kind = "failover.started" -> UNCHANGED tables
    [] OTHER -> RecordAttempt(e, now, pruned)

-----------------------------------------------------------------------------
(* The recorder                                                            *)

Spoil(ids) == life' = [i \in Ids |-> IF i \in ids THEN "spoilt" ELSE life[i]]

\* The next event of the block is recorded; each statement of it may fail, and
\* the recorder swallows what it throws.  The clock is read here, and may have
\* been set back.
EmitNext ==
  /\ out # <<>>
  /\ out' = Tail(out)
  /\ \/ /\ \E now \in 0..MaxTime : Record(Head(out), now, TRUE)
        /\ UNCHANGED <<upsets, life>>
     \/ /\ upsets < MaxUpsets /\ upsets' = upsets + 1
        /\ Head(out).kind # "failover.started"
        /\ \/ (\E now \in 0..MaxTime : Record(Head(out), now, FALSE)) /\ UNCHANGED life
           \/ UNCHANGED tables /\ Spoil({Head(out).id})
  /\ UNCHANGED call

\* DELETE /api/usage/requests: two statements, of which the second may fail.
Purge ==
  /\ out = <<>>
  /\ upsets < MaxUpsets /\ upsets' = upsets + 1
  /\ requests' = {} /\ ended' = {} /\ turnedBack' = FALSE
  /\ \/ attempts' = {} /\ gone' = {}
     \/ UNCHANGED <<attempts, gone>>
  /\ Spoil({i \in Ids : life[i] # "new"})
  /\ UNCHANGED <<serial, call, out>>

-----------------------------------------------------------------------------
(* The router, by its events                                               *)

BaseMode(c) == IF call[c].eligible >= 2 THEN "combo" ELSE "direct"
Mode(c) == IF call[c].tried > 1 THEN "failover" ELSE BaseMode(c)

Event(c, kind, provider, mode, reports) ==
  [kind |-> kind, id |-> call[c].id, provider |-> provider, mode |-> mode,
   attempts |-> call[c].tried, reports |-> reports]

\* An event about the candidate of the moment.
Of(c, kind) == Event(c, kind, call[c].next, Mode(c), {})

\* The handoff to another provider is named before its attempt.
Opened(c) ==
  (IF call[c].tried > 1 THEN <<Of(c, "failover.started")>> ELSE <<>>)
  \o <<Of(c, "provider.attempted")>>

Completed(c, reports) == Event(c, "request.completed", call[c].next, Mode(c), reports)

\* normalizeUsageEvent drops an event that counts too many attempts.
Normalized(c, events) == IF call[c].tried > MaxAttempts THEN <<>> ELSE events

\* It drops one with a negative latency, too, or with one of over a day: of an
\* attempt during which the clock was set back, or far forward.  A block has one
\* latency, so it goes or stays whole.
Emits(c, events) ==
  /\ out = <<>>
  /\ out' \in {Normalized(c, events), <<>>}

\* An id of which a block was dropped is not accounted for any more.
Accounts(c) ==
  life' = IF out' = <<>> THEN [life EXCEPT ![call[c].id] = "spoilt"] ELSE life

\* The call goes on from here; one that is over forgets its candidates.
Goes(c, step) == call' = [call EXCEPT ![c].step = step]
Over(c) == [NoCall EXCEPT !.step = "over", !.id = call[c].id, !.turn = call[c].turn]
Ends(c) == call' = [call EXCEPT ![c] = Over(c)]

\* A turn: candidates are resolved, and those that may not be used filtered out.
BeginTurn(c, id, turn) ==
  /\ MapThenSumSet(LAMBDA d : call[d].turn, Calls) < MaxWork
  /\ \E n \in 0..MaxEligible :
       call' = [call EXCEPT ![c] = [step |-> "routing", id |-> id, turn |-> turn,
                                    eligible |-> n, next |-> 1, tried |-> 0]]
  /\ life' = [life EXCEPT ![id] = IF life[id] = "new" THEN "used" ELSE "spoilt"]

\* A client calls, under an id of its own or one it was given: an id may come
\* twice, even at the same time.
Begin(c) ==
  /\ call[c].step = "idle" /\ out = <<>>
  /\ \E id \in Ids : BeginTurn(c, id, 1)
  /\ UNCHANGED <<tables, out, upsets>>

\* The candidates that may be reached from here: those before a disabled provider
\* or an open circuit are skipped without an event.
Reachable(c) == call[c].next..call[c].eligible

Routing(c) ==
  /\ call[c].step = "routing" /\ out = <<>>
  /\ UNCHANGED <<tables, upsets>>

Try(c) ==
  /\ Routing(c)
  /\ \E n \in Reachable(c) :
       call' = [call EXCEPT ![c].step = "trying", ![c].next = n, ![c].tried = @ + 1]
  /\ UNCHANGED <<out, life>>

\* A candidate that is not free any more ends the call; the event has latency 0.
NotFree(c) ==
  /\ Routing(c)
  /\ Reachable(c) # {}
  /\ out' = Normalized(c,
       <<Event(c, "request.failed", 0,
               IF call[c].tried > 0 THEN "failover" ELSE BaseMode(c), {})>>)
  /\ Ends(c)
  /\ Accounts(c)

\* No candidate is left, or there was none; the event has latency 0.
GiveUp(c) ==
  /\ Routing(c)
  /\ out' = Normalized(c, <<Event(c, "request.failed", 0, Mode(c), {})>>)
  /\ Ends(c)
  /\ Accounts(c)

Trying(c) ==
  /\ call[c].step = "trying"
  /\ UNCHANGED <<tables, upsets>>

\* A failure that goes to the next candidate.
FailOver(c) ==
  /\ Trying(c)
  /\ Emits(c, <<Of(c, "provider.failed")>>)
  /\ call' = [call EXCEPT ![c].step = "routing", ![c].next = @ + 1]
  /\ Accounts(c)

\* A failure that surfaces, and the abort of a stream that is opening.
FailFatally(c) ==
  /\ Trying(c)
  /\ Emits(c, <<Of(c, "provider.failed"), Of(c, "request.failed")>>)
  /\ Ends(c)
  /\ Accounts(c)

\* A buffered answer; with calls of registered tools in it, the loop of the
\* server makes another turn under the same id.
Answer(c) ==
  /\ Trying(c) /\ c \notin Streams
  /\ \E reports \in Reports : Emits(c, Opened(c) \o <<Completed(c, reports)>>)
  /\ \/ Ends(c) /\ Accounts(c)
     \/ call[c].turn < MaxTurns /\ BeginTurn(c, call[c].id, call[c].turn + 1)

\* The first chunk of a stream.
OpenStream(c) ==
  /\ Trying(c) /\ c \in Streams
  /\ Emits(c, Opened(c))
  /\ Goes(c, "streaming")
  /\ Accounts(c)

\* The stream ends, or fails after its first chunk.
EndStream(c) ==
  /\ call[c].step = "streaming"
  /\ \/ \E reports \in Reports : Emits(c, <<Completed(c, reports)>>)
     \/ Emits(c, <<Of(c, "request.failed")>>)
  /\ Ends(c)
  /\ Accounts(c)
  /\ UNCHANGED <<tables, upsets>>

\* The consumer returns the generator where it waits: no event follows.
LeaveStream(c) ==
  /\ call[c].step = "streaming" /\ out = <<>>
  /\ Ends(c)
  /\ Spoil({call[c].id})
  /\ UNCHANGED <<tables, out, upsets>>

\* The server dies, between two blocks or within one; what is committed stays.
Crash ==
  LET cut == {c \in Calls : call[c].step \in {"routing", "trying", "streaming"}}
  IN  /\ cut # {} \/ out # <<>>
      /\ upsets < MaxUpsets /\ upsets' = upsets + 1
      /\ out' = <<>>
      /\ call' = [c \in Calls |-> IF c \in cut THEN Over(c) ELSE call[c]]
      /\ Spoil({call[c].id : c \in cut} \union {out[i].id : i \in DOMAIN out})
      /\ UNCHANGED tables

Next ==
  \/ \E c \in Calls :
       \/ Begin(c) \/ Try(c) \/ NotFree(c) \/ GiveUp(c)
       \/ FailOver(c) \/ FailFatally(c) \/ Answer(c)
       \/ OpenStream(c) \/ EndStream(c) \/ LeaveStream(c)
  \/ EmitNext
  \/ Purge
  \/ Crash

Spec == Init /\ [][Next]_vars

-----------------------------------------------------------------------------

\* A request row agrees with the attempts of its id: as many rows as it counts,
\* none of them ok but that of the provider it names, and a failover where there
\* was more than one; and a call that is over has been recorded.  (Of an id that
\* one turn has used, as long as retention has deleted no attempt, when no write
\* was lost, nobody left and no event was dropped for its latency or its count:
\* record in repository.ts, the emits of router.ts.  It does not hold of an id
\* with a dropped event: CountIsRows.)
TablesAgree ==
  gone = {} =>
    /\ \A r \in requests : life[r.id] = "used" =>
         LET rows == {a \in attempts : a.id = r.id}
             good == {a \in rows : a.outcome = "ok"}
         IN  /\ Cardinality(rows) = r.attempts
             /\ Cardinality(good) <= 1
             /\ \A a \in good : a.provider = r.provider
             /\ r.outcome = "ok" => good # {}
             /\ r.attempts > 1 => r.mode = "failover"
    /\ \A c \in Calls :
         call[c].step = "over" /\ life[call[c].id] = "used" /\ out = <<>>
         => \E f \in ended : f.id = call[c].id

\* Retention forgets nothing but what is older than all it keeps: a record that
\* is missing has as many newer ones in its table as are kept, whatever the
\* clock does, and a table is too long by no more rows than prunes have failed.
\* (A request recorded again with an earlier time may let newer ones go.)
NewestKept ==
  /\ \A a \in gone :
       Cardinality({b \in attempts : Later(b, a)}) >= AttemptRetention
  /\ ~turnedBack =>
       \A f \in ended : (\E r \in requests : r.id = f.id) \/
         Cardinality({r \in requests : Later(r, f)}) >= RequestRetention
  /\ Cardinality(attempts) <= AttemptRetention + upsets
  /\ Cardinality(requests) <= RequestRetention + upsets

\* Too much to ask: a request row counts the attempts that are kept of it even
\* when the clock was set back during one of them.  The event of that attempt is
\* dropped, and the row that gives up, with latency 0, counts it.
CountIsRows ==
  \A r \in requests :
    r.attempts = Cardinality({a \in attempts : a.id = r.id})

-----------------------------------------------------------------------------
(* What the operator reads                                                 *)

\* summarize over all that is kept, each report counting one token.
TokenReports == Cardinality({r \in requests : "prompt" \in r.reports})
Summary(count) ==
  IF TokenReports = 0 THEN "undefined"
  ELSE IF \E r \in requests : count \in r.reports THEN "a sum" ELSE "zero"

\* "Undefined when no request reported a count; never silently 0"
\* (repository.ts:62).
NeverSilentlyZero ==
  \A count \in {"prompt", "completion", "cached"} :
    /\ Summary(count) # "zero"
    /\ Summary(count) = "undefined" => \A r \in requests : count \notin r.reports
=============================================================================
