# GOATRouter: specification, model checking, proofs

TLA+ models of the core of GOATRouter (packages called `@bayz/*` in the
source), the TLC runs that check them and the theorems TLAPS proves about them.
Paths are relative to the repository; `PROJECT.json` maps each definition to
the lines it models.

## 1. The system

GOATRouter is one Node process on the operator's machine. Clients send it
OpenAI-style chat requests; it picks an upstream provider by route, adds the
stored credential, sends the request, directly or through a proxy, and fails
over to the next candidate when an upstream is unavailable. Everything runs on
one event loop, so code between two `await`s is atomic; what interleaves is the
order in which requests, socket events, timers and aborts reach it. The data
directory (SQLite and a key file) outlives the process.

| component | state | operations | interacts with |
|---|---|---|---|
| outbound limiter, `router/src/concurrency.ts` | permits out, waiter array, count of occupied slots | `acquire`, release closure, `pump`, abort listener | transport takes a permit per attempt |
| circuit breaker, `router/src/circuit.ts` | one entry per provider | `allow`, `onSuccess`, `onTransientFailure` | failover loop asks and reports |
| failover loop, `router/src/router.ts`, `selection.ts` | locals of a request: candidates, position, last failure | `chat`, `chatStream` | breaker, transport, providers, telemetry |
| transport, `router/src/transport.ts`, `sse.ts`, `chunk.ts` | socket, chunk queue, timers | `sendChatRequest`, `sendChatRequestStreaming` | limiter, proxies, abort signal of the client |
| route repository, validation | SQLite rows | CRUD, parsers | failover loop |
| secret store, `storage/src/secret-repository.ts`, `key-provider.ts` | key file, staging slot, `active_key_id`, wrapped rows, key in memory | open, put, get, delete, `rotateManagedRootKey`, close | every credential |
| storage engine | schema version, migration ledger, witness, configuration HMAC | open, migrate, verify, seal | secret store |
| scoped secrets, portable import, security audit | rows | put, import, record | secret store |
| providers | rows, credentials, model catalogue | CRUD, discovery, `withCredential` | router, secret store |
| proxies | rows, credentials; per dial a handshake reader | CRUD, dial (SOCKS5, CONNECT) | transport |
| identities | rows, keys, audit | create, rotate, revoke, delete, verify | request guard |
| tool dispatch, `capability`, `server/src/tool-loop.ts` | registry, turns | register, dispatch, loop | router |
| telemetry | usage rows | record, prune, query | router |
| request guard and signing, `server/src/auth.ts`, `signing.ts` | windows, in-flight count, nonce cache | hooks | every request |
| server routes, runtime, self-update | wiring; installed version | HTTP handlers, update, roll-back | all |
| dashboard | browser state | polling, rendering | HTTP |
| scripts | pid file, archives | start, stop, backup, restore | the process and its directory |

What is hard in it: array positions that go stale across shifts (limiter);
answers that come back after the breaker changed state; a decision read before
an `await` and used after it (free-only, discovery); a permit on every path of an
attempt; the point after which a stream cannot be retried; events of a socket,
two timers, an abort and a slow reader that meet in one queue; bounded caches
that must not forget too early (nonces, rate counters); two stores that must
move together through crashes (key file and database, row and secret, counter and
witness); processes that share files, a port and signals (servers and
commands). `PROJECT.json` lists every such hazard at its line with the properties
that cover it, or the reason none does.

What makes each component correct, in a sentence: the limiter never exceeds its
cap, loses no permit and answers every waiter in order; the breaker sends one
probe per cooldown and forgets none; the loop answers every request, masks no
deterministic failure, retries nothing that has been committed and sends a
free-only route to free providers only; a stream is called complete only when
it is, and gives back what it holds; the guard counts what it admits and accepts
a signed message once; no record refers to what is gone, no secret is
left without an owner and no key that is over works again; the secret store can always open what it has written; the
directory survives stops, kills, upgrades, backups and restores without losing
what was committed, and every integrity verdict has its cause.

## 2. Modules

| module | models |
|---|---|
| `Semaphore` | `createSemaphore`. `waiters` is the array with its vacated slots (`Nobody`), `listener` the position each abort listener remembers, `status` the state of each caller's promise and release closure. One action per entry point; `Pump` is part of `Release`, as in the code. |
| `AbstractSemaphore` | What the limiter promises: a set of holders, a line, and a returned permit that goes to the head of the line. A specification, not code: nothing of it is in the map. |
| `CircuitBreaker` | The methods of the breaker as operators on one entry. `Permits` and `Admitted` are the answer of `allow` and its side effect. |
| `BreakerLoad` | The breaker under attempts that overlap, each ending in a success, a transient failure or without a report. |
| `ChatRouter` | `chat` and `chatStream` with the attempt in `transport.ts`. Uses `CircuitBreaker` and `INSTANCE Semaphore`, one caller per request. |
| `RootKeyRotation` | Opening, using, closing and rotating the secret store; file operations and transactions are single steps, a crash falls between any two. |
| `StreamTransport` | One streamed call from the provider's socket to the client: `sendChatRequestStreaming` with `ChunkQueue`, `SseLineReader`, `serveStream`. One action per callback of the socket, the timers, the abort signal and the consumer. |
| `ProxyDial` | One dial through a proxy: `dial.ts`, the SOCKS5 and CONNECT dialogues as the reads they make, `HandshakeReader`. Bytes are counted, not kept. |
| `ProxiedStream` | `StreamTransport` over a connection that is opened directly or by `INSTANCE ProxyDial`, as the agent of the request does it. |
| `UsageRecords` | The events of `chat`, `chatStream` and the tool loop, the recorder, and the two usage tables with their retention. |
| `RequestGuard` | The request's way through `auth.ts` (windows, in-flight cap), `signing.ts` (nonce cache) and `tool-loop.ts`, with clients that vanish, retry and send bodies late. |
| `ControlPlane` | What an administrator edits: providers, catalogues, proxies, routes, identities, and their secrets. An operation is one action with the places where the process may die as its alternatives. |
| `DataDirectory` | Servers and operator commands as processes over one directory: opening, integrity checks, close, kill; start, stop, restart, backup, restore step by step; releases and tampering beside them. |
| `*Proofs` | Theorems about the module of that name. `RouterProofs` holds those about `BreakerLoad` and `ChatRouter`, and uses those of `SemaphoreProofs` through `INSTANCE`; `StreamProofs` holds those about `ProxiedStream` with `StreamTransport` and `ProxyDial`; `SemaphoreProofs` and `RootKeyRotationProofs` build on the refinement mapping and the history variable of their `MC` modules. |
| `MC*` | Instances for TLC: routes, symmetry, refinement mapping. |

Definitions commented "For mutation" are faulty variants of the definition that
follows them; no specification uses them. `PROJECT.json` pairs each with the
property that detects it.

### Correspondence and abstractions

* **Semaphore.** Positions count from 1 (from 0 in the code). `Shifted` and
  `Handoffs` give in one step what the loop of `pump` does entry by entry. A
  caller asks again only when nothing of its last request is in the array:
  in the code every request is a caller of its own. `MaxSlots` bounds the array,
  which vacated slots may make longer than `QueueLimit`.
* **CircuitBreaker, BreakerLoad.** Names of `BreakerLoad` that `ChatRouter` has too
  begin with `Load`, so that `RouterProofs` can extend both. The clock is the number of ticks since `openedAt`, counted
  up to the cooldown; `allow` compares nothing else.
* **ChatRouter.** One step runs from one `await` to the next. `Arrive` and
  `Resume` contain the scan over the candidates with its gate and recheck;
  `Preflight` is a failure before the permit is asked for; `Acquire`,
  `OpenCall`/`OpenThrows`/`Rejected`, `EndCall`, `FirstChunk`, `EndStream` follow
  the attempt; `Cancel` is the client going away, handled by whichever listener
  is attached then. Candidates are the constant `Routes`, already sorted;
  requests differ in being buffered or streamed. Upstream outcomes are the five
  classes the code tells apart. `Depart` is no code: it frees the place of a
  request that is over, so that runs of any length fit in few places. A half-open
  circuit may lose its probe without a call (`Preflight`, `Rejected`), but not its
  report (`HalfOpenIsOwned`).
* **RootKeyRotation.** A key is the number at which it was generated and its own
  fingerprint, so fingerprints do not collide; the ciphers are ideal. `Recover`
  and `Promote` may fail, `DiscardStaged` may leave the slot and say nothing; a failing `beginRotation` leaves the slot truncated. A
  crash keeps what has been written. `MCRootKeyRotation` adds a history variable:
  whether the directory has been shared or a promotion has failed.
* **StreamTransport.** The provider's answer is a sequence of kinds of line chosen
  at the start; `Data(k)` is a read that brings `k` complete lines, `Cut`,
  `Strikes` and `PushedTo` say which of them the reader consumes and the queue
  gets; what is queued or read is the positions of chunk lines (`Chunks`). The byte
  caps are a cap on lines. `gen` is where the generator is
  suspended, `reply` what the client can tell of the outcome, `Window` the high-water
  mark of the response stream. `Leaves` in the limiter's queue may do nothing, as a
  listener does whose position shifts have made stale, and `Open` may then serve the
  departed client; `OpenThrows` is the throw between `acquire` and `try`. The
  failover between transport and route is not
  repeated here; the stream is the last attempt `ChatRouter` makes.
* **ProxyDial, ProxiedStream.** What the proxy answers is chosen at the start of a
  dial: the lengths of its parts and whether it agrees. A read of the dialogue is
  the byte of that answer at which it ends and whether it goes on. `Data(k)` is a chunk of any
  size; the dialogue runs on through all the reads it satisfies, since nothing else
  is awaited. `left` counts down the deadline in force, `elapsed` what the dial has
  taken, and `spare` is what `release` gives back to the socket, taken to reach its
  next reader. A dial knows nothing of its request: `node:http` lets it finish and
  destroys what it brings for a request that is gone. A refused credential or
  target, thrown before the first write, is `Broken` at once.
* **UsageRecords.** A block of events between two awaits is `out`; each is recorded
  by one step, insert and prune, of which either may fail. An event is stamped when
  it is recorded with any time of the clock, which may be set back. `life` and
  `ended` are history: how an id has been used, and the last record of each. Why an
  attempt fails is `ChatRouter`'s; failure categories and models are left out, and of
  a latency only whether it is in range. `normalizeUsageEvent` drops an event whose
  latency is not (negative, when the clock is set back during an attempt) or that
  counts too many attempts; a block has one latency and one count, so `Emits` drops it
  whole. `GiveUp` and `NotFree` report latency 0, which always passes.
* **RequestGuard.** Time is in ticks; a window and the skew are a few. A message is
  its place in `stamp`: its nonce, signature and timestamp belong together.
  `Vanish` is `onRequestAbort` and leaves the handler running, as the code does.
  A handler of a tool is one step that may refuse. Deployments without
  signatures skip the check and are not modelled, nor are requests that fail on
  Host or Origin before any state is touched.
* **ControlPlane.** The two statements of an operation, row and secret, are one
  action whose second alternative is a death between them: managers run
  synchronously, so nothing else can see the middle. A failing deletion of a
  secret, which managers ignore, is recorded in `survivors`. Foreign keys
  (`migrations.ts`) are part of the actions they fire in. Discovery is two
  actions, before and after its `await`; `fetching` keeps the endpoints that were
  asked, each for any number of overlapping discoveries. That a catalogue has a
  provider says nothing of which: a late answer reaches the provider as it has been
  edited, or as it was created anew (`DiscoveryIsCurrent`). An expired identity may be given a later
  expiry. Names, scopes, priorities and audit rows are left out.
* **DataDirectory.** The database has two images, the main file and the file with
  its log; a clean close of the last connection makes them equal. `rows` stands
  for the content of the configuration tables and `seal` for the HMAC over them;
  `past` and `behind` are history. A backup copies the main file as it is, and the witness beside it.
  A start is `spawned`, `open`, `checked`, `counted`, `witnessed`, `ready`, `up`; each
  step reads the directory again, and `in` tells whether the server's directory
  is still the one in place after a restore moved it. `MoveIn`, the second rename
  of a restore, is refused on a directory that a server has made again meanwhile,
  and the first is undone. SIGTERM before the handler is registered, and a second
  one, end the process. One command runs at a time. The posture gate and a missing key end a start like `Crash` does.

## 3. Runs

Passing runs:

| run | instance | question |
|---|---|---|
| `SemaphoreAbort` | 5 callers, all abortable; 2 permits, queue 2 | Do the cap, the counters and the order survive aborts that find stale positions? |
| `SemaphoreBuffered` | 5 callers without signals, fair | Is every waiter answered, and the abstract pool implemented? |
| `BreakerOverlap` | 2 providers, one of which may end attempts without a report; 3 attempts, threshold and cooldown 2, fair | Are probes a cooldown apart whatever comes back late, and does the provider whose attempts all report come back? |
| `RouterFailover` | a buffered request and an abortable stream, 1 permit, 2 providers, every end of a call, switching and repricing, fair | Do permits drift only where an open throws, deterministic failures surface, requests end; does the commit point hold, and has every probe an owner? |
| `RotationCrash` | 2 processes, one rotating, all faults, 2 secrets, 5 keys | Can the owner of a directory always open it, and is only the recorded key ever promoted? |
| `StreamDelivery` | every answer of up to 4 lines of 5 kinds, and one over the cap; window 2; direct, or through one of the proxies of `MCProxies`; deadline 3, fair | Is `[DONE]` sent for whole answers only, nothing overtaken or skipped, permit and socket given back unless the client stalls? Does a tunnel start at its first byte, and is a dial over in time? |
| `GuardReplay` | 2 connections from 2 addresses, 1 slot, 1 request per window of 2 ticks, skew 1, 4 nonces, 2 tool turns, fair | Are slots counted exactly, signed messages accepted once, bursts bounded, and does a tool only run if a turn is left for its result? |
| `ControlPlane` | 2 providers, 2 routes for one model, 1 proxy, 1 identity, 2 keys, 1 fault | Is a secret, a route or a catalogue ever left without the row it belongs to, or a dead key accepted? |
| `DataDirectory` | 2 servers alive, 2 releases, 3 opens, 1 change, 1 fault, 1 intervention, fair | Do commands find their server and end, are backups whole, replaced data kept, schemas known, and has every verdict on rollback or tampering a cause? |
| `UsageRecords` | a buffered call and a stream, 2 turns in all, 2 candidates each, 2 ids; 1 request and 3 attempts kept; 2 times; 1 upset | Does a request row agree with its attempts, and does retention forget only what is older than all it keeps? |

Runs that exhibit a disagreement between the code and what it says of itself:

| run | what it shows |
|---|---|
| `SemaphoreLostPermit` | After a shift, an abort listener looks at the wrong slot; the departed waiter keeps its place and takes a permit with it. |
| `DirectoryUpgradeRefused` | A database that an older release opened and recorded its migration chain in is migrated and then refused by the newer release: the record is compared with the chain of the new head and never rewritten. |

The following configurations reproduce further disagreements in the same way;
run `tlc -config <name>.cfg <module>` to see the behaviour. They are not among the
listed runs.

| configuration, module | what it shows |
|---|---|
| `BreakerStuckProbe`, `BreakerLoad` | A probe that ends without a report closes its provider for the life of the process. |
| `RouterOpenLeak`, `MCChatRouter` | A streamed open that throws loses its permit: it happens between `acquire` and `try`. |
| `RouterPaidCall`, `MCChatRouter` | The free-only recheck precedes the egress check and the wait for a permit: a provider repriced meanwhile is still called, though router.ts:406-407 says "never reaches a paid provider even once". |
| `RouterFalseTrip`, `MCChatRouter` | A full local queue counts as a failure of the provider. |
| `RotationFailedPromote`, `MCRootKeyRotation` | After a failed rename the next rotation destroys the only copy of the key. |
| `StreamLostContent`, `MCStreamTransport` | `SseLineReader.push` throws away the payloads of the same read when a later line of it is over a limit, although transport.ts:308-310 promises "the content that genuinely arrived". |
| `StreamUncoveredDial`, `MCStreamTransport` | A dial goes on after its request is destroyed and its permit returned: as many connections to proxies as clients that leave, whatever the cap of transport.ts:354-359. `DialIsBounded` says how long. |
| `UsageSilentZero`, `MCUsageRecords` | `summarize` decides by the reported prompt tokens alone whether counts are known: an answer that reports completion tokens only counts for nothing, and beside one reported prompt count the cached tokens, which no parser reads, are 0. repository.ts:62 says "Undefined when no request reported a count; never silently 0". |
| `UsageDroppedEvent`, `MCUsageRecords` | The clock is set back during an attempt that fails: `Date.now() - started` is negative, `normalizeUsageEvent` drops the event (events.ts:226-229), and the row of the request that gives up, with latency 0, counts an attempt that is in no table. |
| `ControlLateDiscovery`, `MCControlPlane` | The answer of a discovery is stored although its provider has another endpoint by then: the record is read before the `await` (providers/src/manager.ts:384) and not again. A provider deleted and created anew meanwhile gets the old one's catalogue in the same way. |
| `DirectoryFalseAlarm`, `DataDirectory` | Two servers are killed by the grace period of stop, so that their opens are in the log and in the witness only; a backup leaves the log out; the server that opens the restored directory reports a rollback nobody made. |
| `DirectoryInterrupted`, `DataDirectory` | A restore that is interrupted between its two renames leaves no directory; docs/backup-restore.md:94 says the original stays usable. |

(`RotationSecondOpener` is a smaller passing instance of the rotation with two processes.)

Disagreements that are visible in the models without a configuration of their own:

* The stale position of `SemaphoreLostPermit` also strands live waiters
  (`EveryWaiterAnswered` fails once a caller is cancellable) and lets a request
  that was cancelled in the queue be sent.
* With two processes `KeyNeverLost` fails: the second opener discards the slot of
  a rotation in progress (secret-repository.ts:271-274).
* `PasswordHasUser` of `ControlPlane` fails: a patch with `username: null` keeps the
  password that proxy/src/manager.ts:184-187 calls dead, misleading state.
* The local administration bypass does not touch the rate counter, while the
  comment at auth.ts:323 says it is still counted. A buffered request whose client
  leaves frees its slot while its handler goes on.
* A server that has changed rows and is killed leaves the configuration HMAC behind
  them, and the next open reports tampering (secret-repository.ts:552 seals on close
  only). `VerdictsHaveCause` allows this and the alarm of `DirectoryFalseAlarm`, and
  no other unless a start was given up.
* Putting back a database that is exactly one open old is not reported as a
  rollback (`opens < witnessed` after the increment; integrity.ts:234), and servers
  that die between counter and witness let an older one catch up.
* `waitForHealthWatching` looks for "Bayz Core ready" and for the pid separately
  in a log that is only appended to, and probes whoever answers the port: a start
  may be called healthy while another server answers ("Only that pid's own
  readiness counts", lifecycle-lib.mjs:195).
* A start that times out removes the pidfile of a child that is alive; later
  commands do not find it, and back up or replace a directory it has open. The
  properties of `DataDirectory` exempt what follows (`gaveUp`, `astray`).
* A stream whose total timeout has destroyed its socket keeps its permit for as
  long as its client neither reads nor leaves (`Stalled` in `StreamTransport`), though
  transport.ts:354-359 ties the permit to the socket. One whose client left the
  limiter's queue and was served all the same keeps it for good once a first chunk
  has come: its response stream is destroyed before it is read.
* A backup after a kill leaves the write-ahead log out, and the default archive
  lies in the data directory, so a restore with `--replace` removes the archive
  it came from.

* A stream whose client leaves while the generator waits at its `yield` leaves
  attempts and no request row. The turns of a tool loop share a request id, so the
  row of the last replaces the others: their tokens are lost, and so is a failover
  of an earlier turn, although repository.ts:247 says "The failover fact is not
  lost". A client that repeats its `x-request-id` replaces its earlier row likewise.
  A refusal of the tool loop after a completed turn is recorded as ok, and
  `no_free_route` is stored as `unknown_error`.

**Bounds.** Two permits and a queue of two are the least with a handoff that
leaves somebody waiting; a fifth caller meets the full queue. With one permit and
two requests in `ChatRouter` every pair of holder, waiter and refused caller
occurs; two providers give one failover and one last candidate; threshold 2
tells a streak from a trip; a cooldown of one tick (two in `BreakerOverlap`) tells
before from after. Five keys are two rotations with abandoned ones in between;
each rotation leads back to the same shape of state. Four lines hold two chunks, a
fault and a terminator in every order, and two malformed lines exceed the limit
of one; a window of two frames is filled and drained. The proxies of `MCProxies` include every
kind of bound address, a refusal at each stage and a header block at the cap and
over it; a deadline of three ticks is long enough for several chunks. Two candidates
are a failover, two turns a loop or a repeated id, one request row kept of two and
three attempts of four make both prunes choose, and events are dropped for their
latency only (two candidates never make more than `MaxAttempts`, which the proofs
leave open); one upset is a failed insert, a
failed prune, a death between two statements or a purge, at every step. One slot and two
connections are a request served and one refused, and a slot handed on while the
first handler still runs; four nonces are what the assumption of `RequestGuard`
asks for here (every address at its budget in each window a message can be fresh
in, plus admitted bodies that are late), and one nonce less is replayed: with the
real constants (4096 nonces, skew and window of a minute) the assumption allows
45 addresses in the `remote` posture and 22 in `lan`. Two providers that share a
proxy and two routes that share a model make each reference dangle in turn; one
endpoint is enough where presence alone is claimed, and the proof covers several. Two
servers are an old one beside a new one; three opens are one to record, one to
fall behind and one to notice; one kill, interruption or failed write falls at
every step, and one intervention is an upgrade, an edit or an older file put
back. `SYMMETRY` is used for safety only, over callers, requests, names and ids
that the specification treats alike.

**Fairness.** `Semaphore`: a held permit is given back, because a buffered call
is bounded by a byte cap and an inactivity timeout and returns its permit in
`finally`. `BreakerLoad`: time passes, an attempt ends, and requests keep coming
for every provider (strong fairness of `Begin`: the breaker permits again and
again, and each request meets it). `ChatRouter`: the event loop runs what is
ready and a call ends; for a stream this takes a consumer that goes on reading or
leaves, since the total timeout destroys the socket but only the consumer
resumes the generator that returns the permit. `StreamTransport`: continuations
run and the total timer fires; nothing is assumed of the client, which may stop
reading for ever, of the provider, the limiter or the idle timer, which every read
restarts.
`RequestGuard`: a handler goes on (its awaits are bounded by the timeouts of the
outbound call), a finished response is flushed, and a connection whose body is
awaited closes or completes. `DataDirectory`: a command and a start go on by
themselves; a server asked to stop may be held up for ever by its last request.
`ProxiedStream` adds no fairness: a dial need not go on, and the stream still ends.
`StreamEnds` says which streams do not end: one whose client neither reads nor
leaves (its upstream call is closed all the same, its permit is not returned), and
one that was served after its client had left and got a first chunk (`NeverRead`).
Nothing is assumed of aborts, operators, crashes or arrivals. In `RouterFailover`
`EveryRequestEnds` makes one exception: once a throwing open has lost a permit
(`PermitLost`, see above) requests do wait for ever. Its one cancellable caller
cannot lose one by a stale position, which takes a second waiter; that case of
`PermitsMatchAttempts` is met by the proof only.

Deadlock is checked in every run but `UsageRecords`, whose calls come to an end.
Type invariants are checked where a proof follows them up (`SemaphoreAbort`,
`BreakerOverlap`, `RotationCrash`); the other modules state theirs for a reader.

## 4. Proofs

All theorems hold for every value of the constants that satisfies the modules'
assumptions. Each safety theorem follows from an inductive invariant: it holds
of `Init`, every step keeps it, it implies the property. TLC tried what it can
evaluate of these invariants on the instance of their run before the proof.
`TypeCorrect` is the type invariant of its module.

* **`SemaphoreProofs`**, from `SemaphoreAssumption`.
  `TypeCorrect`, `CapHolds`, `PumpNeverStarves`, `NoPermitIdles`, `PermitsConserved`
  rest on `SemInv`: the type, the meanings of the three counters and
  `Cardinality(Holding) <= inFlight`, for the cap is not inductive alone: a release
  must not let `inFlight` fall below the holders. Whoever holds a permit while
  somebody waits holds one of `Limit` (`NoIdlePermit`), so a release hands off
  exactly one, and the shift is up to the first occupied slot (`ShiftedToFirst`).
  - `ServedInOrder`: `FirstComeFirstServed`, since no caller has two places in the
    array (`OncePlaced`) and a release serves its first occupied slot.
  - `PromiseKept`: with nobody cancellable, every step is one of
    `AbstractSemaphore` or a stutter. `LineInv` says which slots make up the line.
    This is the safety half of `ImplementsPromise`; fairness is left to TLC.
  - `NextDrift`: a step makes permits and holders differ (`Drift`) only by handing a
    permit to the first in line after that one has left (`FirstInLineLeft`), which
    takes a listener that looked at a stale position. `Conservation` is kept out of
    this invariant (`CoreInv`) because a dropped closure breaks it.
* **`RouterProofs`**. From `BreakerAssumption` and `LoadAssumption`, about
  `BreakerLoad`: `TypeCorrect`, `ProbesAccountedFor`, `ProbesApart`,
  `OpenIsLeftTwoWays`. `ProbesApart` rests on the second half of `ProbeAccounted`: an
  open circuit is never older than its last probe.
  - About `ChatRouter`, whatever the semaphore, the routes and the thresholds:
    `CommitHolds`, `FatalEnds`, `ProbeIsOwned`. `LoopSteps` sorts every
    step by what it does to the request that takes it; `LoopTyped` is the part of
    the type these three need. `ProbeIsOwned` asks of a circuit's report or a scan
    that the attempt it leaves behind, or begins, is there to decide the probe.
  - `PermitsMatch`, from `ChatRouterAssumption`: permits counted out and attempts at
    work drift apart only where opening a streamed call throws, or where a permit
    goes to a waiter that has left. `RouterOpenLeak` and `SemaphoreLostPermit` show
    that both happen. `Limiter` is the instance of `SemaphoreProofs` whose callers
    are the requests, `PhaseInv` what each phase of a request has of it, and
    `RouterSteps` sorts the steps of the loop by what they ask of it.
* **`RootKeyRotationProofs`**. `TypeCorrect` without conditions;
  `NoSecondKeyAccepted` for one rotator and any other openers and faults;
  `NoKeyLost`, `NoRowStranded`, `NoNeededSlotDropped` for a sole owner of the
  directory whose rename works. `RotationInv` says what is on disk and what a
  process knows of it at each point (`DiskInv`, `PlaceInv`): that a key on disk
  opens the database is not inductive without knowing that the slot of a rotation
  in progress holds its replacement. `OwnerKeepsKeyAlways` and
  `OwnerKeepsSlotAlways` say the same of a directory that passes from process to
  process, under all faults, up to the first sharing or failed promotion
  (`OwnerInv`); `RotationFailedPromote` and the case of two processes above show
  that neither condition can be dropped.
* **`ControlPlaneProofs`**, from `ControlAssumption`. `NothingOrphaned` needs, for
  each kind of row, where its secret, its routes and its catalogue may point.
  `DeadKeys` rests on `KeyInv`: keys are issued once, no two identities share one,
  and a usable identity holds a dead key only after a deletion and one more
  operation have failed.
* **`RequestGuardProofs`**, from `GuardAssumption`. `SlotsHeld` and
  `TurnIsLeft` follow from what a handler holds at each stage (`SlotInv`,
  `LoopInv`). `BurstIsBounded`: `RateInv` assigns each admitted request to the start
  of the window that counted it, starts lie a window apart and none has more than
  the budget, so a stretch of time meets only so many. `Accepted`: `NonceInv` counts
  the messages that must have arrived to push a nonce out of the cache; the last
  conjunct of the assumption is used here and nowhere else.
* **`DataDirectoryProofs`**, from `DirectoryAssumption`: the five safety properties
  of the run. `DirInv` says what each database is (`SoundInv`), which files exist at
  each step of a command (`CmdInv`), which process works in which directory
  (`PlaceInv`), and when no server can be in the way of a command (`LoneInv`).
* **`UsageRecordsProofs`**, from `UsageAssumption`. `NewestIsKept`: a prune deletes
  only rows that enough others outrank (`PruneKeepsNewest`, on a row of least
  rank), and an upsert replaces a record by a later one (`UpsertKeepsLater`).
  `Agree`: the attempts a request made are those recorded and those of the block
  in hand (`LedgerInv`, `LifeInv`). Ids of which an event was dropped are exempt, as
  are those with a lost write.
* **`StreamProofs`**, from `StreamAssumption` and `ProxiedAssumption`, about the
  composition `ProxiedSpec`. `Delivered`: what the client has, what is queued and
  what is still to come partition the chunks in order (`ContentInv`, with the
  `InOrder` lemmas by position). `Bracketed`: `PermitInv`. `CleanTunnel` and
  `BoundedDial`: `DialInv`, by which the reads so far went through, what has
  arrived is what they took and what is buffered, and each deadline leaves its
  own time.

`PumpNeverStarves`, `NoPermitIdles`, `ProbesAccountedFor`, `NoKeyLost`,
`NoRowStranded` and `NoNeededSlotDropped` state properties that no
run repeats; so does each `TypeCorrect` but those of `Semaphore`, `BreakerLoad` and
`RootKeyRotation`.

Only model-checked: liveness, which with ENABLED is out of the prover's reach
(`EveryWaiterAnswered`, the fairness of `ImplementsPromise`, `HalfOpenResolves`,
`EveryRequestEnds`, `StreamEnds`, `SlotComesBack`, `CommandEnds`); that an entry of
`eligible` is a candidate of `Routes`, since it comes from `SelectSeq`, which is
recursive.

## 5. Not modelled, and the plan

Left out for good: pure translation and rendering (gateway profiles, redaction,
the dashboard), the child processes of key stores, stateless validation and
parsing, smoke tests and release tooling, which are most of the repository's
lines. `importSecrets` and `rotateRootKey(next)` have no caller outside tests.

Assumed away in the models above, and why:

* Two failures in one life of an identity (a failed deletion of a client key and a
  death while the identity is created anew) can revive an old client key, and a
  provider created under the name of one whose credential could not be deleted
  inherits it. The theorems cover any number of faults, and the properties exempt
  exactly these (`faults > 1` in `DeadKeysStayDead`, `survivors`); the run has one
  fault to stay small. An identity whose audit row cannot be written after a
  rotation keeps a key nobody was shown.
* Two operator commands at once race through the pidfile; a pid may be reused by
  another program. `DataDirectory` runs one command at a time.
* A release whose `--version` throws, or whose installation fails half way, is not
  rolled back (self-update.ts:283-300); `Install` succeeds or does nothing.
* Two first starts race for the key file: the loser throws and changes nothing
  (key-provider.ts:199).
* A power failure that loses a committed transaction (`synchronous = NORMAL`).

Still open, in this order:

1. `Selection`: `resolveCandidates` as an operator, against a reference order.
2. Two commands at once, and self-update step by step, in `DataDirectory`.
3. A rewrap in two steps, for several processes (secret-repository.ts:296).
4. A refinement of the stream steps of `ChatRouter` by `StreamTransport`.

Proofs to follow: an abstract key custody implemented by `RootKeyRotation` for a
sole owner; the stream steps of `ChatRouter` against `StreamTransport`.
