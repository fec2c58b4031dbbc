--------------------------- MODULE RequestGuardProofs ---------------------------
(***************************************************************************)
(* What holds of the request guard for any connections, addresses, budgets *)
(* and clocks: the slots are counted right, no address exceeds twice its   *)
(* budget in a window, a signed message is accepted once, and no tool runs *)
(* whose result cannot be reported.                                        *)
(***************************************************************************)
EXTENDS RequestGuard, FiniteSetTheorems, SequenceTheorems, WellFoundedInduction, TLAPS

\* A request that has a slot holds it until it ends or its client vanishes.
Waiting == {c \in Conns : stage[c] = "body" /\ c \notin gone}

SlotInv ==
  /\ SlotsAreHeld
  /\ holders \intersect gone = {}
  /\ \A c \in Conns : stage[c] = "free" => c \notin holders \union gone
  /\ Waiting \subseteq holders

\* A batch is dispatched only where a turn is left to report it.
LoopInv ==
  /\ EffectsLeaveATurn
  /\ \A c \in Conns : stage[c] = "tools" => batches[c] < turns[c] /\ turns[c] < MaxTurns

\* Every request let past the limiter belongs to a window, named by its start:
\* no more than the budget to one window, and the windows of an address at
\* least a window apart.
Windowed(p, S) ==
  LET times == admitted[p]
  IN  /\ \A i \in 1..Len(times) :
           S[i] <= times[i] /\ times[i] < S[i] + RateWindow /\ times[i] <= now
      /\ \A i \in 1..Len(times) - RateMax : S[i] + RateWindow <= S[i + RateMax]

\* The counter of p in map is that of its last window; without a counter there
\* is no window that is not over.
Charged(map, p, S) ==
  LET n == Len(admitted[p])
  IN  IF p \in DOMAIN map
      THEN /\ map[p].total <= n /\ map[p].start <= now
           /\ \A i \in 1..n : IF i > n - map[p].total THEN S[i] = map[p].start
                              ELSE S[i] + RateWindow <= map[p].start
      ELSE \A i \in 1..n : S[i] + RateWindow <= now

RateInv(map) ==
  \A p \in Peers : \E S \in [1..Len(admitted[p]) -> Nat] : Windowed(p, S) /\ Charged(map, p, S)

\* The requests let past the limiter, each by its address and its place, and
\* those of them since message n may have been fresh.
Admissions == {x \in Peers \X Nat : x[2] \in 1..Len(admitted[x[1]])}
Since(n) == {x \in Admissions : admitted[x[1]][x[2]] + Skew >= stamp[n]}

\* The messages accepted after n, k of them, and those that may still be, came
\* past the limiter since, but for those that had a slot when n was accepted.
Outnumbered(n, k) ==
  k + Cardinality(Waiting) <= Cardinality(Since(n)) + Concurrency - 1

\* What lets the cache forget: the messages that push n out have all been let
\* past the limiter.
NonceInv ==
  /\ IsFiniteSet(Admissions)
  /\ \A n \in 1..Len(stamp) :
       /\ verified[n] <= 1
       /\ verified[n] = 1 =>
            /\ stamp[n] <= now + Skew
            /\ \/ \E i \in 1..Len(seen) : seen[i] = n /\ Outnumbered(n, Len(seen) - i)
               \/ Outnumbered(n, NonceMax)

\* The inductive invariant.
GuardInv == TypeOK /\ SlotInv /\ LoopInv /\ RateInv(counters) /\ NonceInv

-----------------------------------------------------------------------------
(* Types                                                                   *)

\* The sizes, as numbers.
LEMMA Sizes ==
  /\ RateMax \in Nat /\ RateMax > 0 /\ AuthMax \in Nat /\ AuthMax > 0
  /\ RateWindow \in Nat /\ RateWindow > 0 /\ Concurrency \in Nat /\ Concurrency > 0
  /\ MaxTurns \in Nat /\ MaxTurns > 0
  /\ Skew \in Nat /\ NonceMax \in Nat /\ Horizon \in Nat /\ MaxSigned \in Nat
  /\ \A c \in Conns : PeerOf[c] \in Peers
  /\ IsFiniteSet(Conns) /\ IsFiniteSet(Peers) /\ Offsets \subseteq Nat
  BY GuardAssumption

\* A full map loses expired counters only, and the counter that is asked for is
\* in the map and not over.
LEMMA CountersKept ==
  ASSUME TypeOK, NEW p \in Peers
  PROVE  LET map == CountersWith(p)
         IN  /\ DOMAIN map \subseteq Peers /\ p \in DOMAIN map
             /\ \A q \in DOMAIN map :
                  map[q] \in [start : Ticks, total : 0..RateMax, failures : 0..AuthMax]
             /\ \A q \in Peers \ {p} :
                  IF q \in DOMAIN map THEN q \in DOMAIN counters /\ map[q] = counters[q]
                  ELSE q \in DOMAIN counters => Expired(counters[q])
             /\ \/ p \in DOMAIN counters /\ map[p] = counters[p] /\ ~Expired(counters[p])
                \/ /\ map[p] = Fresh
                   /\ p \in DOMAIN counters => Expired(counters[p])
<1>1. Fresh \in [start : Ticks, total : 0..RateMax, failures : 0..AuthMax]
  BY Sizes DEF Fresh, TypeOK
<1>2. CASE p \in DOMAIN counters /\ ~Expired(counters[p])
  BY <1>2 DEF CountersWith, TypeOK
<1>3. CASE ~(p \in DOMAIN counters /\ ~Expired(counters[p]))
  <2> DEFINE all == DOMAIN counters \union {p}
             kept == IF Cardinality(all) > MapMax
                     THEN {q \in all : q = p \/ ~Expired(counters[q])}
                     ELSE all
  <2>1. CountersWith(p) = [q \in kept |-> IF q = p THEN Fresh ELSE counters[q]]
    BY <1>3 DEF CountersWith
  <2>2. p \in kept /\ kept \subseteq Peers /\ \A q \in kept \ {p} : q \in DOMAIN counters
    BY DEF TypeOK
  <2>3. \A q \in (DOMAIN counters) \ {p} : q \notin kept => Expired(counters[q])
    OBVIOUS
  <2> HIDE DEF kept
  <2>4. /\ DOMAIN CountersWith(p) = kept
        /\ \A q \in kept : CountersWith(p)[q] = IF q = p THEN Fresh ELSE counters[q]
    BY <2>1, Zenon
  <2> QED
    BY <1>1, <1>3, <2>2, <2>3, <2>4, Zenon DEF TypeOK
<1> QED
  BY <1>2, <1>3

\* A message is fresh for no more ticks than its windows but one have.
LEMMA WindowsSpan ==
  /\ WindowsPerMessage \in Nat /\ WindowsPerMessage > 0
  /\ (WindowsPerMessage - 1) * RateWindow >= 2 * Skew
<1> DEFINE d == (2 * Skew + RateWindow - 1) \div RateWindow
<1>1. d \in Nat /\ 2 * Skew + RateWindow - 1 < (d + 1) * RateWindow
  BY Sizes, Z3
<1>2. (d + 1) * RateWindow = d * RateWindow + RateWindow
  BY <1>1, Sizes, Z3
<1>3. d * RateWindow \in Int
  BY <1>1, Sizes
<1>4. d * RateWindow >= 2 * Skew
  BY <1>1, <1>2, <1>3, Sizes
<1>5. WindowsPerMessage = 1 + d
  BY DEF WindowsPerMessage
<1> HIDE DEF d
<1> QED
  BY <1>1, <1>4, <1>5

\* The cache has room for one nonce at least.
LEMMA CacheHasRoom ==
  /\ Cardinality(Peers) \in Nat
  /\ NonceMax >= Cardinality(Peers) * (RateMax * WindowsPerMessage) + Concurrency - 1
  /\ NonceMax > 0
<1>1. Cardinality(Peers) \in Nat /\ Cardinality(Peers) > 0
  BY GuardAssumption, FS_EmptySet, FS_CardinalityType
<1>2. /\ RateMax * WindowsPerMessage \in Nat
      /\ RateMax * WindowsPerMessage > 0
  BY Sizes, WindowsSpan, Z3
<1>3. Cardinality(Peers) * RateMax * WindowsPerMessage
        = Cardinality(Peers) * (RateMax * WindowsPerMessage)
  BY <1>1, Sizes, WindowsSpan, Z3
<1>4. Cardinality(Peers) * (RateMax * WindowsPerMessage) > 0
  <2> DEFINE b == RateMax * WindowsPerMessage
             a == Cardinality(Peers)
  <2> SUFFICES a * b > 0
    OBVIOUS
  <2>1. a \in Nat /\ b \in Nat /\ a > 0 /\ b > 0
    BY <1>1, <1>2
  <2> HIDE DEF a, b
  <2> QED
    BY <2>1, Z3
<1> HIDE DEF WindowsPerMessage
<1>5. Cardinality(Peers) * (RateMax * WindowsPerMessage) \in Nat
  BY <1>1, <1>2
<1> QED
  BY <1>1, <1>3, <1>4, <1>5, Sizes, GuardAssumption

\* What the cache is after a nonce has been remembered: one longer, or as long
\* as before and without the oldest.
LEMMA Remembered ==
  ASSUME NEW m \in Nat, seen \in Seq(1..m), Len(seen) <= NonceMax, NEW n \in 1..m
  PROVE  /\ Remember(n) \in Seq(1..m) /\ Len(Remember(n)) <= NonceMax
         /\ \/ /\ Len(Remember(n)) = Len(seen) + 1
               /\ \A i \in 1..Len(seen) : Remember(n)[i] = seen[i]
               /\ Remember(n)[Len(seen) + 1] = n
            \/ /\ Len(seen) = NonceMax /\ Len(Remember(n)) = NonceMax
               /\ \A i \in 1..NonceMax - 1 : Remember(n)[i] = seen[i + 1]
               /\ Remember(n)[NonceMax] = n
<1> DEFINE more == Append(seen, n)
<1>1. /\ more \in Seq(1..m) /\ Len(more) = Len(seen) + 1
      /\ \A i \in 1..Len(seen) : more[i] = seen[i]
      /\ more[Len(seen) + 1] = n
      /\ Len(seen) \in Nat
  BY AppendProperties, LenProperties
<1>2. Remember(n) = IF Len(more) > NonceMax THEN Tail(more) ELSE more
  BY DEF Remember
<1> HIDE DEF more
<1>3. more # <<>>
  BY <1>1
<1>4. /\ Tail(more) \in Seq(1..m) /\ Len(Tail(more)) = Len(seen)
      /\ \A i \in 1..Len(seen) : Tail(more)[i] = more[i + 1]
  BY <1>1, <1>3, HeadTailProperties
<1>5. CASE Len(more) > NonceMax
  <2>1. Len(seen) = NonceMax /\ Remember(n) = Tail(more)
    BY <1>1, <1>2, <1>5, Sizes
  <2>2. \A i \in 1..NonceMax - 1 : i \in 1..Len(seen) /\ i + 1 \in 1..Len(seen)
    BY <2>1, Sizes
  <2>3. NonceMax \in 1..Len(seen)
    BY <2>1, CacheHasRoom, Sizes
  <2> QED
    BY <1>1, <1>4, <2>1, <2>2, <2>3
<1>6. CASE ~(Len(more) > NonceMax)
  BY <1>1, <1>2, <1>6, Sizes
<1> QED
  BY <1>5, <1>6

\* A slot that is given back was held, and the guard counts one fewer.
LEMMA Released ==
  ASSUME TypeOK, SlotsAreHeld, NEW c \in Conns, Release(c)
  PROVE  /\ SlotsAreHeld' /\ inFlight' \in 0..Concurrency
         /\ holders' = holders \ {c}
<1>1. IsFiniteSet(holders)
  BY Sizes, FS_Subset DEF TypeOK
<1>2. /\ Cardinality(holders \ {c}) \in Nat
      /\ Cardinality(holders \ {c}) = IF c \in holders THEN Cardinality(holders) - 1
                                      ELSE Cardinality(holders)
  BY <1>1, FS_RemoveElement, FS_CardinalityType
<1>3. inFlight' = Cardinality(holders \ {c})
  BY <1>2 DEF Release, SlotsAreHeld
<1>4. inFlight' \in 0..Concurrency
  BY <1>2, <1>3, Sizes DEF SlotsAreHeld, TypeOK
<1> QED
  BY <1>3, <1>4 DEF Release, SlotsAreHeld

\* A slot that is taken is counted once.
LEMMA Acquired ==
  ASSUME TypeOK, SlotsAreHeld, NEW c \in Conns, c \notin holders,
         NEW next \in {"body", "run"}, Acquire(c, next)
  PROVE  /\ SlotsAreHeld' /\ inFlight' \in 0..Concurrency
         /\ \/ UNCHANGED <<holders, stage>>
            \/ holders' = holders \union {c} /\ stage' = [stage EXCEPT ![c] = next]
<1>1. IsFiniteSet(holders)
  BY Sizes, FS_Subset DEF TypeOK
<1>2. Cardinality(holders \union {c}) = Cardinality(holders) + 1
  BY <1>1, FS_AddElement
<1>3. CASE inFlight < Concurrency
  <2>1. /\ inFlight' = inFlight + 1 /\ holders' = holders \union {c}
        /\ stage' = [stage EXCEPT ![c] = next]
    BY <1>3 DEF Acquire
  <2>2. inFlight + 1 \in 0..Concurrency
    BY <1>3, Sizes DEF TypeOK
  <2> QED
    BY <1>2, <2>1, <2>2 DEF SlotsAreHeld
<1>4. CASE ~(inFlight < Concurrency)
  BY <1>4 DEF Acquire, SlotsAreHeld, TypeOK
<1> QED
  BY <1>3, <1>4

\* The types hold of the first start.
LEMMA InitTypeOK == Init => TypeOK
  BY Sizes, CacheHasRoom, FS_EmptySet DEF Init, TypeOK, Ticks

\* A verdict on a message keeps the types.
LEMMA VerdictTypes ==
  ASSUME TypeOK, NEW c \in Conns,
         \/ \E offset \in Offsets : VerifyNew(c, now + offset)
         \/ \E n \in 1..Len(stamp) : VerifyAgain(c, n)
         \/ VerifyFails(c)
  PROVE  TypeOK'
<1>v. verified \in Seq(Nat) /\ Len(verified) = Len(stamp) /\ Len(stamp) \in Nat
  <2>1. Len(stamp) \in Nat
    BY LenProperties DEF TypeOK
  <2>2. verified \in [1..Len(stamp) -> Nat]
    BY DEF TypeOK
  <2>3. verified \in Seq(Nat)
    BY <2>1, <2>2, SeqDef
  <2> QED
    BY <2>1, <2>2, <2>3, LenProperties
<1>n. now \in Nat
  BY Sizes DEF TypeOK, Ticks
<1>1. ASSUME NEW offset \in Offsets, VerifyNew(c, now + offset)
      PROVE  TypeOK'
  <2>1. stamp' \in Seq(Nat) /\ Len(stamp') = Len(stamp) + 1
    <3>1. now + offset \in Nat /\ stamp' = Append(stamp, now + offset)
      BY SMTT(30), <1>1, <1>n, Sizes DEF VerifyNew
    <3> QED
      BY <3>1, AppendProperties DEF TypeOK
  <2>2. verified' \in [1..Len(stamp') -> Nat]
    <3>1. PICK v \in Nat : verified' = Append(verified, v)
      BY <1>1 DEF VerifyNew
    <3> QED
      <4>1. verified' \in Seq(Nat) /\ Len(verified') = Len(stamp')
        BY <1>v, <2>1, <3>1, AppendProperties
      <4> QED
        BY <4>1, LenProperties
  <2>3. seen \in Seq(1..Len(stamp'))
    BY <1>v, <2>1, SeqMonotonic DEF TypeOK
  <2>4. seen' \in Seq(1..Len(stamp')) /\ Len(seen') <= NonceMax
    <3>1. Len(stamp) + 1 \in 1..Len(stamp') /\ Len(stamp') \in Nat
      BY <1>v, <2>1
    <3> QED
      BY <1>1, <2>3, <3>1, Remembered DEF VerifyNew, TypeOK
  <2>5. stage' \in [Conns -> {"free", "body", "run", "tools", "answered"}]
    BY <1>1 DEF VerifyNew, TypeOK
  <2>6. Len(stamp') <= MaxSigned
    BY <1>1, <1>v, <2>1, Sizes DEF VerifyNew
  <2> QED
    BY <1>1, <2>1, <2>2, <2>4, <2>5, <2>6
       DEF VerifyNew, TypeOK, admission, handling
<1>2. ASSUME NEW n \in 1..Len(stamp), VerifyAgain(c, n)
      PROVE  TypeOK'
  <2>1. seen' \in Seq(1..Len(stamp)) /\ Len(seen') <= NonceMax
    BY SMTT(30), <1>2, <1>v, Remembered DEF VerifyAgain, TypeOK
  <2>2. verified' \in [1..Len(stamp) -> Nat]
    <3>1. verified[n] + 1 \in Nat
      <4>1. verified[n] \in Nat
        BY Zenon DEF TypeOK
      <4> QED
        BY <4>1
    <3>2. verified' = verified \/ verified' = [verified EXCEPT ![n] = @ + 1]
      BY <1>2 DEF VerifyAgain
    <3> QED
      BY <3>1, <3>2 DEF TypeOK
  <2>3. stage' \in [Conns -> {"free", "body", "run", "tools", "answered"}]
    BY <1>2 DEF VerifyAgain, TypeOK
  <2> QED
    BY <1>2, <2>1, <2>2, <2>3 DEF VerifyAgain, TypeOK, admission, handling
<1>3. CASE VerifyFails(c)
  BY <1>3 DEF VerifyFails, TypeOK, admission, signing, handling
<1> QED
  BY <1>1, <1>2, <1>3

\* So does a step of the tool loop.
LEMMA HandleTypes ==
  ASSUME TypeOK, LoopInv, NEW c \in Conns, Handle(c)
  PROVE  TypeOK'
<1>1. /\ turns[c] \in 0..MaxTurns /\ batches[c] \in 0..MaxTurns
  BY DEF TypeOK
<1>2. CASE CallsOurs(c) \/ LoopEnds(c)
  <2>1. turns[c] + 1 \in 0..MaxTurns
    BY <1>1, <1>2, Sizes DEF CallsOurs, LoopEnds
  <2>2. turns' \in [Conns -> 0..MaxTurns]
    BY <1>2, <2>1 DEF CallsOurs, LoopEnds, TypeOK
  <2>3. stage' \in [Conns -> {"free", "body", "run", "tools", "answered"}]
    BY <1>2 DEF CallsOurs, LoopEnds, TypeOK
  <2> QED
    BY <1>2, <2>2, <2>3 DEF CallsOurs, LoopEnds, TypeOK, admission, signing
<1>3. ASSUME NEW refused \in BOOLEAN, Dispatch(c, refused)
      PROVE  TypeOK'
  BY <1>1, <1>3, Sizes DEF Dispatch, TypeOK, admission, signing, LoopInv, EffectsLeaveATurn
<1> QED
  BY <1>2, <1>3 DEF Handle

\* And the end of a request.
LEMMA EndTypes ==
  ASSUME TypeOK, SlotsAreHeld, NEW c \in Conns,
         Respond(c) \/ Vanish(c) \/ \E finished \in BOOLEAN : Bury(c, finished)
  PROVE  TypeOK'
<1>1. inFlight' \in 0..Concurrency /\ holders' \subseteq Conns
  BY Released DEF Respond, Vanish, Bury, TypeOK
<1>2. /\ stage' \in [Conns -> {"free", "body", "run", "tools", "answered"}]
      /\ turns' \in [Conns -> 0..MaxTurns]
      /\ batches' \in [Conns -> 0..MaxTurns]
  <2>1. Leave(c) \/ UNCHANGED <<stage, turns, batches>>
    BY DEF Respond, Vanish, Bury, handling
  <2>2. 0 \in 0..MaxTurns
    BY Sizes
  <2>3. CASE Leave(c)
    BY <2>2, <2>3 DEF Leave, TypeOK
  <2> QED
    BY <2>1, <2>3 DEF TypeOK
<1>3. gone' \subseteq Conns
  BY DEF Respond, Vanish, Bury, TypeOK
<1> QED
  BY <1>1, <1>2, <1>3 DEF Respond, Vanish, Bury, TypeOK, signing

\* And an arrival.
LEMMA ArriveTypes ==
  ASSUME TypeOK, SlotInv, NEW c \in Conns,
         ArriveLocal(c) \/ \E known \in BOOLEAN : Arrive(c, known)
  PROVE  TypeOK'
<1>1. CASE ArriveLocal(c)
  <2>1. c \notin holders
    BY <1>1 DEF ArriveLocal, SlotInv
  <2>2. inFlight' \in 0..Concurrency /\ holders' \subseteq Conns
        /\ stage' \in [Conns -> {"free", "body", "run", "tools", "answered"}]
    BY <1>1, <2>1, Acquired DEF ArriveLocal, SlotInv, TypeOK
  <2> QED
    BY <1>1, <2>2 DEF ArriveLocal, TypeOK, signing, handling
<1>2. ASSUME NEW known \in BOOLEAN, Arrive(c, known)
      PROVE  TypeOK'
  <2> DEFINE p == PeerOf[c]
             map == CountersWith(p)
  <2>p. p \in Peers
    BY Sizes
  <2>1. c \notin holders
    BY <1>2 DEF Arrive, SlotInv
  <2>2. /\ inFlight' \in 0..Concurrency /\ holders' \subseteq Conns
        /\ stage' \in [Conns -> {"free", "body", "run", "tools", "answered"}]
    <3>1. Acquire(c, "body") \/ UNCHANGED <<inFlight, holders, stage>>
      BY <1>2 DEF Arrive
    <3> QED
      BY <2>1, <3>1, Acquired DEF SlotInv, TypeOK
  <2>3. /\ DOMAIN map \subseteq Peers /\ p \in DOMAIN map
        /\ \A q \in DOMAIN map :
             map[q] \in [start : Ticks, total : 0..RateMax, failures : 0..AuthMax]
    BY <2>p, CountersKept
  <2> HIDE DEF map
  <2>4. /\ DOMAIN counters' \subseteq Peers
        /\ \A q \in DOMAIN counters' :
             counters'[q] \in [start : Ticks, total : 0..RateMax, failures : 0..AuthMax]
    <3>1. CASE counters' = map
      BY <2>3, <3>1
    <3>2. ASSUME map[p].failures < AuthMax, map[p].total < RateMax, NEW d \in {0, 1},
                 counters' = [map EXCEPT ![p].total = @ + 1, ![p].failures = @ + d]
          PROVE  /\ DOMAIN counters' \subseteq Peers
                 /\ \A q \in DOMAIN counters' :
                      counters'[q] \in [start : Ticks, total : 0..RateMax, failures : 0..AuthMax]
      BY <2>3, <3>2, Sizes
    <3>3. /\ map[p].failures \in 0..AuthMax
          /\ map[p].total \in 0..RateMax
      BY <2>3
    <3>4. \/ counters' = map
          \/ /\ ~(map[p].failures >= AuthMax \/ map[p].total >= RateMax)
             /\ counters' = [map EXCEPT ![p].total = @ + 1,
                                        ![p].failures = @ + IF known THEN 0 ELSE 1]
      BY <1>2 DEF Arrive, map
    <3>5. (IF known THEN 0 ELSE 1) \in {0, 1}
      OBVIOUS
    <3>6. ~(map[p].failures >= AuthMax \/ map[p].total >= RateMax)
            => map[p].failures < AuthMax /\ map[p].total < RateMax
      BY <3>3, Sizes
    <3> QED
      BY <3>1, <3>2, <3>4, <3>5, <3>6
  <2>5. admitted' \in [Peers -> Seq(Ticks)]
    <3>1. Append(admitted[p], now) \in Seq(Ticks)
      BY <2>p, AppendProperties DEF TypeOK
    <3>2. admitted' = admitted \/ admitted' = [admitted EXCEPT ![p] = Append(@, now)]
      BY <1>2 DEF Arrive
    <3> QED
      BY <2>p, <3>1, <3>2 DEF TypeOK
  <2> QED
    BY <1>2, <2>2, <2>4, <2>5 DEF Arrive, TypeOK, signing, handling
<1> QED
  BY <1>1, <1>2

-----------------------------------------------------------------------------
(* Slots and tool loops                                                    *)

\* Slots stay counted, whichever way a request ends.
LEMMA SlotsNext == TypeOK /\ SlotInv /\ Next => SlotInv'
<1> SUFFICES ASSUME TypeOK, SlotInv, Next PROVE SlotInv'
  OBVIOUS
<1>1. ASSUME NEW c \in Conns, ArriveLocal(c) \/ \E known \in BOOLEAN : Arrive(c, known)
      PROVE  SlotInv'
  <2>1. c \notin holders /\ c \notin gone /\ stage[c] = "free"
    BY <1>1 DEF ArriveLocal, Arrive, SlotInv
  <2>2. UNCHANGED gone
    BY <1>1 DEF ArriveLocal, Arrive
  <2>3. ASSUME NEW next \in {"body", "run"}, Acquire(c, next)
        PROVE  SlotInv'
    <3>1. /\ SlotsAreHeld'
          /\ \/ UNCHANGED <<holders, stage>>
             \/ holders' = holders \union {c} /\ stage' = [stage EXCEPT ![c] = next]
      BY <2>1, <2>3, Acquired DEF SlotInv
    <3> QED
      BY <2>1, <2>2, <3>1 DEF SlotInv, Waiting, TypeOK
  <2>4. CASE UNCHANGED <<inFlight, holders, stage>>
    BY <2>2, <2>4 DEF SlotInv, SlotsAreHeld, Waiting
  <2> QED
    BY <1>1, <2>3, <2>4 DEF ArriveLocal, Arrive
<1>2. ASSUME NEW c \in Conns, stage[c] # "free", stage'[c] \notin {"free", "body"},
             \A d \in Conns \ {c} : stage'[d] = stage[d],
             UNCHANGED <<inFlight, holders, gone>>
      PROVE  SlotInv'
  BY <1>2 DEF SlotInv, SlotsAreHeld, Waiting
<1>3. ASSUME NEW c \in Conns, Respond(c) \/ Vanish(c) \/ \E finished \in BOOLEAN : Bury(c, finished)
      PROVE  SlotInv'
  <2>1. CASE Respond(c)
    BY <2>1, Released DEF Respond, Leave, SlotInv, Waiting, TypeOK
  <2>2. CASE Vanish(c)
    BY <2>2, Released DEF Vanish, SlotInv, Waiting, TypeOK
  <2>3. ASSUME NEW finished \in BOOLEAN, Bury(c, finished)
        PROVE  SlotInv'
    <3>1. SlotsAreHeld' /\ holders' = holders \ {c}
      BY <2>3, Released DEF Bury, SlotInv, SlotsAreHeld
    <3> QED
      BY <2>3, <3>1 DEF Bury, Leave, SlotInv, Waiting, TypeOK
  <2> QED
    BY <1>3, <2>1, <2>2, <2>3
<1>4. ASSUME NEW c \in Conns,
             \/ \E offset \in Offsets : VerifyNew(c, now + offset)
             \/ \E n \in 1..Len(stamp) : VerifyAgain(c, n)
             \/ VerifyFails(c)
             \/ Handle(c)
      PROVE  SlotInv'
  BY <1>2, <1>4 DEF VerifyNew, VerifyAgain, VerifyFails, Handle, CallsOurs, LoopEnds, Dispatch,
                    admission, TypeOK
<1>5. CASE Tick
  BY <1>5 DEF Tick, admission, SlotInv, SlotsAreHeld, Waiting
<1> QED
  BY <1>1, <1>3, <1>4, <1>5 DEF Next

\* A tool loop stays within its turns.
LEMMA LoopNext == TypeOK /\ LoopInv /\ Next => LoopInv'
<1> SUFFICES ASSUME TypeOK, LoopInv, Next PROVE LoopInv'
  OBVIOUS
<1> USE DEF LoopInv, EffectsLeaveATurn
<1>0. \A c \in Conns : turns[c] \in Nat /\ batches[c] \in Nat
  BY Sizes DEF TypeOK
\* Nothing is dispatched, and no loop goes on.
<1>1. ASSUME UNCHANGED <<turns, batches>>,
             \A c \in Conns : stage'[c] = "tools" => stage[c] = "tools"
      PROVE  LoopInv'
  BY <1>1
<1>2. ASSUME NEW c \in Conns, Handle(c)
      PROVE  LoopInv'
  <2>1. CASE CallsOurs(c) \/ LoopEnds(c)
    <3>1. /\ turns' = [turns EXCEPT ![c] = @ + 1] /\ UNCHANGED batches
          /\ turns[c] < MaxTurns
          /\ \/ stage' = [stage EXCEPT ![c] = "answered"]
             \/ stage' = [stage EXCEPT ![c] = "tools"] /\ turns[c] + 1 # MaxTurns
      BY <2>1 DEF CallsOurs, LoopEnds
    <3>2. /\ \A d \in Conns : turns'[d] = IF d = c THEN turns[c] + 1 ELSE turns[d]
          /\ \A d \in Conns : d # c => stage'[d] = stage[d]
          /\ stage'[c] = "tools" => turns[c] + 1 # MaxTurns
      BY <3>1 DEF TypeOK
    <3> QED
      BY <1>0, <3>1, <3>2, Sizes
  <2>2. ASSUME NEW refused \in BOOLEAN, Dispatch(c, refused)
        PROVE  LoopInv'
    BY SMTT(30), <1>0, <2>2, Sizes DEF Dispatch, TypeOK
  <2> QED
    BY <1>2, <2>1, <2>2 DEF Handle
<1>3. ASSUME NEW c \in Conns, Respond(c) \/ \E finished \in BOOLEAN : Bury(c, finished)
      PROVE  LoopInv'
  <2>1. Leave(c)
    BY <1>3 DEF Respond, Bury
  <2> QED
    BY <2>1, Sizes DEF Leave, TypeOK
<1>4. ASSUME NEW c \in Conns,
             \/ ArriveLocal(c)
             \/ \E known \in BOOLEAN : Arrive(c, known)
             \/ \E offset \in Offsets : VerifyNew(c, now + offset)
             \/ \E n \in 1..Len(stamp) : VerifyAgain(c, n)
             \/ VerifyFails(c) \/ Vanish(c)
      PROVE  LoopInv'
  <2>1. UNCHANGED <<turns, batches>>
    BY <1>4 DEF ArriveLocal, Arrive, VerifyNew, VerifyAgain, VerifyFails, Vanish, handling
  <2>2. \E s \in {"free", "body", "run", "answered"} :
          stage' = stage \/ stage' = [stage EXCEPT ![c] = s]
    BY <1>4 DEF ArriveLocal, Arrive, Acquire, VerifyNew, VerifyAgain, VerifyFails, Vanish
  <2> QED
    BY <1>1, <2>1, <2>2 DEF TypeOK
<1>5. CASE Tick
  BY <1>1, <1>5 DEF Tick, handling
<1> QED
  BY <1>2, <1>3, <1>4, <1>5 DEF Next

-----------------------------------------------------------------------------
(* The rate limiter                                                        *)

\* A request looks its counter up: a window that is over gives way to a new one,
\* and a counter that is dropped belonged to a window that is over.
LEMMA RateLookup ==
  ASSUME TypeOK, RateInv(counters), NEW p \in Peers
  PROVE  RateInv(CountersWith(p))
<1> DEFINE map == CountersWith(p)
<1> SUFFICES ASSUME NEW q \in Peers
             PROVE  \E S \in [1..Len(admitted[q]) -> Nat] : Windowed(q, S) /\ Charged(map, q, S)
  BY DEF RateInv
<1> PICK S \in [1..Len(admitted[q]) -> Nat] : Windowed(q, S) /\ Charged(counters, q, S)
  BY DEF RateInv
<1> DEFINE n == Len(admitted[q])
<1>n. /\ n \in Nat /\ now \in Nat
      /\ \A i \in 1..n : S[i] \in Nat
      /\ q \in DOMAIN counters => counters[q].total \in 0..RateMax /\ counters[q].start \in Nat
  <2>1. admitted[q] \in Seq(Ticks)
    BY DEF TypeOK
  <2>2. n \in Nat /\ \A i \in 1..n : S[i] \in Nat
    BY <2>1, LenProperties
  <2>3. now \in Nat
    BY Sizes DEF TypeOK, Ticks
  <2>4. q \in DOMAIN counters => counters[q].total \in 0..RateMax /\ counters[q].start \in Nat
    BY Sizes DEF TypeOK, Ticks
  <2> QED
    BY <2>2, <2>3, <2>4
<1>1. /\ p \in DOMAIN map
      /\ q # p => IF q \in DOMAIN map THEN q \in DOMAIN counters /\ map[q] = counters[q]
                  ELSE q \in DOMAIN counters => Expired(counters[q])
      /\ \/ p \in DOMAIN counters /\ map[p] = counters[p]
         \/ map[p] = Fresh /\ (p \in DOMAIN counters => Expired(counters[p]))
  BY CountersKept
<1> HIDE DEF map, n
\* All windows of q are over where its counter is not the old one.
<1>2. ASSUME q \in DOMAIN counters => Expired(counters[q])
      PROVE  \A i \in 1..n : S[i] + RateWindow <= now
  <2>1. CASE q \in DOMAIN counters
    <3>1. /\ now - counters[q].start >= RateWindow /\ counters[q].start \in Nat
          /\ \A i \in 1..n :
               S[i] = counters[q].start \/ S[i] + RateWindow <= counters[q].start
      BY <1>2, <1>n, <2>1 DEF Charged, Expired, n
    <3>2. ASSUME NEW i \in 1..n PROVE S[i] + RateWindow <= now
      <4>1. S[i] \in Nat /\ now \in Nat
        BY <1>n
      <4>2. S[i] = counters[q].start \/ S[i] + RateWindow <= counters[q].start
        BY <3>1
      <4> QED
        BY <3>1, <4>1, <4>2, Sizes
    <3> QED
      BY <3>2
  <2>2. CASE q \notin DOMAIN counters
    BY <2>2 DEF Charged, n
  <2> QED
    BY <2>1, <2>2
<1>3. Charged(map, q, S)
  <2>1. CASE q \in DOMAIN map /\ q \in DOMAIN counters /\ map[q] = counters[q]
    BY <2>1 DEF Charged
  <2>2. CASE q = p /\ map[p] = Fresh /\ (p \in DOMAIN counters => Expired(counters[p]))
    BY <1>1, <1>2, <1>n, <2>2 DEF Charged, Fresh, n
  <2>3. CASE q \notin DOMAIN map /\ (q \in DOMAIN counters => Expired(counters[q]))
    BY <1>2, <2>3 DEF Charged, n
  <2> QED
    BY <1>1, <2>1, <2>2, <2>3
<1> QED
  BY <1>3 DEF map

\* Letting a request past keeps the windows within the budget.
LEMMA RateCharged ==
  ASSUME TypeOK, NEW p \in Peers, NEW STATE map, RateInv(map),
         p \in DOMAIN map, p \in DOMAIN counters',
         map[p].total \in Nat, map[p].start \in Nat,
         map[p].total < RateMax, now - map[p].start < RateWindow,
         counters'[p].total = map[p].total + 1, counters'[p].start = map[p].start,
         \A q \in Peers \ {p} :
           /\ q \in DOMAIN map <=> q \in DOMAIN counters'
           /\ q \in DOMAIN map => counters'[q] = map[q],
         admitted' = [admitted EXCEPT ![p] = Append(@, now)], now' = now
  PROVE  RateInv(counters)'
<1> SUFFICES ASSUME NEW q \in Peers
             PROVE  \E S \in [1..Len(admitted'[q]) -> Nat] :
                      Windowed(q, S)' /\ Charged(counters, q, S)'
  BY DEF RateInv
<1> PICK S \in [1..Len(admitted[q]) -> Nat] : Windowed(q, S) /\ Charged(map, q, S)
  BY DEF RateInv
<1> DEFINE n == Len(admitted[q])
<1>n. /\ n \in Nat /\ now \in Nat /\ admitted[q] \in Seq(Ticks)
      /\ \A i \in 1..n : S[i] \in Nat /\ admitted[q][i] \in Nat
  <2>1. admitted[q] \in Seq(Ticks)
    BY DEF TypeOK
  <2>2. n \in Nat /\ \A i \in 1..n : S[i] \in Nat
    BY <2>1, LenProperties
  <2>3. \A i \in 1..n : admitted[q][i] \in Nat
    BY SMTT(30), <2>1, Sizes, ElementOfSeq DEF Ticks
  <2>4. now \in Nat
    BY Sizes DEF TypeOK, Ticks
  <2> QED
    BY <2>1, <2>2, <2>3, <2>4
<1>1. CASE q # p
  <2>1. admitted'[q] = admitted[q]
    BY <1>1 DEF TypeOK
  <2> QED
    BY <1>1, <2>1 DEF Windowed, Charged
<1>2. CASE q = p
  <2>1. /\ Len(admitted'[p]) = n + 1
        /\ \A i \in 1..n : admitted'[p][i] = admitted[p][i]
        /\ admitted'[p][n + 1] = now
    BY <1>2, <1>n, AppendProperties DEF TypeOK, Ticks
  <2>2. PICK T \in [1..n + 1 -> Nat] :
          (\A i \in 1..n : T[i] = S[i]) /\ T[n + 1] = map[p].start
    <3> WITNESS [i \in 1..n + 1 |-> IF i = n + 1 THEN map[p].start ELSE S[i]]
                  \in [1..n + 1 -> Nat]
    <3> QED
      BY <1>n
  <2> DEFINE t == map[p].total
             start == map[p].start
  <2>3. /\ t <= n /\ start <= now
        /\ \A i \in 1..n : IF i > n - t THEN S[i] = start ELSE S[i] + RateWindow <= start
        /\ \A i \in 1..n : /\ S[i] <= admitted[p][i] /\ admitted[p][i] <= now
                           /\ admitted[p][i] < S[i] + RateWindow
        /\ \A i \in 1..n - RateMax : S[i] + RateWindow <= S[i + RateMax]
    BY <1>2 DEF Windowed, Charged
  <2>n. /\ n \in Nat /\ t \in Nat /\ start \in Nat /\ now \in Nat /\ t < RateMax
        /\ now - start < RateWindow /\ RateMax \in Nat /\ RateWindow \in Nat
    BY <1>n, Sizes
  <2>t. T[n + 1] = start
    BY <2>2
  <2>c. /\ p \in DOMAIN counters' /\ counters'[p].total = t + 1
        /\ counters'[p].start = start
    OBVIOUS
  <2> HIDE DEF n, t, start
  <2>i. \A i \in 1..n + 1 : i = n + 1 \/ i \in 1..n
    BY <2>n
  <2>4. Windowed(p, T)'
    <3>1. ASSUME NEW i \in 1..n + 1
          PROVE  /\ T[i] <= admitted'[p][i] /\ admitted'[p][i] < T[i] + RateWindow
                 /\ admitted'[p][i] <= now
      <4>1. CASE i = n + 1
        BY <2>n, <2>1, <2>t, <2>3, <4>1
      <4>2. CASE i \in 1..n
        BY <2>1, <2>2, <2>3, <4>2
      <4> QED
        BY <2>i, <4>1, <4>2
    <3>2. ASSUME NEW i \in 1..n + 1 - RateMax
          PROVE  T[i] + RateWindow <= T[i + RateMax]
      <4>1. CASE i = n + 1 - RateMax
        <5>1. i \in 1..n /\ ~(i > n - t) /\ i + RateMax = n + 1
          BY <2>n, <4>1
        <5> QED
          BY <2>2, <2>t, <2>3, <5>1
      <4>2. CASE i \in 1..n - RateMax
        <5>1. i \in 1..n /\ i + RateMax \in 1..n
          BY <2>n, <4>2
        <5> QED
          BY <2>2, <2>3, <4>2, <5>1
      <4> QED
        BY <2>n, <4>1, <4>2
    <3>3. Len(admitted'[p]) = n + 1 /\ now' = now
      BY <2>1
    <3>4. \A i \in 1..Len(admitted'[p]) :
            /\ T[i] <= admitted'[p][i] /\ admitted'[p][i] < T[i] + RateWindow
            /\ admitted'[p][i] <= now'
      BY <3>1, <3>3
    <3>5. \A i \in 1..Len(admitted'[p]) - RateMax : T[i] + RateWindow <= T[i + RateMax]
      <4>1. Len(admitted'[p]) - RateMax = n + 1 - RateMax
        BY <2>n, <3>3
      <4> QED
        BY <3>2, <4>1, Zenon
    <3> QED
      BY <3>4, <3>5 DEF Windowed
  <2>5. Charged(counters, p, T)'
    <3>1. ASSUME NEW i \in 1..n + 1
          PROVE  IF i > n + 1 - (t + 1) THEN T[i] = start ELSE T[i] + RateWindow <= start
      <4>1. CASE i = n + 1
        BY <2>n, <2>t, <4>1
      <4>2. CASE i \in 1..n
        <5>1. T[i] = S[i] /\ (i > n + 1 - (t + 1) <=> i > n - t)
          BY <2>n, <2>2, <4>2
        <5> QED
          BY <2>3, <4>2, <5>1
      <4> QED
        BY <2>i, <4>1, <4>2
    <3>2. t + 1 <= n + 1 /\ start <= now
      BY <2>n, <2>3
    <3>3. Len(admitted'[p]) = n + 1 /\ now' = now
      BY <2>1
    <3>4. \A i \in 1..Len(admitted'[p]) :
            IF i > Len(admitted'[p]) - counters'[p].total THEN T[i] = counters'[p].start
            ELSE T[i] + RateWindow <= counters'[p].start
      <4>1. Len(admitted'[p]) - counters'[p].total = n + 1 - (t + 1)
        BY <2>c, <2>n, <3>3
      <4> QED
        BY <2>c, <3>1, <3>3, <4>1, Zenon
    <3> QED
      BY <2>c, <3>2, <3>3, <3>4 DEF Charged
  <2> QED
    BY <1>2, <2>1, <2>2, <2>4, <2>5
<1> QED
  BY <1>1, <1>2

\* So every step keeps the windows.
LEMMA RateNext == TypeOK /\ RateInv(counters) /\ Next => RateInv(counters)'
<1> SUFFICES ASSUME TypeOK, RateInv(counters), Next PROVE RateInv(counters)'
  OBVIOUS
<1>1. CASE UNCHANGED <<now, counters, admitted>>
  BY <1>1 DEF RateInv, Windowed, Charged
<1>2. CASE Tick
  <2>1. now' = now + 1 /\ now \in Nat /\ UNCHANGED <<counters, admitted>>
    BY <1>2 DEF Tick, admission, TypeOK, Ticks
  <2>2. \A p \in Peers :
          /\ Len(admitted[p]) \in Nat
          /\ \A i \in 1..Len(admitted[p]) : admitted[p][i] \in Nat
          /\ p \in DOMAIN counters => counters[p].start \in Nat
    <3>1. \A p \in Peers : admitted[p] \in Seq(Ticks)
      BY DEF TypeOK
    <3>2. \A k \in Ticks : k \in Nat
      BY DEF Ticks
    <3>3. \A p \in DOMAIN counters : counters[p].start \in Ticks
      BY DEF TypeOK
    <3> QED
      BY <3>1, <3>2, <3>3, LenProperties, ElementOfSeq
  <2>3. ASSUME NEW p \in Peers, NEW S \in [1..Len(admitted[p]) -> Nat],
               Windowed(p, S), Charged(counters, p, S)
        PROVE  Windowed(p, S)' /\ Charged(counters, p, S)'
    <3> DEFINE n == Len(admitted[p])
    <3>1. n \in Nat /\ \A i \in 1..n : S[i] \in Nat /\ admitted[p][i] \in Nat
      <4>1. n \in Nat /\ \A i \in 1..n : admitted[p][i] \in Nat
        BY <2>2, Zenon
      <4>2. \A i \in 1..n : S[i] \in Nat
        OBVIOUS
      <4> QED
        BY <4>1, <4>2
    <3>2. Windowed(p, S)'
      BY <2>1, <2>3, <3>1 DEF Windowed
    <3>3. CASE p \in DOMAIN counters
      <4>1. /\ counters[p].total <= n /\ counters[p].start <= now + 1
            /\ \A i \in 1..n : IF i > n - counters[p].total THEN S[i] = counters[p].start
                               ELSE S[i] + RateWindow <= counters[p].start
        <5>1. counters[p].start \in Nat
          BY <2>2, <3>3, Zenon
        <5> QED
          BY <2>1, <2>3, <3>3, <5>1 DEF Charged
      <4> QED
        BY <2>1, <3>2, <3>3, <4>1 DEF Charged
    <3>4. CASE p \notin DOMAIN counters
      <4>1. \A i \in 1..n : S[i] + RateWindow <= now + 1
        BY <2>1, <2>3, <3>1, <3>4, Sizes DEF Charged
      <4> QED
        BY <2>1, <3>2, <3>4, <4>1 DEF Charged
    <3> QED
      BY <3>3, <3>4
  <2> QED
    BY <2>1, <2>3 DEF RateInv
<1>3. ASSUME NEW c \in Conns, NEW known \in BOOLEAN, Arrive(c, known)
      PROVE  RateInv(counters)'
  <2> DEFINE p == PeerOf[c]
             map == CountersWith(p)
  <2>1. p \in Peers /\ RateInv(map) /\ now' = now
    BY <1>3, RateLookup, Sizes DEF Arrive
  <2>2. /\ p \in DOMAIN map
        /\ map[p] \in [start : Ticks, total : 0..RateMax, failures : 0..AuthMax]
        /\ ~Expired(map[p])
    <3>1. ~Expired(Fresh)
      BY Sizes DEF Expired, Fresh, TypeOK, Ticks
    <3> QED
      BY <2>1, <3>1, CountersKept
  <2> HIDE DEF map
  <2>3. CASE counters' = map /\ UNCHANGED admitted
    BY <2>1, <2>3 DEF RateInv, Windowed, Charged
  <2>4. CASE /\ ~(map[p].total >= RateMax)
             /\ \E d \in {0, 1} : counters' = [map EXCEPT ![p].total = @ + 1, ![p].failures = @ + d]
             /\ admitted' = [admitted EXCEPT ![p] = Append(@, now)]
    <3>1. PICK d \in {0, 1} : counters' = [map EXCEPT ![p].total = @ + 1, ![p].failures = @ + d]
      BY <2>4
    <3>2. /\ map[p].total \in Nat /\ map[p].start \in Nat /\ map[p].total < RateMax
          /\ now - map[p].start < RateWindow
      <4>1. map[p].total \in 0..RateMax /\ map[p].start \in 0..Horizon /\ now \in Nat
        BY SMTT(30), <2>2, Sizes DEF TypeOK, Ticks
      <4> QED
        BY SMTT(30), <2>2, <2>4, <4>1, Sizes DEF Expired
    <3>3. /\ p \in DOMAIN counters'
          /\ counters'[p].total = map[p].total + 1 /\ counters'[p].start = map[p].start
          /\ \A q \in Peers \ {p} :
               /\ q \in DOMAIN map <=> q \in DOMAIN counters'
               /\ q \in DOMAIN map => counters'[q] = map[q]
      BY <2>2, <3>1
    <3> QED
      BY <2>1, <2>2, <2>4, <3>2, <3>3, RateCharged
  <2>5. (IF known THEN 0 ELSE 1) \in {0, 1}
    OBVIOUS
  <2> QED
    BY <1>3, <2>3, <2>4, <2>5 DEF Arrive, map
<1> QED
  BY <1>1, <1>2, <1>3
     DEF Next, ArriveLocal, VerifyNew, VerifyAgain, VerifyFails, Handle, CallsOurs, LoopEnds,
         Dispatch, Respond, Vanish, Bury, admission

-----------------------------------------------------------------------------
(* The nonce cache                                                         *)

\* A nonempty set of numbers has a least element.
LEMMA LeastElement ==
  ASSUME NEW S \in SUBSET Nat, S # {}
  PROVE  \E m \in S : \A i \in S : m <= i
<1>1. PICK m \in S : \A i \in S : ~ (<<i, m>> \in OpToRel(<, Nat))
  BY NatLessThanWellFounded, WFMin
<1>2. ASSUME NEW i \in S PROVE m <= i
  <2>1. ~ (i < m)
    BY <1>1 DEF OpToRel
  <2> QED
    BY <2>1
<1> QED
  BY <1>2

\* Requests of one address that are m budgets apart are in windows m apart.
LEMMA WindowsApart ==
  ASSUME NEW len \in Nat, NEW S \in [1..len -> Nat],
         \A i \in 1..len - RateMax : S[i] + RateWindow <= S[i + RateMax],
         NEW i \in 1..len, NEW m \in Nat, i + m * RateMax <= len
  PROVE  S[i] + m * RateWindow <= S[i + m * RateMax]
<1> DEFINE Bad == {k \in Nat : /\ i + k * RateMax <= len
                              /\ ~(S[i] + k * RateWindow <= S[i + k * RateMax])}
<1> SUFFICES ASSUME Bad # {} PROVE FALSE
  OBVIOUS
<1>1. PICK k \in Bad : \A j \in Bad : k <= j
  <2> HIDE DEF Bad
  <2>1. Bad \subseteq Nat
    BY DEF Bad
  <2> QED
    BY <2>1, LeastElement
<1>2. k \in Nat /\ i + k * RateMax <= len /\ ~(S[i] + k * RateWindow <= S[i + k * RateMax])
  BY <1>1
<1>3. CASE k = 0
  <2>1. 0 * RateMax = 0 /\ 0 * RateWindow = 0 /\ S[i] \in Nat
    BY Sizes
  <2> QED
    BY <1>2, <1>3, <2>1
<1>4. CASE k # 0
  <2> DEFINE j == k - 1
             kr == k * RateMax
             kw == k * RateWindow
             jr == j * RateMax
             jw == j * RateWindow
  <2>1. j \in Nat /\ j < k
    BY <1>2, <1>4
  <2>2. /\ kr = jr + RateMax /\ kw = jw + RateWindow
        /\ jr \in Nat /\ jw \in Nat /\ kr \in Nat /\ kw \in Nat
    BY <1>2, <2>1, Sizes, Z3
  <2>3. j \notin Bad
    BY <1>1, <1>2, <2>1
  <2>4. i + jr <= len => S[i] + jw <= S[i + jr]
    BY <2>1, <2>3
  <2>5. i + kr <= len /\ ~(S[i] + kw <= S[i + kr])
    BY <1>2
  <2> HIDE DEF Bad, j, kr, kw, jr, jw
  <2>6. i + jr \in 1..len /\ (i + jr) + RateMax = i + kr /\ i + jr \in 1..len - RateMax
        /\ i + kr \in 1..len
    <3>1. (i + jr) + RateMax = i + kr
      BY <2>2, Sizes
    <3>2. i + kr \in 1..len
      BY SMTT(30), <2>2, <2>5
    <3>3. RateMax \in Nat /\ 1 <= RateMax
      BY Sizes
    <3> HIDE DEF kr, jr
    <3>4. i + jr >= 1 /\ i + jr = i + kr - RateMax
      BY <2>2, <3>1, <3>3
    <3>5. i + jr \in Int /\ len \in Int /\ i + kr <= len
      BY <2>2, <3>2
    <3> QED
      BY SMTT(30), <3>1, <3>2, <3>3, <3>4, <3>5
  <2>7. S[i + jr] + RateWindow <= S[(i + jr) + RateMax]
    BY <2>6
  <2>8. S[i] \in Nat /\ S[i + jr] \in Nat /\ S[i + kr] \in Nat
    BY <2>6
  <2> QED
    BY SMTT(30), <2>2, <2>4, <2>5, <2>6, <2>7, <2>8, Sizes
<1> QED
  BY <1>3, <1>4

\* While a message is fresh, the limiter lets no more past it than the budgets of
\* all addresses over the windows that this span can touch.
LEMMA SinceBounded ==
  ASSUME TypeOK, RateInv(counters), NEW n \in 1..Len(stamp), now <= stamp[n] + Skew
  PROVE  Cardinality(Since(n)) <= Cardinality(Peers) * (RateMax * WindowsPerMessage)
<1> DEFINE most == RateMax * WindowsPerMessage
           place(x) == Len(admitted[x[1]]) - x[2]
           f == [x \in Since(n) |-> <<x[1], place(x)>>]
<1>m. most \in Nat /\ most > 0 /\ WindowsPerMessage \in Nat
  BY Sizes, WindowsSpan, Z3
<1>s. stamp[n] \in Nat /\ now \in Nat
  BY LenProperties, ElementOfSeq DEF TypeOK, Ticks
<1>1. ASSUME NEW x \in Since(n)
      PROVE  /\ x[1] \in Peers /\ x[2] \in Nat /\ place(x) \in 0..most - 1
             /\ x = <<x[1], x[2]>> /\ Len(admitted[x[1]]) \in Nat
  <2> DEFINE p == x[1]
             i == x[2]
             len == Len(admitted[p])
  <2>1. x \in Peers \X Nat /\ i \in 1..len /\ admitted[p][i] + Skew >= stamp[n]
    BY DEF Since, Admissions
  <2>2. p \in Peers /\ x = <<x[1], x[2]>>
    BY <2>1
  <2>3. admitted[p] \in Seq(Ticks) /\ len \in Nat
    BY <2>2, LenProperties DEF TypeOK
  <2>4. PICK S \in [1..len -> Nat] : Windowed(p, S)
    BY <2>2 DEF RateInv
  <2>5. /\ \A j \in 1..len : /\ S[j] <= admitted[p][j] /\ admitted[p][j] < S[j] + RateWindow
                           /\ admitted[p][j] <= now
        /\ \A j \in 1..len - RateMax : S[j] + RateWindow <= S[j + RateMax]
    BY <2>4 DEF Windowed
  <2>6. ~(i + most <= len)
    <3> SUFFICES ASSUME i + most <= len PROVE FALSE
      OBVIOUS
    <3>1. most = WindowsPerMessage * RateMax
      BY Sizes, <1>m, Z3
    <3>2. S[i] + WindowsPerMessage * RateWindow <= S[i + most]
      BY <1>m, <2>1, <2>3, <2>5, <3>1, WindowsApart
    <3>3. i + most \in 1..len
      BY <1>m, <2>1, <2>3
    <3>4. S[i + most] <= now /\ admitted[p][i] < S[i] + RateWindow
      <4>1. /\ S[i + most] <= admitted[p][i + most] /\ admitted[p][i + most] <= now
            /\ S[i + most] \in Nat /\ admitted[p][i + most] \in Nat
        <5>1. admitted[p][i + most] \in Ticks
          BY <2>3, <3>3, ElementOfSeq
        <5> QED
          BY <2>5, <3>3, <5>1, Sizes DEF Ticks
      <4> QED
        BY SMTT(30), <1>s, <2>1, <2>5, <4>1
    <3>5. S[i] \in Nat /\ admitted[p][i] \in Nat
      <4>1. admitted[p][i] \in Ticks
        BY <2>1, <2>3, ElementOfSeq
      <4> QED
        BY <2>1, <4>1, Sizes DEF Ticks
    <3>6. /\ WindowsPerMessage * RateWindow = (WindowsPerMessage - 1) * RateWindow + RateWindow
          /\ (WindowsPerMessage - 1) * RateWindow \in Int
          /\ (WindowsPerMessage - 1) * RateWindow >= 2 * Skew
      BY WindowsSpan, Sizes, Z3
    <3>7. S[i + most] \in Nat
      BY <3>3
    <3> DEFINE w == (WindowsPerMessage - 1) * RateWindow
               u == WindowsPerMessage * RateWindow
               a == admitted[p][i]
               b == S[i]
               e == S[i + most]
    <3>8. /\ u = w + RateWindow /\ w \in Int /\ w >= 2 * Skew
          /\ b + u <= e /\ e <= now /\ a < b + RateWindow /\ a + Skew >= stamp[n]
          /\ b \in Nat /\ a \in Nat /\ e \in Nat
      BY <2>1, <3>2, <3>4, <3>5, <3>6, <3>7
    <3> HIDE DEF w, u, a, b, e
    <3> QED
      BY <1>s, <3>8, Sizes
  <2>7. i \in Nat /\ place(x) \in 0..most - 1
    BY SMTT(30), <1>m, <2>1, <2>3, <2>6
  <2> QED
    BY <2>1, <2>2, <2>3, <2>7
<1> HIDE DEF most
<1>2. f \in Injection(Since(n), Peers \X (0..most - 1))
  <2>1. f \in [Since(n) -> Peers \X (0..most - 1)]
    BY <1>1
  <2>2. ASSUME NEW x \in Since(n), NEW y \in Since(n), f[x] = f[y]
        PROVE  x = y
    <3>1. x[1] = y[1] /\ place(x) = place(y)
      BY <2>2
    <3>2. x[2] = y[2]
      BY <1>1, <3>1
    <3> QED
      BY <1>1, <3>1, <3>2
  <2> QED
    BY <2>1, <2>2 DEF Injection, IsInjective
<1>3. IsFiniteSet(0..most - 1) /\ Cardinality(0..most - 1) = most
  <2>1. 0 \in Int /\ most - 1 \in Int /\ ~(0 > most - 1) /\ most - 1 - 0 + 1 = most
    BY <1>m
  <2> QED
    BY <2>1, FS_Interval
<1>4. /\ IsFiniteSet(Peers \X (0..most - 1))
      /\ Cardinality(Peers \X (0..most - 1)) = Cardinality(Peers) * most
  BY <1>3, Sizes, FS_Product
<1> HIDE DEF f
<1> QED
  BY <1>2, <1>4, FS_Injection DEF most

\* The connections that wait for their message are finitely many.
LEMMA WaitingFinite ==
  IsFiniteSet(Waiting) /\ Cardinality(Waiting) \in Nat
  BY Sizes, FS_Subset, FS_CardinalityType DEF Waiting

\* So are the requests that were let past the limiter while n was fresh.
LEMMA SinceFinite ==
  ASSUME IsFiniteSet(Admissions), NEW n
  PROVE  IsFiniteSet(Since(n)) /\ Cardinality(Since(n)) \in Nat
  BY FS_Subset, FS_CardinalityType DEF Since

\* What is known of message n: the cache has it, or has forgotten it for good
\* reason.
Remembers(n) ==
  \/ \E i \in 1..Len(seen) : seen[i] = n /\ Outnumbered(n, Len(seen) - i)
  \/ Outnumbered(n, NonceMax)

\* A step in which no message is looked at, no request let past the limiter and
\* none begins to wait.
LEMMA NonceKept ==
  ASSUME TypeOK, NonceInv,
         UNCHANGED <<stamp, seen, verified, admitted>>,
         now' \in Nat, now' >= now,
         Waiting' \subseteq Waiting
  PROVE  NonceInv'
<1>1. /\ Cardinality(Waiting') \in Nat /\ Cardinality(Waiting) \in Nat
      /\ Cardinality(Waiting') <= Cardinality(Waiting)
  BY WaitingFinite, FS_Subset, FS_CardinalityType
<1>2. Admissions' = Admissions /\ \A n : Since(n)' = Since(n)
  BY DEF Admissions, Since
<1>3. ASSUME NEW n \in 1..Len(stamp), NEW k \in Nat, Outnumbered(n, k)
      PROVE  Outnumbered(n, k)'
  <2>1. Since(n)' = Since(n) /\ Cardinality(Since(n)) \in Nat
    BY <1>2, SinceFinite DEF NonceInv
  <2> QED
    BY <1>1, <1>3, <2>1, Sizes DEF Outnumbered
<1>4. /\ Len(seen) \in Nat /\ \A i \in 1..Len(seen) : Len(seen) - i \in Nat
      /\ now \in Nat /\ \A n \in 1..Len(stamp) : stamp[n] \in Nat
  BY LenProperties, ElementOfSeq DEF TypeOK, Ticks
<1>5. ASSUME NEW n \in 1..Len(stamp), verified[n] = 1
      PROVE  stamp[n] <= now' + Skew /\ Remembers(n)'
  BY <1>3, <1>4, <1>5, Sizes DEF NonceInv, Remembers
<1> QED
  BY <1>2, <1>5 DEF NonceInv, Remembers

\* A request is let past the limiter: each message that may be fresh counts it.
LEMMA NonceArrive ==
  ASSUME TypeOK, NonceInv, NEW c \in Conns, NEW p \in Peers,
         UNCHANGED <<stamp, seen, verified, now>>,
         admitted' = [admitted EXCEPT ![p] = Append(@, now)],
         Waiting' \subseteq Waiting \union {c}
  PROVE  NonceInv'
<1> DEFINE m == Len(admitted[p]) + 1
<1>m. /\ m \in Nat /\ now \in Nat /\ admitted[p] \in Seq(Ticks)
      /\ m = Len(admitted[p]) + 1 /\ m - 1 = Len(admitted[p])
  BY LenProperties DEF TypeOK, Ticks
<1>1. /\ Len(admitted'[p]) = m
      /\ \A i \in 1..m - 1 : admitted'[p][i] = admitted[p][i]
      /\ admitted'[p][m] = now
      /\ \A q \in Peers \ {p} : admitted'[q] = admitted[q]
  BY <1>m, AppendProperties DEF TypeOK, Ticks
<1> HIDE DEF m
<1>2. Admissions' = Admissions \union {<<p, m>>} /\ <<p, m>> \notin Admissions
  <2>1. \A i \in Nat : i \in 1..m <=> i = m \/ i \in 1..m - 1
    BY <1>m
  <2>2. ~(m \in 1..m - 1) /\ m \in 1..m
    BY <1>m
  <2> QED
    BY <1>m, <1>1, <2>1, <2>2 DEF Admissions
<1>3. ASSUME NEW n \in 1..Len(stamp), stamp[n] <= now + Skew
      PROVE  Since(n)' = Since(n) \union {<<p, m>>} /\ <<p, m>> \notin Since(n)
  <2>1. \A x \in Admissions : admitted'[x[1]][x[2]] = admitted[x[1]][x[2]]
    BY <1>m, <1>1 DEF Admissions
  <2>2. admitted'[p][m] + Skew >= stamp[n]
    <3>1. stamp[n] \in Nat
      BY ElementOfSeq DEF TypeOK
    <3> QED
      BY <1>1, <1>3, <1>m, <3>1, Sizes
  <2> DEFINE fresh(x) == admitted'[x[1]][x[2]] + Skew >= stamp[n]
  <2>3. Since(n)' = {x \in Admissions' : fresh(x)}
    BY DEF Since
  <2>4. Since(n) = {x \in Admissions : fresh(x)}
    BY <2>1 DEF Since
  <2>5. fresh(<<p, m>>)
    BY <2>2
  <2> HIDE DEF fresh
  <2> QED
    BY <1>2, <2>3, <2>4, <2>5
<1>4. /\ Cardinality(Waiting') \in Nat /\ Cardinality(Waiting) \in Nat
      /\ Cardinality(Waiting') <= Cardinality(Waiting) + 1
  <2>1. /\ IsFiniteSet(Waiting \union {c})
        /\ Cardinality(Waiting \union {c}) <= Cardinality(Waiting) + 1
        /\ Cardinality(Waiting \union {c}) \in Nat
    <3>1. /\ IsFiniteSet(Waiting \union {c})
          /\ Cardinality(Waiting \union {c}) \in {Cardinality(Waiting), Cardinality(Waiting) + 1}
      BY WaitingFinite, FS_AddElement
    <3> QED
      BY <3>1, WaitingFinite
  <2>2. IsFiniteSet(Waiting') /\ Cardinality(Waiting') <= Cardinality(Waiting \union {c})
    BY <2>1, FS_Subset
  <2>3. Cardinality(Waiting') \in Nat /\ Cardinality(Waiting) \in Nat
    BY <2>2, WaitingFinite, FS_CardinalityType
  <2> QED
    BY <2>1, <2>2, <2>3
<1>5. ASSUME NEW n \in 1..Len(stamp), NEW k \in Nat, stamp[n] <= now + Skew, Outnumbered(n, k)
      PROVE  Outnumbered(n, k)'
  <2>1. IsFiniteSet(Since(n)) /\ Cardinality(Since(n)) \in Nat
    BY SinceFinite DEF NonceInv
  <2>2. Cardinality(Since(n)') = Cardinality(Since(n)) + 1
    BY <1>3, <1>5, <2>1, FS_AddElement
  <2> QED
    BY <1>4, <1>5, <2>1, <2>2, Sizes DEF Outnumbered
<1>6. Len(seen) \in Nat /\ \A i \in 1..Len(seen) : Len(seen) - i \in Nat
  BY LenProperties DEF TypeOK
<1>7. ASSUME NEW n \in 1..Len(stamp), verified[n] = 1
      PROVE  stamp[n] <= now' + Skew /\ Remembers(n)'
  BY <1>5, <1>6, <1>7, Sizes DEF NonceInv, Remembers
<1>8. IsFiniteSet(Admissions')
  BY <1>2, FS_AddElement DEF NonceInv
<1> QED
  BY <1>7, <1>8 DEF NonceInv, Remembers

\* A message is accepted, of a request that no longer waits for it: one more
\* after all that were accepted before.
LEMMA NonceAccept ==
  ASSUME TypeOK, NonceInv, NEW c \in Waiting, NEW m \in Nat, NEW new \in 1..m,
         seen \in Seq(1..m), seen' = Remember(new),
         UNCHANGED <<admitted, now>>,
         Waiting' \subseteq Waiting \ {c},
         NEW n \in 1..Len(stamp), stamp'[n] = stamp[n], verified[n] = 1
  PROVE  Remembers(n)'
<1>1. Admissions' = Admissions /\ Since(n)' = Since(n)
  BY DEF Admissions, Since
<1>2. /\ Cardinality(Waiting') \in Nat /\ Cardinality(Waiting) \in Nat
      /\ Cardinality(Waiting') <= Cardinality(Waiting) - 1
  <2>1. /\ IsFiniteSet(Waiting \ {c})
        /\ Cardinality(Waiting \ {c}) = Cardinality(Waiting) - 1
        /\ Cardinality(Waiting) \in Nat
    BY WaitingFinite, FS_RemoveElement
  <2>2. IsFiniteSet(Waiting') /\ Cardinality(Waiting') <= Cardinality(Waiting \ {c})
    BY <2>1, FS_Subset
  <2> QED
    BY <2>1, <2>2, FS_CardinalityType
<1>3. ASSUME NEW STATE k, NEW ACTION l, k \in Nat, l \in Nat, l <= k + 1, Outnumbered(n, k)
      PROVE  l + Cardinality(Waiting') <= Cardinality(Since(n)') + Concurrency - 1
  <2>1. Cardinality(Since(n)) \in Nat
    BY SinceFinite DEF NonceInv
  <2> QED
    BY SMTT(30), <1>1, <1>2, <1>3, <2>1, Sizes DEF Outnumbered
<1>s. Len(seen) \in Nat /\ NonceMax \in Nat /\ Len(seen) <= NonceMax
  BY Sizes, LenProperties DEF TypeOK
<1>4. CASE Outnumbered(n, NonceMax)
  <2>1. Outnumbered(n, NonceMax)'
    <3>1. NonceMax \in Nat /\ NonceMax <= NonceMax + 1
      BY Sizes
    <3> QED
      BY <1>3, <1>4, <3>1 DEF Outnumbered
  <2> QED
    BY <2>1 DEF Remembers
<1>5. ASSUME NEW i \in 1..Len(seen), seen[i] = n, Outnumbered(n, Len(seen) - i)
      PROVE  Remembers(n)'
  <2>1. CASE /\ Len(seen') = Len(seen) + 1
             /\ \A j \in 1..Len(seen) : seen'[j] = seen[j]
    <3>1. i \in 1..Len(seen') /\ seen'[i] = n
      BY <1>5, <1>s, <2>1
    <3>2. Len(seen) - i \in Nat /\ Len(seen') - i \in Nat /\ Len(seen') - i <= (Len(seen) - i) + 1
      BY <1>s, <2>1
    <3>3. Outnumbered(n, Len(seen) - i)'
      BY <1>3, <1>5, <3>2 DEF Outnumbered
    <3> QED
      BY <3>1, <3>3 DEF Remembers
  <2>2. CASE /\ Len(seen) = NonceMax /\ Len(seen') = NonceMax
             /\ \A j \in 1..NonceMax - 1 : seen'[j] = seen[j + 1]
    <3>1. CASE i = 1
      <4>1. Len(seen) - i \in Nat /\ NonceMax <= (Len(seen) - i) + 1
        BY <1>s, <2>2, <3>1
      <4>2. Outnumbered(n, NonceMax)'
        BY <1>3, <1>5, <1>s, <4>1 DEF Outnumbered
      <4> QED
        BY <4>2 DEF Remembers
    <3>2. CASE i # 1
      <4>1. /\ i - 1 \in 1..Len(seen') /\ i - 1 \in 1..NonceMax - 1
            /\ Len(seen) - i \in Nat /\ Len(seen') - (i - 1) \in Nat
            /\ Len(seen') - (i - 1) <= (Len(seen) - i) + 1
            /\ (i - 1) + 1 = i
        <5> DEFINE len == Len(seen)
        <5>1. i \in 1..len /\ len \in Nat /\ len = NonceMax /\ Len(seen') = len /\ i # 1
          BY <1>s, <2>2, <3>2
        <5> HIDE DEF len
        <5>2. /\ i - 1 \in 1..len /\ i - 1 \in 1..len - 1
              /\ len - i \in Nat /\ len - (i - 1) \in Nat
              /\ len - (i - 1) <= (len - i) + 1
              /\ (i - 1) + 1 = i
          BY <5>1
        <5> QED
          BY <5>1, <5>2 DEF len
      <4>2. seen'[i - 1] = n
        BY <1>5, <2>2, <4>1
      <4>3. Outnumbered(n, Len(seen) - (i - 1))'
        BY <1>3, <1>5, <4>1 DEF Outnumbered
      <4> QED
        BY <4>1, <4>2, <4>3 DEF Remembers
    <3> QED
      BY <3>1, <3>2
  <2> QED
    BY <1>s, <2>1, <2>2, Remembered
<1> QED
  BY <1>4, <1>5 DEF NonceInv, Remembers

\* The message that is accepted now is the newest in the cache, and every request
\* that still waits for its message has a slot beside that of c.
LEMMA NonceNewest ==
  ASSUME TypeOK, SlotInv, NEW c \in Waiting, NEW m \in Nat, NEW new \in 1..m,
         seen \in Seq(1..m), seen' = Remember(new),
         IsFiniteSet(Admissions'),
         Waiting' \subseteq Waiting \ {c}
  PROVE  Remembers(new)'
<1>1. \E i \in 1..Len(seen') : seen'[i] = new /\ Len(seen') - i = 0
  <2>1. Len(seen) \in Nat /\ Len(seen) <= NonceMax /\ NonceMax \in Nat /\ NonceMax > 0
    BY CacheHasRoom, Sizes, LenProperties DEF TypeOK
  <2>2. CASE Len(seen') = Len(seen) + 1 /\ seen'[Len(seen) + 1] = new
    <3>1. Len(seen') \in 1..Len(seen') /\ Len(seen') - Len(seen') = 0
      BY <2>1, <2>2
    <3> QED
      BY <2>2, <3>1
  <2>3. CASE Len(seen') = NonceMax /\ seen'[NonceMax] = new
    <3>1. NonceMax \in 1..NonceMax /\ NonceMax - NonceMax = 0
      BY <2>1
    <3> QED
      BY <2>3, <3>1
  <2> QED
    BY <2>1, <2>2, <2>3, Remembered
<1>2. /\ Cardinality(Waiting') \in Nat
      /\ Cardinality(Waiting') <= Concurrency - 1
  <2>1. IsFiniteSet(holders)
    BY Sizes, FS_Subset DEF TypeOK
  <2>2. IsFiniteSet(holders \ {c}) /\ Cardinality(holders \ {c}) = Cardinality(holders) - 1
    BY <2>1, FS_RemoveElement DEF SlotInv
  <2>3. Waiting' \subseteq holders \ {c}
    BY DEF SlotInv
  <2>4. Cardinality(Waiting') \in Nat /\ Cardinality(Waiting') <= Cardinality(holders \ {c})
    BY <2>2, <2>3, FS_Subset, FS_CardinalityType
  <2> QED
    BY <2>2, <2>4, Sizes DEF SlotInv, SlotsAreHeld, TypeOK
<1>3. Cardinality(Since(new)') \in Nat
  BY FS_Subset, FS_CardinalityType DEF Since
<1>4. 0 + Cardinality(Waiting') <= Cardinality(Since(new)') + Concurrency - 1
  BY <1>2, <1>3, Sizes
<1> QED
  BY <1>1, <1>4 DEF Remembers, Outnumbered

\* So every step keeps what is known of the messages; above all none is accepted
\* again: it would have outlived more messages than were let past the limiter.
LEMMA NonceNext == GuardInv /\ Next /\ TypeOK' => NonceInv'
<1> SUFFICES ASSUME GuardInv, Next, TypeOK' PROVE NonceInv'
  OBVIOUS
<1> USE DEF GuardInv
<1>0. now \in Nat /\ now' \in Nat /\ Len(stamp) \in Nat /\ Len(seen) \in Nat
  BY LenProperties DEF TypeOK, Ticks
<1>1. ASSUME UNCHANGED <<stamp, seen, verified, admitted>>, now' >= now, Waiting' \subseteq Waiting
      PROVE  NonceInv'
  BY <1>0, <1>1, NonceKept
<1>2. CASE Tick
  BY <1>0, <1>1, <1>2 DEF Tick, admission, signing, Waiting
<1>3. ASSUME NEW c \in Conns,
             \/ ArriveLocal(c)
             \/ VerifyFails(c)
             \/ Handle(c)
             \/ Respond(c)
             \/ Vanish(c)
             \/ \E finished \in BOOLEAN : Bury(c, finished)
      PROVE  NonceInv'
  <2>1. UNCHANGED <<stamp, seen, verified, admitted, now>>
    BY <1>3 DEF ArriveLocal, VerifyFails, Handle, CallsOurs, LoopEnds, Dispatch, Respond,
                Vanish, Bury, signing, admission
  <2>2. /\ \A d \in Conns \ {c} : stage'[d] = stage[d] /\ (d \in gone => d \in gone')
        /\ stage'[c] = "body" => stage[c] = "body" /\ (c \in gone => c \in gone')
    BY SMTT(30), <1>3 DEF ArriveLocal, Acquire, VerifyFails, Handle, CallsOurs, LoopEnds, Dispatch,
                Respond, Vanish, Bury, Leave, TypeOK
  <2>3. Waiting' \subseteq Waiting
    BY <2>2 DEF Waiting
  <2> QED
    BY <1>0, <1>1, <2>1, <2>3
<1>4. ASSUME NEW c \in Conns, NEW known \in BOOLEAN, Arrive(c, known)
      PROVE  NonceInv'
  <2>1. UNCHANGED <<stamp, seen, verified, now, gone>>
    BY <1>4 DEF Arrive, signing
  <2>2. CASE UNCHANGED <<stage, admitted>>
    BY <1>0, <1>1, <2>1, <2>2 DEF Waiting
  <2>3. CASE admitted' = [admitted EXCEPT ![PeerOf[c]] = Append(@, now)]
    <3>1. Waiting' \subseteq Waiting \union {c}
      BY <1>4, <2>1 DEF Arrive, Acquire, Waiting, TypeOK
    <3> QED
      BY <2>1, <2>3, <3>1, NonceArrive, Sizes
  <2> QED
    BY <1>4, <2>2, <2>3 DEF Arrive
<1>5. ASSUME NEW c \in Conns, NEW offset \in Offsets, VerifyNew(c, now + offset)
      PROVE  NonceInv'
  <2> PICK m \in Nat : m = Len(stamp) + 1
    BY <1>0
  <2> PICK at \in Nat : at = now + offset
    BY <1>0, Sizes
  <2>0. VerifyNew(c, at)
    BY <1>5
  <2>1. /\ c \in Waiting /\ stamp' = Append(stamp, at)
        /\ Waiting' \subseteq Waiting \ {c}
        /\ UNCHANGED <<admitted, now>>
    BY <2>0 DEF VerifyNew, Waiting, admission, TypeOK
  <2>2. /\ Len(stamp') = m /\ stamp'[m] = at /\ m \in Nat
        /\ \A n \in 1..Len(stamp) : stamp'[n] = stamp[n]
    BY <1>0, <2>1, AppendProperties DEF TypeOK
  <2>3. verified \in Seq(Nat) /\ Len(verified) = Len(stamp)
    <3>1. verified \in [1..Len(stamp) -> Nat]
      BY DEF TypeOK
    <3>2. verified \in Seq(Nat)
      BY <1>0, <3>1, SeqDef
    <3> QED
      BY <1>0, <3>1, <3>2, LenProperties
  <2>4. IsFiniteSet(Admissions')
    BY <2>1 DEF NonceInv, Admissions
  <2>5. \A n \in 1..Len(stamp') : n = m \/ n \in 1..Len(stamp)
    BY <1>0, <2>2
  <2>6. CASE verified' = Append(verified, 0) /\ UNCHANGED seen
    <3>1. verified'[m] = 0 /\ \A n \in 1..Len(stamp) : verified'[n] = verified[n]
      BY <2>3, <2>6, AppendProperties
    <3>2. ASSUME NEW n \in 1..Len(stamp), verified[n] = 1
          PROVE  stamp'[n] <= now' + Skew /\ Remembers(n)'
      <4>1. Since(n)' = Since(n) /\ stamp[n] <= now + Skew /\ Remembers(n)
        BY <2>1, <2>2, <3>2 DEF Since, Admissions, NonceInv, Remembers
      <4>2. /\ Cardinality(Waiting') \in Nat /\ Cardinality(Waiting) \in Nat
            /\ Cardinality(Waiting') <= Cardinality(Waiting)
        BY <2>1, WaitingFinite, FS_Subset, FS_CardinalityType
      <4>3. Cardinality(Since(n)) \in Nat
        BY SinceFinite DEF NonceInv
      <4>4. ASSUME NEW k \in Nat, Outnumbered(n, k)
            PROVE  Outnumbered(n, k)'
        BY SMTT(30), <4>1, <4>2, <4>3, <4>4, Sizes DEF Outnumbered
      <4>5. \A i \in 1..Len(seen) : Len(seen) - i \in Nat
        BY <1>0
      <4> QED
        BY <2>1, <2>2, <2>6, <4>1, <4>4, <4>5, Sizes DEF Remembers
    <3> QED
      BY <2>4, <2>5, <3>1, <3>2 DEF NonceInv, Remembers
  <2>7. CASE /\ ~Stale(at) /\ verified' = Append(verified, 1) /\ seen' = Remember(m)
    <3>1. verified'[m] = 1 /\ \A n \in 1..Len(stamp) : verified'[n] = verified[n]
      BY <2>3, <2>7, AppendProperties
    <3>2. seen \in Seq(1..m) /\ m \in 1..m
      BY SMTT(30), <1>0, SeqMonotonic DEF TypeOK
    <3>3. ASSUME NEW n \in 1..Len(stamp), verified[n] = 1
          PROVE  stamp'[n] <= now' + Skew /\ Remembers(n)'
      BY <2>1, <2>2, <2>7, <3>2, <3>3, NonceAccept DEF NonceInv
    <3>4. stamp'[m] <= now' + Skew
      BY <1>0, <2>1, <2>2, <2>7, Sizes DEF Stale
    <3>5. Remembers(m)'
      BY <2>1, <2>4, <2>7, <3>2, NonceNewest
    <3> QED
      BY SMTT(30), <2>4, <2>5, <3>1, <3>3, <3>4, <3>5 DEF NonceInv, Remembers
  <2> QED
    BY <2>0, <2>6, <2>7 DEF VerifyNew
<1>6. ASSUME NEW c \in Conns, NEW n \in 1..Len(stamp), VerifyAgain(c, n)
      PROVE  NonceInv'
  <2>1. c \in Waiting /\ UNCHANGED <<stamp, admitted, now>> /\ Waiting' \subseteq Waiting \ {c}
    BY <1>6 DEF VerifyAgain, Waiting, admission, TypeOK
  <2>2. CASE UNCHANGED <<seen, verified>>
    BY <1>0, <1>1, <2>1, <2>2
  <2>3. CASE /\ ~Stale(stamp[n]) /\ n \notin Seen
             /\ seen' = Remember(n) /\ verified' = [verified EXCEPT ![n] = @ + 1]
    <3>s. stamp[n] \in Nat
      BY ElementOfSeq DEF TypeOK
    <3>1. verified[n] # 1
      <4> SUFFICES ASSUME verified[n] = 1 PROVE FALSE
        OBVIOUS
      <4>1. Outnumbered(n, NonceMax)
        BY <2>3 DEF NonceInv, Seen
      <4>2. Cardinality(Since(n)) <= Cardinality(Peers) * (RateMax * WindowsPerMessage)
        <5>1. now <= stamp[n] + Skew
          BY <1>0, <2>3, <3>s, Sizes DEF Stale
        <5> QED
          BY <5>1, SinceBounded
      <4>3. Cardinality(Waiting) \in Nat /\ Cardinality(Waiting) > 0
        BY <2>1, WaitingFinite, FS_EmptySet
      <4>4. Cardinality(Since(n)) \in Nat
        BY SinceFinite DEF NonceInv
      <4> DEFINE most == Cardinality(Peers) * (RateMax * WindowsPerMessage)
      <4>5. most \in Nat
        BY CacheHasRoom, WindowsSpan, Sizes, Z3
      <4>6. NonceMax >= most + Concurrency - 1 /\ Cardinality(Since(n)) <= most
        BY <4>2, CacheHasRoom
      <4> HIDE DEF most
      <4> QED
        BY <4>1, <4>3, <4>4, <4>5, <4>6, Sizes DEF Outnumbered
    <3>2. verified[n] = 0
      <4>1. verified[n] \in Nat /\ verified[n] <= 1
        BY Zenon DEF NonceInv, TypeOK
      <4> QED
        BY <3>1, <4>1
    <3>3. verified'[n] = 1 /\ \A k \in 1..Len(stamp) : k # n => verified'[k] = verified[k]
      BY <2>3, <3>2 DEF TypeOK
    <3>4. ASSUME NEW k \in 1..Len(stamp), verified[k] = 1
          PROVE  stamp'[k] <= now' + Skew /\ Remembers(k)'
      BY <1>0, <2>1, <2>3, <3>4, NonceAccept DEF NonceInv, TypeOK
    <3>5. stamp'[n] <= now' + Skew
      BY <1>0, <2>1, <2>3, <3>s, Sizes DEF Stale
    <3>6. IsFiniteSet(Admissions')
      BY <2>1 DEF NonceInv, Admissions
    <3>7. Remembers(n)'
      BY <1>0, <2>1, <2>3, <3>6, NonceNewest DEF TypeOK
    <3> QED
      BY <2>1, <3>3, <3>4, <3>5, <3>6, <3>7 DEF NonceInv, Remembers
  <2> QED
    BY <1>6, <2>2, <2>3 DEF VerifyAgain
<1> QED
  BY <1>2, <1>3, <1>4, <1>5, <1>6 DEF Next

-----------------------------------------------------------------------------
(* The theorems                                                            *)

\* The invariant holds of the first start.
LEMMA InitGuardInv == Init => GuardInv
<1> SUFFICES ASSUME Init PROVE GuardInv
  OBVIOUS
<1>1. TypeOK
  BY InitTypeOK
<1>2. SlotInv
  BY FS_EmptySet, Sizes DEF Init, SlotInv, SlotsAreHeld, Waiting
<1>3. LoopInv
  BY Sizes DEF Init, LoopInv, EffectsLeaveATurn
<1>4. RateInv(counters)
  <2> SUFFICES ASSUME NEW p \in Peers
               PROVE  \E S \in [1..Len(admitted[p]) -> Nat] :
                        Windowed(p, S) /\ Charged(counters, p, S)
    BY DEF RateInv
  <2>1. Len(admitted[p]) = 0 /\ p \notin DOMAIN counters
    BY DEF Init
  <2>2. Windowed(p, [i \in 1..0 |-> 0]) /\ Charged(counters, p, [i \in 1..0 |-> 0])
    BY <2>1, Sizes DEF Windowed, Charged
  <2>3. [i \in 1..0 |-> 0] \in [1..0 -> Nat]
    OBVIOUS
  <2> QED
    BY <2>1, <2>2, <2>3
<1>5. NonceInv
  <2>1. Len(stamp) = 0 /\ \A p \in Peers : Len(admitted[p]) = 0
    BY DEF Init
  <2>2. Admissions = {}
    BY <2>1 DEF Admissions
  <2> QED
    BY <2>1, <2>2, FS_EmptySet DEF NonceInv
<1> QED
  BY <1>1, <1>2, <1>3, <1>4, <1>5 DEF GuardInv

\* The types are kept by every step.
LEMMA TypeNext == GuardInv /\ Next => TypeOK'
<1> SUFFICES ASSUME GuardInv, Next PROVE TypeOK'
  OBVIOUS
<1>1. CASE Tick
  <2>1. now + 1 \in Ticks
    BY <1>1, Sizes DEF Tick, Ticks, GuardInv, TypeOK
  <2> QED
    BY <1>1, <2>1 DEF Tick, admission, signing, handling, GuardInv, TypeOK
<1>2. ASSUME NEW c \in Conns,
             \/ \E known \in BOOLEAN : Arrive(c, known)
             \/ ArriveLocal(c)
             \/ \E offset \in Offsets : VerifyNew(c, now + offset)
             \/ \E n \in 1..Len(stamp) : VerifyAgain(c, n)
             \/ VerifyFails(c)
             \/ Handle(c)
             \/ Respond(c)
             \/ Vanish(c)
             \/ \E finished \in BOOLEAN : Bury(c, finished)
      PROVE  TypeOK'
  BY <1>2, ArriveTypes, VerdictTypes, HandleTypes, EndTypes DEF GuardInv, SlotInv
<1> QED
  BY <1>1, <1>2 DEF Next

\* And so is the invariant.
LEMMA NextGuardInv == GuardInv /\ [Next]_vars => GuardInv'
<1> SUFFICES ASSUME GuardInv, [Next]_vars PROVE GuardInv'
  OBVIOUS
<1>1. CASE Next
  BY <1>1, TypeNext, SlotsNext, LoopNext, RateNext, NonceNext DEF GuardInv
<1>2. CASE UNCHANGED vars
  BY ZenonT(60), <1>2 DEF vars, GuardInv, TypeOK, Ticks, SlotInv, SlotsAreHeld, Waiting, LoopInv,
              EffectsLeaveATurn, RateInv, Windowed, Charged, NonceInv, Admissions,
              Since, Outnumbered
<1> QED
  BY <1>1, <1>2

LEMMA GuardInvHolds == Spec => []GuardInv
  BY InitGuardInv, NextGuardInv, PTL DEF Spec

\* Every variable of the guard stays in range: no counter above its budget, no
\* more slots taken than there are, no cache longer than its limit.
THEOREM TypeCorrect == Spec => []TypeOK
<1>1. GuardInv => TypeOK
  BY DEF GuardInv
<1> QED
  BY <1>1, GuardInvHolds, PTL

\* A response and an abort of one request do not both give its slot back, so the
\* guard never counts fewer requests than it serves (auth.ts, release).
THEOREM SlotsHeld == Spec => []SlotsAreHeld
<1>1. GuardInv => SlotsAreHeld
  BY DEF GuardInv, SlotInv
<1> QED
  BY <1>1, GuardInvHolds, PTL

\* No address is let past the limiter more than twice its budget in the span of a
\* window, whoever fills the map of counters (auth.ts, counterFor).
THEOREM BurstIsBounded == Spec => []BurstBounded
<1>1. GuardInv => BurstBounded
  <2> SUFFICES ASSUME GuardInv, NEW p \in Peers, NEW i \in 1..Len(admitted[p]) - 2 * RateMax
               PROVE  admitted[p][i + 2 * RateMax] - admitted[p][i] > RateWindow
    BY DEF BurstBounded
  <2> DEFINE len == Len(admitted[p])
             times == admitted[p]
  <2>1. times \in Seq(Ticks) /\ len \in Nat
    BY LenProperties DEF GuardInv, TypeOK
  <2>2. PICK S \in [1..len -> Nat] : Windowed(p, S)
    BY DEF GuardInv, RateInv
  <2>3. /\ i \in 1..len /\ i \in 1..len - RateMax
        /\ i + RateMax \in 1..len - RateMax /\ i + 2 * RateMax \in 1..len
        /\ (i + RateMax) + RateMax = i + 2 * RateMax /\ i + RateMax \in 1..len
    BY <2>1, Sizes
  <2>4. /\ S[i] + RateWindow <= S[i + RateMax]
        /\ S[i + RateMax] + RateWindow <= S[(i + RateMax) + RateMax]
        /\ times[i] < S[i] + RateWindow
        /\ S[i + 2 * RateMax] <= times[i + 2 * RateMax]
    BY <2>2, <2>3 DEF Windowed
  <2>5. S[i] \in Nat /\ S[i + RateMax] \in Nat /\ S[i + 2 * RateMax] \in Nat
    BY <2>3
  <2>6. times[i] \in Nat /\ times[i + 2 * RateMax] \in Nat
    <3>1. times[i] \in Ticks /\ times[i + 2 * RateMax] \in Ticks
      BY <2>1, <2>3, ElementOfSeq
    <3> QED
      BY <3>1, Sizes DEF Ticks
  <2> HIDE DEF len, times
  <2>7. times[i + 2 * RateMax] - times[i] > RateWindow
    BY <2>3, <2>4, <2>5, <2>6, Sizes
  <2> QED
    BY <2>7 DEF times
<1> QED
  BY <1>1, GuardInvHolds, PTL

\* A signed message is accepted once, although the cache of nonces forgets, if it
\* holds what the rate limiter lets past while a message is fresh, and what had a
\* slot before (signing.ts, createNonceCache; auth.ts).
THEOREM Accepted == Spec => []AcceptedOnce
<1>1. GuardInv => AcceptedOnce
  BY DEF GuardInv, NonceInv, AcceptedOnce
<1> QED
  BY <1>1, GuardInvHolds, PTL

\* No batch of tools runs in the last turn of the budget
\* (tool-loop.ts, runToolLoop).
THEOREM TurnIsLeft == Spec => []EffectsLeaveATurn
<1>1. GuardInv => EffectsLeaveATurn
  BY DEF GuardInv, LoopInv
<1> QED
  BY <1>1, GuardInvHolds, PTL
=============================================================================
