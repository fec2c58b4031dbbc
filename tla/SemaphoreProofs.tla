---------------------------- MODULE SemaphoreProofs ----------------------------
(***************************************************************************)
(* What holds of the outbound limiter for any number of callers, permits   *)
(* and places in the queue, whichever callers may abort.                   *)
(***************************************************************************)
EXTENDS MCSemaphore, FiniteSetTheorems, SequenceTheorems, TLAPS

Slot == Callers \cup {Nobody}

-----------------------------------------------------------------------------
(* The occupied positions of an array                                      *)

\* A nonempty set of positive numbers has a least element.
LEMMA LeastElement ==
  ASSUME NEW S \in SUBSET Nat, S # {}
  PROVE  \E m \in S : \A i \in S : m <= i
<1>1. \E m \in S : \A i \in S : ~ (<<i, m>> \in OpToRel(<, Nat))
  BY NatLessThanWellFounded, WFMin
<1>2. PICK m \in S : \A i \in S : ~ (<<i, m>> \in OpToRel(<, Nat))
  BY <1>1
<1>3. ASSUME NEW i \in S PROVE m <= i
  <2>1. ~ (i < m)
    BY <1>2 DEF OpToRel
  <2> QED
    BY <2>1
<1> QED
  BY <1>3

\* The occupied slots of an array are finitely many.
LEMMA OccupiedFinite ==
  ASSUME NEW ws \in Seq(Slot)
  PROVE  /\ Occupied(ws) \in SUBSET Nat
         /\ Occupied(ws) \in SUBSET (1..Len(ws))
         /\ IsFiniteSet(Occupied(ws))
         /\ Cardinality(Occupied(ws)) \in Nat
<1>1. Len(ws) \in Nat
  BY LenProperties
<1>2. Occupied(ws) \in SUBSET (1..Len(ws)) /\ Occupied(ws) \in SUBSET Nat
  BY <1>1 DEF Occupied
<1>3. IsFiniteSet(1..Len(ws))
  BY <1>1, FS_Interval
<1> QED
  BY <1>2, <1>3, FS_Subset, FS_CardinalityType

\* The empty array has none.
LEMMA OccupiedEmpty ==
  Occupied(<<>>) = {} /\ Cardinality(Occupied(<<>>)) = 0
<1>1. Occupied(<<>>) = {}
  BY DEF Occupied
<1> QED
  BY <1>1, FS_EmptySet

\* A caller that is pushed occupies one slot more.
LEMMA OccupiedAppend ==
  ASSUME NEW ws \in Seq(Slot), NEW c \in Callers
  PROVE  Cardinality(Occupied(Append(ws, c))) = Cardinality(Occupied(ws)) + 1
<1> USE SemaphoreAssumption
<1>1. Len(ws) \in Nat /\ c # Nobody
  BY LenProperties
<1>2. Occupied(Append(ws, c)) = Occupied(ws) \cup {Len(ws) + 1}
  BY <1>1, AppendProperties DEF Occupied, Slot
<1>3. Len(ws) + 1 \notin Occupied(ws)
  BY <1>1 DEF Occupied
<1> QED
  BY <1>2, <1>3, OccupiedFinite, FS_AddElement

\* An abort that finds its slot occupied vacates exactly one.
LEMMA OccupiedVacate ==
  ASSUME NEW ws \in Seq(Slot), NEW i \in Occupied(ws)
  PROVE  /\ Cardinality(Occupied([ws EXCEPT ![i] = Nobody])) = Cardinality(Occupied(ws)) - 1
         /\ Cardinality(Occupied(ws)) > 0
<1>1. i \in 1..Len(ws) /\ Nobody \in Slot
  BY DEF Occupied, Slot
<1>2. Occupied([ws EXCEPT ![i] = Nobody]) = Occupied(ws) \ {i}
  BY <1>1, ExceptSeq DEF Occupied
<1>3. Cardinality(Occupied(ws)) # 0
  BY OccupiedFinite, FS_EmptySet
<1>4. IsFiniteSet(Occupied(ws)) /\ Cardinality(Occupied(ws)) \in Nat
  BY OccupiedFinite
<1>5. Cardinality(Occupied(ws) \ {i}) = Cardinality(Occupied(ws)) - 1
  BY <1>4, FS_RemoveElement
<1>6. Cardinality(Occupied([ws EXCEPT ![i] = Nobody])) = Cardinality(Occupied(ws) \ {i})
  BY <1>2, Zenon
<1>7. Cardinality(Occupied(ws)) > 0
  BY <1>3, <1>4
<1> QED
  BY <1>5, <1>6, <1>7, Zenon

\* The loop that makes one handoff shifts off everything up to the first
\* occupied slot.
LEMMA ShiftedToFirst ==
  ASSUME NEW ws \in Seq(Slot), Occupied(ws) # {}
  PROVE  /\ Shifted(ws, 1) \in Occupied(ws)
         /\ Occupied(ws) \cap (1..Shifted(ws, 1)) = {Shifted(ws, 1)}
<1> DEFINE Cut(n) == Cardinality(Occupied(ws) \cap (1..n)) = 1
<1>1. PICK m \in Occupied(ws) : \A i \in Occupied(ws) : m <= i
  BY OccupiedFinite, LeastElement
<1>2. Occupied(ws) \cap (1..m) = {m}
  BY <1>1, OccupiedFinite
<1>3. Cut(m)
  BY <1>2, FS_Singleton
<1>4. Shifted(ws, 1) = CHOOSE n \in Occupied(ws) : Cut(n)
  BY DEF Shifted
<1>5. Shifted(ws, 1) \in Occupied(ws) /\ Cut(Shifted(ws, 1))
  <2> HIDE DEF Cut
  <2> QED
    BY <1>1, <1>3, <1>4, Zenon
<1> DEFINE n == Shifted(ws, 1)
<1>6. IsFiniteSet(Occupied(ws) \cap (1..n))
  BY OccupiedFinite, FS_Subset
<1>7. PICK x : Occupied(ws) \cap (1..n) = {x}
  BY <1>5, <1>6, FS_Singleton
<1>8. n \in Occupied(ws) \cap (1..n)
  BY <1>5, OccupiedFinite
<1> QED
  BY <1>5, <1>7, <1>8

\* One occupied slot less is left after such a shift.
LEMMA OccupiedShift ==
  ASSUME NEW ws \in Seq(Slot), NEW cut \in Occupied(ws),
         Occupied(ws) \cap (1..cut) = {cut}
  PROVE  LET rest == SubSeq(ws, cut + 1, Len(ws))
         IN  /\ rest \in Seq(Slot)
             /\ Cardinality(Occupied(rest)) = Cardinality(Occupied(ws)) - 1
<1> DEFINE rest == SubSeq(ws, cut + 1, Len(ws))
           left == Occupied(ws) \ {cut}
           f == [i \in Occupied(rest) |-> i + cut]
<1>1. /\ Len(ws) \in Nat /\ cut \in 1..Len(ws)
      /\ \A i \in 1..Len(ws) : ws[i] \in Slot
  BY LenProperties, ElementOfSeq, OccupiedFinite
<1>2. /\ rest \in Seq(Slot)
      /\ Len(rest) = Len(ws) - cut
      /\ \A i \in 1..(Len(ws) - cut) : rest[i] = ws[cut + i]
  <2>1. \A i \in (cut + 1)..Len(ws) : ws[i] \in Slot
    BY <1>1
  <2>2. cut + 1 \in Int /\ Len(ws) \in Int
    BY <1>1
  <2>3. /\ rest \in Seq(Slot)
        /\ Len(rest) = IF cut + 1 <= Len(ws) THEN Len(ws) - (cut + 1) + 1 ELSE 0
        /\ \A i \in 1..(Len(ws) - (cut + 1) + 1) : rest[i] = ws[(cut + 1) + i - 1]
    BY <2>1, <2>2, SubSeqProperties
  <2> QED
    BY <1>1, <2>3
<1> HIDE DEF rest
<1>3. \A i \in Occupied(rest) : i \in Nat /\ i + cut \in left
  BY <1>1, <1>2 DEF Occupied
<1>4. \A j \in left : j > cut /\ j - cut \in Occupied(rest)
  BY <1>1, <1>2 DEF Occupied
<1>5. f \in Bijection(Occupied(rest), left)
  <2>1. f \in [Occupied(rest) -> left]
    BY <1>3
  <2>2. \A a, b \in Occupied(rest) : f[a] = f[b] => a = b
    BY <1>1, <1>3
  <2>3. \A t \in left : \E s \in Occupied(rest) : f[s] = t
    <3> SUFFICES ASSUME NEW t \in left
                 PROVE  \E s \in Occupied(rest) : f[s] = t
      OBVIOUS
    <3>1. t - cut \in Occupied(rest) /\ t \in Nat
      BY <1>4, OccupiedFinite
    <3>2. f[t - cut] = t
      BY <3>1, <1>1
    <3> QED
      BY <3>1, <3>2
  <2> HIDE DEF f
  <2> QED
    BY <2>1, <2>2, <2>3 DEF Bijection, Injection, Surjection, IsInjective
<1>6. IsFiniteSet(Occupied(rest))
  BY <1>2, OccupiedFinite
<1>7. Cardinality(left) = Cardinality(Occupied(rest))
  BY <1>5, <1>6, FS_Bijection DEF ExistsBijection
<1>8. Cardinality(left) = Cardinality(Occupied(ws)) - 1
  BY OccupiedFinite, FS_RemoveElement
<1> QED
  BY <1>2, <1>7, <1>8 DEF rest

-----------------------------------------------------------------------------
(* The invariant                                                           *)

\* A listener that still remembers a position is that of a waiting caller.
ListenersWait == \A c \in Callers : listener[c] # 0 => status[c] = "waiting"

\* What holds also where a holder drops its release closure.
CoreInv ==
  /\ TypeOK
  /\ LiveCountsSlots
  /\ NoIdlePermit
  /\ Cardinality(Holding) <= inFlight
  /\ ListenersWait

SemInv == CoreInv /\ Conservation

\* The invariant holds before any acquire.
LEMMA InitSemInv == Init => SemInv
<1> SUFFICES ASSUME Init PROVE SemInv
  OBVIOUS
<1> USE SemaphoreAssumption DEF Init
<1>1. TypeOK
  BY EmptySeq DEF TypeOK, Status
<1>2. Holding = {} /\ Waiting = {}
  BY DEF Holding, Waiting
<1>3. LiveCountsSlots /\ NoIdlePermit /\ ListenersWait
  BY OccupiedEmpty DEF LiveCountsSlots, NoIdlePermit, ListenersWait
<1>4. Conservation /\ Cardinality(Holding) <= inFlight
  BY <1>2, FS_EmptySet DEF Conservation
<1> QED
  BY <1>1, <1>3, <1>4 DEF SemInv, CoreInv

\* Holders and waiters are finitely many.
LEMMA HoldingWaitingFinite ==
  /\ IsFiniteSet(Holding) /\ Cardinality(Holding) \in Nat
  /\ IsFiniteSet(Waiting) /\ Cardinality(Waiting) \in Nat
<1>1. Holding \in SUBSET Callers /\ Waiting \in SUBSET Callers
  BY DEF Holding, Waiting
<1> QED
  BY <1>1, SemaphoreAssumption, FS_Subset, FS_CardinalityType

\* A release by a holder, which is where the pump runs.
LEMMA ReleaseKeeps ==
  ASSUME CoreInv, NEW c \in Callers, status[c] = "holding",
         Pump(inFlight - 1, live, [status EXCEPT ![c] = "released"])
  PROVE  CoreInv' /\ (Conservation => Conservation')
<1> USE SemaphoreAssumption
<1> DEFINE st == [status EXCEPT ![c] = "released"]
           k == Handoffs(inFlight - 1, live)
           cut == Shifted(waiters, k)
           served == {waiters[i] : i \in Occupied(waiters) \cap (1..cut)}
<1>1. /\ inFlight \in 0..Limit /\ live \in 0..QueueLimit
      /\ waiters \in Seq(Slot)
      /\ listener \in [Callers -> Nat] /\ status \in [Callers -> Status]
      /\ live = Cardinality(Occupied(waiters))
      /\ live > 0 => inFlight = Limit
  BY DEF CoreInv, TypeOK, Slot, LiveCountsSlots, NoIdlePermit
<1>2. c \in Holding /\ Cardinality(Holding) > 0 /\ inFlight > 0
  <2>1. c \in Holding
    BY DEF Holding
  <2>2. Cardinality(Holding) # 0
    BY <2>1, HoldingWaitingFinite, FS_EmptySet
  <2> QED
    BY <2>1, <2>2, <1>1, HoldingWaitingFinite DEF CoreInv
<1>3. /\ inFlight' = inFlight - 1 + k
      /\ live' = live - k
      /\ waiters' = IF live - k = 0 THEN <<>>
                    ELSE SubSeq(waiters, cut + 1, Len(waiters))
      /\ status' = [d \in Callers |-> IF d \in served /\ st[d] = "waiting"
                                      THEN "holding" ELSE st[d]]
      /\ listener' = [d \in Callers |-> IF d \in served THEN 0 ELSE listener[d]]
  BY DEF Pump
<1>4. k = IF live = 0 THEN 0 ELSE 1
  BY <1>1, <1>2 DEF Handoffs
<1> HIDE DEF k, served, cut
<1>5. status' \in [Callers -> Status] /\ listener' \in [Callers -> Nat]
  <2>1. st \in [Callers -> Status]
    BY <1>1 DEF Status
  <2> HIDE DEF st
  <2> QED
    BY <1>1, <1>3, <2>1 DEF Status
<1>6. ListenersWait'
  <2> SUFFICES ASSUME NEW d \in Callers, listener'[d] # 0
               PROVE  status'[d] = "waiting"
    BY DEF ListenersWait
  <2>1. d \notin served /\ listener[d] # 0
    BY <1>3
  <2>2. status[d] = "waiting"
    BY <2>1 DEF CoreInv, ListenersWait
  <2>3. d # c
    BY <2>2
  <2> QED
    BY <1>1, <1>3, <2>1, <2>2, <2>3
<1>7. \A d \in Callers \ Cancellable : listener'[d] = 0
  BY <1>3 DEF CoreInv, TypeOK
<1>8. waiters' \in Seq(Slot) /\ live' = Cardinality(Occupied(waiters'))
  <2>1. CASE live - k = 0
    <3>1. waiters' = <<>> /\ live' = 0
      BY <1>3, <2>1
    <3>2. <<>> \in Seq(Slot)
      BY EmptySeq
    <3> QED
      BY <3>1, <3>2, OccupiedEmpty, Zenon
  <2>2. CASE live - k # 0
    <3>1. k = 1
      BY <1>1, <1>4, <2>2
    <3>2. Occupied(waiters) # {}
      BY <1>1, <1>4, <3>1, OccupiedFinite, FS_EmptySet
    <3>3. cut \in Occupied(waiters) /\ Occupied(waiters) \cap (1..cut) = {cut}
      BY <1>1, <3>1, <3>2, ShiftedToFirst DEF cut
    <3>4. waiters' = SubSeq(waiters, cut + 1, Len(waiters))
      BY <1>3, <2>2
    <3> QED
      BY <1>1, <1>3, <3>1, <3>3, <3>4, OccupiedShift
  <2> QED
    BY <2>1, <2>2
<1>9. inFlight' \in 0..Limit /\ live' \in 0..QueueLimit /\ (live' > 0 => inFlight' = Limit)
  BY <1>1, <1>2, <1>3, <1>4
<1>10. (Conservation => Conservation') /\ Cardinality(Holding') <= inFlight'
  <2>0. /\ inFlight \in Int /\ live \in Int
        /\ Cardinality(Holding) \in Int /\ Cardinality(Waiting) \in Int
    BY <1>1, HoldingWaitingFinite
  <2>1. Cardinality(Holding \ {c}) = Cardinality(Holding) - 1
    BY <1>2, HoldingWaitingFinite, FS_RemoveElement
  <2>2. /\ Conservation => inFlight + live = Cardinality(Holding) + Cardinality(Waiting)
        /\ Cardinality(Holding) <= inFlight
    BY DEF CoreInv, Conservation
  <2>3. CASE \E d \in Callers : served = {d} /\ d \in Waiting /\ k = 1
    <3>1. PICK d \in Callers : served = {d} /\ d \in Waiting /\ k = 1
      BY <2>3
    <3>2. Holding' = (Holding \ {c}) \cup {d} /\ Waiting' = Waiting \ {d} /\ d \notin Holding
      BY <1>1, <1>2, <1>3, <3>1 DEF Holding, Waiting
    <3>3. Cardinality(Holding') = Cardinality(Holding)
      <4>1. IsFiniteSet(Holding \ {c})
        BY HoldingWaitingFinite, FS_RemoveElement
      <4>2. Cardinality((Holding \ {c}) \cup {d}) = Cardinality(Holding \ {c}) + 1
        BY <3>2, <4>1, FS_AddElement
      <4>3. Cardinality(Holding') = Cardinality((Holding \ {c}) \cup {d})
        BY <3>2, Zenon
      <4> QED
        BY <2>1, <4>2, <4>3, HoldingWaitingFinite
    <3>4. Cardinality(Waiting') = Cardinality(Waiting) - 1
      <4>1. Cardinality(Waiting \ {d}) = Cardinality(Waiting) - 1
        BY <3>1, HoldingWaitingFinite, FS_RemoveElement
      <4> QED
        BY <3>2, <4>1, Zenon
    <3>5. inFlight' = inFlight /\ live' = live - 1
      BY <1>1, <1>3, <3>1
    <3>6. Conservation => inFlight' + live' = Cardinality(Holding') + Cardinality(Waiting')
      BY <2>2, <2>0, <3>3, <3>4, <3>5
    <3> QED
      BY <2>2, <3>3, <3>5, <3>6 DEF Conservation
  <2>4. CASE \A d \in served : d \notin Waiting
    <3>1. Holding' = Holding \ {c} /\ Waiting' = Waiting
      BY <1>1, <1>2, <1>3, <2>4 DEF Holding, Waiting
    <3>2. /\ Cardinality(Holding') = Cardinality(Holding) - 1
          /\ Cardinality(Waiting') = Cardinality(Waiting)
      BY <2>1, <3>1, Zenon
    <3>3. inFlight' = inFlight - 1 + k /\ live' = live - k /\ k \in {0, 1}
      BY <1>3, <1>4
    <3>4. /\ Conservation => inFlight' + live' = Cardinality(Holding') + Cardinality(Waiting')
          /\ Cardinality(Holding') <= inFlight'
      BY <2>2, <2>0, <3>2, <3>3
    <3> QED
      BY <3>4 DEF Conservation
  <2>5. served = {} \/ (k = 1 /\ \E d : served = {d})
    <3>1. CASE live = 0
      <4>1. cut = 0
        BY <1>4, <3>1 DEF cut, Shifted
      <4> QED
        BY <4>1 DEF served
    <3>2. CASE live # 0
      <4>1. k = 1
        BY <1>4, <3>2
      <4>2. Occupied(waiters) # {}
        BY <1>1, <3>2, OccupiedFinite, FS_EmptySet
      <4>3. Occupied(waiters) \cap (1..cut) = {cut}
        BY <1>1, <4>1, <4>2, ShiftedToFirst DEF cut
      <4>4. served = {waiters[cut]}
        BY <4>3 DEF served
      <4> QED
        BY <4>1, <4>4
    <3> QED
      BY <3>1, <3>2
  <2>6. Waiting \subseteq Callers
    BY DEF Waiting
  <2> QED
    BY <2>3, <2>4, <2>5, <2>6
<1> QED
  BY <1>5, <1>6, <1>7, <1>8, <1>9, <1>10
  DEF CoreInv, TypeOK, Slot, LiveCountsSlots, NoIdlePermit

\* One step of the proof per action.
LEMMA NextKeeps ==
  CoreInv /\ [Next]_vars => CoreInv' /\ (Conservation => Conservation')
<1> DEFINE Kept == CoreInv' /\ (Conservation => Conservation')
<1> SUFFICES ASSUME CoreInv, [Next]_vars
             PROVE  Kept
  OBVIOUS
<1> USE SemaphoreAssumption
<1>0. /\ inFlight \in 0..Limit /\ live \in 0..QueueLimit
      /\ waiters \in Seq(Slot) /\ live = Cardinality(Occupied(waiters))
      /\ listener \in [Callers -> Nat] /\ status \in [Callers -> Status]
      /\ \A d \in Callers \ Cancellable : listener[d] = 0
      /\ \A d \in Callers : listener[d] # 0 => status[d] = "waiting"
      /\ live > 0 => inFlight = Limit
      /\ Conservation => inFlight + live = Cardinality(Holding) + Cardinality(Waiting)
      /\ Cardinality(Holding) <= inFlight
  BY DEF CoreInv, TypeOK, Slot, LiveCountsSlots, NoIdlePermit, Conservation, ListenersWait
<1>a. /\ inFlight \in Int /\ live \in Int
      /\ Cardinality(Holding) \in Int /\ Cardinality(Waiting) \in Int
      /\ Conservation => inFlight + live = Cardinality(Holding) + Cardinality(Waiting)
      /\ Cardinality(Holding) <= inFlight
  BY <1>0, HoldingWaitingFinite
<1>1. CASE UNCHANGED vars
  BY <1>1 DEF vars, CoreInv, TypeOK, LiveCountsSlots, NoIdlePermit, Conservation,
              ListenersWait, Holding, Waiting
<1>2. ASSUME NEW c \in Callers, AcquireNow(c)
      PROVE  Kept
  <2>1. /\ Holding' = Holding \cup {c} /\ c \notin Holding
        /\ Waiting' = Waiting
        /\ listener[c] = 0
    BY <1>0, <1>2 DEF AcquireNow, MayAsk, Holding, Waiting
  <2>2. Cardinality(Holding') = Cardinality(Holding) + 1
    <3>1. Cardinality(Holding \cup {c}) = Cardinality(Holding) + 1
      BY <2>1, HoldingWaitingFinite, FS_AddElement
    <3> QED
      BY <2>1, <3>1, Zenon
  <2>3. Cardinality(Waiting') = Cardinality(Waiting)
    BY <2>1, Zenon
  <2>4. inFlight' = inFlight + 1 /\ inFlight < Limit /\ UNCHANGED <<waiters, live, listener>>
    BY <1>2 DEF AcquireNow
  <2>5. (Conservation => Conservation') /\ Cardinality(Holding') <= inFlight'
    BY <1>a, <2>2, <2>3, <2>4 DEF Conservation
  <2>6. live = 0
    BY <1>0, <2>4
  <2>7. TypeOK' /\ ListenersWait'
    BY <1>0, <1>2, <2>1, <2>4 DEF AcquireNow, TypeOK, Status, Slot, ListenersWait
  <2>8. LiveCountsSlots' /\ NoIdlePermit'
    BY <1>0, <2>4, <2>6 DEF LiveCountsSlots, NoIdlePermit
  <2> QED
    BY <2>5, <2>7, <2>8 DEF CoreInv
<1>3. ASSUME NEW c \in Callers, AcquireQueued(c)
      PROVE  Kept
  <2>1. /\ Waiting' = Waiting \cup {c} /\ c \notin Waiting
        /\ Holding' = Holding
    BY <1>0, <1>3 DEF AcquireQueued, MayAsk, Holding, Waiting
  <2>2. Cardinality(Waiting') = Cardinality(Waiting) + 1
    <3>1. Cardinality(Waiting \cup {c}) = Cardinality(Waiting) + 1
      BY <2>1, HoldingWaitingFinite, FS_AddElement
    <3> QED
      BY <2>1, <3>1, Zenon
  <2>3. Cardinality(Holding') = Cardinality(Holding)
    BY <2>1, Zenon
  <2>4. /\ inFlight' = inFlight /\ inFlight >= Limit
        /\ live' = live + 1 /\ live < QueueLimit
        /\ waiters' = Append(waiters, c)
    BY <1>3 DEF AcquireQueued
  <2>5. (Conservation => Conservation') /\ Cardinality(Holding') <= inFlight'
    BY <1>a, <2>2, <2>3, <2>4 DEF Conservation
  <2>6. waiters' \in Seq(Slot) /\ live' = Cardinality(Occupied(waiters'))
    BY <1>0, <2>4, OccupiedAppend, AppendProperties DEF Slot
  <2>7. Len(waiters) + 1 \in Nat
    BY <1>0, LenProperties
  <2>8. TypeOK' /\ ListenersWait'
    BY <1>0, <1>3, <2>4, <2>6, <2>7 DEF AcquireQueued, TypeOK, Status, Slot, ListenersWait
  <2>9. LiveCountsSlots' /\ NoIdlePermit'
    BY <1>0, <2>4, <2>6 DEF LiveCountsSlots, NoIdlePermit
  <2> QED
    BY <2>5, <2>8, <2>9 DEF CoreInv
<1>4. ASSUME NEW c \in Callers, AcquireRefused(c)
      PROVE  Kept
  <2>1. /\ Holding' = Holding /\ Waiting' = Waiting /\ listener[c] = 0
        /\ UNCHANGED <<inFlight, waiters, live, listener>>
    BY <1>0, <1>4 DEF AcquireRefused, MayAsk, Holding, Waiting
  <2>2. TypeOK' /\ ListenersWait'
    BY <1>0, <1>4, <2>1 DEF AcquireRefused, TypeOK, Status, Slot, ListenersWait
  <2>3. (Conservation => Conservation') /\ Cardinality(Holding') <= inFlight'
    BY <1>0, <2>1 DEF Conservation
  <2>4. LiveCountsSlots' /\ NoIdlePermit'
    BY <1>0, <2>1 DEF LiveCountsSlots, NoIdlePermit
  <2> QED
    BY <2>2, <2>3, <2>4 DEF CoreInv
<1>5. ASSUME NEW c \in Callers, Release(c)
      PROVE  Kept
  <2>1. CASE status[c] = "holding" /\ Pump(inFlight - 1, live, [status EXCEPT ![c] = "released"])
    BY <2>1, ReleaseKeeps
  <2> QED
    BY <1>1, <1>5, <2>1 DEF Release
<1>6. ASSUME NEW c \in Callers, Abort(c)
      PROVE  Kept
  <2> DEFINE here == listener[c]
  <2>1. /\ here # 0 /\ status[c] = "waiting"
        /\ listener' = [listener EXCEPT ![c] = 0] /\ inFlight' = inFlight
    BY <1>0, <1>6 DEF Abort
  <2>2. CASE here \in Occupied(waiters)
    <3>1. /\ waiters' = [waiters EXCEPT ![here] = Nobody]
          /\ live' = live - 1
          /\ status' = [status EXCEPT ![c] = "outside"]
      BY <1>6, <2>2 DEF Abort
    <3>2. here \in 1..Len(waiters) /\ Nobody \in Slot
      BY <2>2 DEF Occupied, Slot
    <3>3. waiters' \in Seq(Slot)
      BY <1>0, <3>1, <3>2, ExceptSeq
    <3>4. live' = Cardinality(Occupied(waiters')) /\ live > 0
      <4>1. /\ Cardinality(Occupied([waiters EXCEPT ![here] = Nobody]))
                 = Cardinality(Occupied(waiters)) - 1
            /\ Cardinality(Occupied(waiters)) > 0
        BY <1>0, <2>2, OccupiedVacate
      <4> QED
        BY <1>0, <3>1, <4>1
    <3>5. Holding' = Holding /\ Waiting' = Waiting \ {c} /\ c \in Waiting
      BY <1>0, <2>1, <3>1 DEF Holding, Waiting
    <3>6. Cardinality(Waiting') = Cardinality(Waiting) - 1
      <4>1. Cardinality(Waiting \ {c}) = Cardinality(Waiting) - 1
        BY <3>5, HoldingWaitingFinite, FS_RemoveElement
      <4> QED
        BY <3>5, <4>1, Zenon
    <3>7. Cardinality(Holding') = Cardinality(Holding)
      BY <3>5, Zenon
    <3>8. (Conservation => Conservation') /\ Cardinality(Holding') <= inFlight'
      BY <1>a, <2>1, <3>1, <3>6, <3>7 DEF Conservation
    <3>9. TypeOK' /\ ListenersWait'
      BY <1>0, <2>1, <3>1, <3>3, <3>4 DEF TypeOK, Status, Slot, ListenersWait
    <3>10. LiveCountsSlots' /\ NoIdlePermit'
      BY <1>0, <2>1, <3>1, <3>4 DEF LiveCountsSlots, NoIdlePermit
    <3> QED
      BY <3>8, <3>9, <3>10 DEF CoreInv
  <2>3. CASE here \notin Occupied(waiters)
    <3>1. UNCHANGED <<inFlight, waiters, live, status>>
      BY <1>6, <2>3 DEF Abort
    <3>2. Holding' = Holding /\ Waiting' = Waiting
      BY <3>1 DEF Holding, Waiting
    <3>3. TypeOK' /\ ListenersWait'
      BY <1>0, <2>1, <3>1 DEF TypeOK, Slot, ListenersWait
    <3>4. (Conservation => Conservation') /\ Cardinality(Holding') <= inFlight'
      BY <1>0, <3>1, <3>2 DEF Conservation
    <3>5. LiveCountsSlots' /\ NoIdlePermit'
      BY <1>0, <3>1 DEF LiveCountsSlots, NoIdlePermit
    <3> QED
      BY <3>3, <3>4, <3>5 DEF CoreInv
  <2> QED
    BY <2>2, <2>3
<1> QED
  BY <1>1, <1>2, <1>3, <1>4, <1>5, <1>6 DEF Next

\* The invariant is inductive.
LEMMA NextSemInv == SemInv /\ [Next]_vars => SemInv'
  BY NextKeeps DEF SemInv

\* The invariant holds throughout.
LEMMA SemInvHolds == Spec => []SemInv
  BY InitSemInv, NextSemInv, PTL DEF Spec

-----------------------------------------------------------------------------

\* Every counter of createSemaphore stays in range, the waiter array included.
THEOREM TypeCorrect == Spec => []TypeOK
<1>1. SemInv => TypeOK
  BY DEF SemInv, CoreInv
<1> QED
  BY <1>1, SemInvHolds, PTL

\* However often release closures are called and whoever aborts, no more
\* callers than there are permits hold one (makeRelease and pump).
THEOREM CapHolds == Spec => []UpstreamCap
<1>1. SemInv => UpstreamCap
  BY HoldingWaitingFinite, SemaphoreAssumption DEF SemInv, CoreInv, TypeOK, UpstreamCap
<1> QED
  BY <1>1, SemInvHolds, PTL

\* The counter the pump's loop trusts is the number of entries it will find,
\* so the loop never spins on an empty array (pump).
THEOREM PumpNeverStarves == Spec => []LiveCountsSlots
<1>1. SemInv => LiveCountsSlots
  BY DEF SemInv, CoreInv
<1> QED
  BY <1>1, SemInvHolds, PTL

\* Nobody waits beside a free permit (acquire and pump).
THEOREM NoPermitIdles == Spec => []NoIdlePermit
<1>1. SemInv => NoIdlePermit
  BY DEF SemInv, CoreInv
<1> QED
  BY <1>1, SemInvHolds, PTL

\* A permit lost to a departed waiter is one live waiter stranded, never more.
THEOREM PermitsConserved == Spec => []Conservation
<1>1. SemInv => Conservation
  BY DEF SemInv, CoreInv
<1> QED
  BY <1>1, SemInvHolds, PTL

-----------------------------------------------------------------------------
(* Order                                                                   *)

\* A caller occupies one slot at most.
OncePlaced == \A i, j \in Occupied(waiters) : waiters[i] = waiters[j] => i = j

\* What a release does to the line: nothing if it is empty, otherwise it
\* serves the first occupied slot and keeps what is behind it.
LEMMA ReleaseServesFirst ==
  ASSUME CoreInv, NEW c \in Callers, status[c] = "holding",
         Pump(inFlight - 1, live, [status EXCEPT ![c] = "released"])
  PROVE  \/ /\ Occupied(waiters) = {} /\ live = 0
            /\ waiters' = <<>>
            /\ inFlight' = inFlight - 1
            /\ status' = [status EXCEPT ![c] = "released"]
            /\ listener' = listener
         \/ \E cut \in Occupied(waiters) :
              /\ \A i \in Occupied(waiters) : cut <= i
              /\ live > 0
              /\ waiters' = IF live = 1 THEN <<>>
                            ELSE SubSeq(waiters, cut + 1, Len(waiters))
              /\ inFlight' = inFlight
              /\ status' = [d \in Callers |->
                              IF d = c THEN "released"
                              ELSE IF d = waiters[cut] /\ status[d] = "waiting"
                              THEN "holding" ELSE status[d]]
              /\ listener' = [d \in Callers |-> IF d = waiters[cut] THEN 0 ELSE listener[d]]
<1> USE SemaphoreAssumption
<1> DEFINE st == [status EXCEPT ![c] = "released"]
           k == Handoffs(inFlight - 1, live)
           cut == Shifted(waiters, k)
           served == {waiters[i] : i \in Occupied(waiters) \cap (1..cut)}
<1>1. /\ inFlight \in 0..Limit /\ live \in 0..QueueLimit
      /\ waiters \in Seq(Slot) /\ status \in [Callers -> Status]
      /\ listener \in [Callers -> Nat]
      /\ live = Cardinality(Occupied(waiters))
      /\ live > 0 => inFlight = Limit
  BY DEF CoreInv, TypeOK, Slot, LiveCountsSlots, NoIdlePermit
<1>2. inFlight > 0
  <2>1. c \in Holding
    BY DEF Holding
  <2>2. Cardinality(Holding) # 0
    BY <2>1, HoldingWaitingFinite, FS_EmptySet
  <2> QED
    BY <2>2, <1>1, HoldingWaitingFinite DEF CoreInv
<1>3. /\ inFlight' = inFlight - 1 + k
      /\ waiters' = IF live - k = 0 THEN <<>>
                    ELSE SubSeq(waiters, cut + 1, Len(waiters))
      /\ status' = [d \in Callers |-> IF d \in served /\ st[d] = "waiting"
                                      THEN "holding" ELSE st[d]]
      /\ listener' = [d \in Callers |-> IF d \in served THEN 0 ELSE listener[d]]
  BY DEF Pump
<1>4. k = IF live = 0 THEN 0 ELSE 1
  BY <1>1, <1>2 DEF Handoffs
<1>5. live = 0 <=> Occupied(waiters) = {}
  BY <1>1, OccupiedFinite, FS_EmptySet
<1> HIDE DEF k, served, cut
<1>6. CASE live = 0
  <2>1. served = {}
    <3>1. cut = 0
      BY <1>4, <1>6 DEF cut, Shifted
    <3> QED
      BY <3>1 DEF served
  <2>2. status' = st /\ listener' = listener
    BY <1>1, <1>3, <2>1
  <2>3. k = 0
    BY <1>4, <1>6
  <2>4. waiters' = <<>> /\ inFlight' = inFlight - 1
    BY <1>1, <1>3, <1>6, <2>3
  <2> QED
    BY <1>5, <1>6, <2>2, <2>4
<1>7. CASE live # 0
  <2>1. cut \in Occupied(waiters) /\ Occupied(waiters) \cap (1..cut) = {cut}
    BY <1>1, <1>4, <1>5, <1>7, ShiftedToFirst DEF cut
  <2>2. served = {waiters[cut]}
    BY <2>1 DEF served
  <2>3. \A i \in Occupied(waiters) : cut <= i
    BY <1>1, <2>1, OccupiedFinite DEF Occupied
  <2>4. status' = [d \in Callers |->
                     IF d = c THEN "released"
                     ELSE IF d = waiters[cut] /\ status[d] = "waiting"
                     THEN "holding" ELSE status[d]]
    BY <1>1, <1>3, <2>2
  <2>5. listener' = [d \in Callers |-> IF d = waiters[cut] THEN 0 ELSE listener[d]]
    BY <1>3, <2>2
  <2> QED
    BY <1>1, <1>3, <1>4, <1>7, <2>1, <2>3, <2>4, <2>5
<1> QED
  BY <1>6, <1>7

\* A caller asks only when nothing of it is in the array, so shifts, aborts
\* and pushes leave every caller at one slot at most.
LEMMA OncePlacedNext == CoreInv /\ OncePlaced /\ [Next]_vars => OncePlaced'
<1> SUFFICES ASSUME CoreInv, OncePlaced, [Next]_vars
             PROVE  OncePlaced'
  OBVIOUS
<1> USE SemaphoreAssumption
<1>0. /\ waiters \in Seq(Slot) /\ Len(waiters) \in Nat
      /\ \A i \in 1..Len(waiters) : waiters[i] \in Slot
      /\ live \in 0..QueueLimit
  BY LenProperties, ElementOfSeq DEF CoreInv, TypeOK, Slot
<1>1. CASE UNCHANGED waiters
  BY <1>1 DEF OncePlaced, Occupied
<1>2. ASSUME NEW c \in Callers, AcquireQueued(c) PROVE OncePlaced'
  <2>1. waiters' = Append(waiters, c) /\ \A i \in 1..Len(waiters) : waiters[i] # c
    BY <1>2 DEF AcquireQueued, MayAsk
  <2>2. /\ Len(waiters') = Len(waiters) + 1 /\ waiters'[Len(waiters) + 1] = c
        /\ \A i \in 1..Len(waiters) : waiters'[i] = waiters[i]
    BY <1>0, <2>1, AppendProperties DEF Slot
  <2> QED
    BY <1>0, <2>1, <2>2 DEF OncePlaced, Occupied
<1>3. ASSUME NEW c \in Callers, Abort(c) PROVE OncePlaced'
  <2>1. CASE listener[c] \in Occupied(waiters)
    <3>1. waiters' = [waiters EXCEPT ![listener[c]] = Nobody]
      BY <1>3, <2>1 DEF Abort
    <3>2. listener[c] \in 1..Len(waiters) /\ Nobody \in Slot
      BY <2>1 DEF Occupied, Slot
    <3>3. Occupied(waiters') = Occupied(waiters) \ {listener[c]}
      BY <1>0, <3>1, <3>2, ExceptSeq DEF Occupied
    <3>4. \A i \in Occupied(waiters') : waiters'[i] = waiters[i]
      BY <1>0, <3>1, <3>2, <3>3, ExceptSeq DEF Occupied
    <3> QED
      BY <3>3, <3>4 DEF OncePlaced
  <2>2. CASE listener[c] \notin Occupied(waiters)
    BY <1>1, <1>3, <2>2 DEF Abort
  <2> QED
    BY <2>1, <2>2
<1>4. ASSUME NEW c \in Callers, Release(c) PROVE OncePlaced'
  <2>1. CASE waiters' = <<>>
    BY <2>1 DEF OncePlaced, Occupied
  <2>2. ASSUME NEW cut \in Occupied(waiters),
               waiters' = SubSeq(waiters, cut + 1, Len(waiters))
        PROVE  OncePlaced'
    <3>1. cut \in 1..Len(waiters)
      BY DEF Occupied
    <3>2. \A i \in (cut + 1)..Len(waiters) : waiters[i] \in Slot
      BY <1>0, <3>1
    <3>3. /\ Len(waiters') = Len(waiters) - cut
          /\ \A i \in 1..(Len(waiters) - cut) : waiters'[i] = waiters[cut + i]
      <4>1. /\ waiters' \in Seq(Slot)
            /\ Len(waiters') = IF cut + 1 <= Len(waiters)
                               THEN Len(waiters) - (cut + 1) + 1 ELSE 0
            /\ \A i \in 1..(Len(waiters) - (cut + 1) + 1) :
                 waiters'[i] = waiters[(cut + 1) + i - 1]
        BY <1>0, <2>2, <3>1, <3>2, SubSeqProperties
      <4> QED
        BY <1>0, <3>1, <4>1
    <3>4. \A i \in Occupied(waiters') :
            i \in Nat /\ cut + i \in Occupied(waiters) /\ waiters'[i] = waiters[cut + i]
      BY <1>0, <3>1, <3>3 DEF Occupied
    <3> QED
      BY <1>0, <3>1, <3>4 DEF OncePlaced
  <2>3. CASE status[c] = "holding" /\ Pump(inFlight - 1, live, [status EXCEPT ![c] = "released"])
    <3>1. \/ waiters' = <<>>
          \/ \E cut \in Occupied(waiters) :
               waiters' = SubSeq(waiters, cut + 1, Len(waiters))
      BY <2>3, ReleaseServesFirst
    <3> QED
      BY <2>1, <2>2, <3>1
  <2> QED
    BY <1>1, <1>4, <2>3 DEF Release, vars
<1> QED
  BY <1>1, <1>2, <1>3, <1>4 DEF Next, AcquireNow, AcquireRefused, vars

\* Both hold throughout.
LEMMA OncePlacedHolds == Spec => [](CoreInv /\ OncePlaced)
<1>1. Init => OncePlaced
  BY DEF Init, OncePlaced, Occupied
<1>2. SemInv => CoreInv
  BY DEF SemInv
<1> QED
  BY <1>1, <1>2, SemInvHolds, OncePlacedNext, PTL DEF Spec

\* Waiters are served in the order they were pushed, whoever aborts and
\* whatever positions the listeners remember (pump shifts from the front).
THEOREM ServedInOrder == Spec => FirstComeFirstServed
<1> DEFINE Ordered == \A i, j \in 1..Len(waiters) :
                        /\ i < j
                        /\ waiters[i] \in Waiting
                        /\ waiters[j] \in Waiting
                        /\ status'[waiters[j]] = "holding"
                        => status'[waiters[i]] # "waiting"
<1>1. CoreInv /\ OncePlaced /\ [Next]_vars => Ordered
  <2> SUFFICES ASSUME CoreInv, OncePlaced, [Next]_vars,
                      NEW i \in 1..Len(waiters), NEW j \in 1..Len(waiters),
                      i < j, waiters[i] \in Waiting, waiters[j] \in Waiting,
                      status'[waiters[j]] = "holding"
               PROVE  status'[waiters[i]] # "waiting"
    OBVIOUS
  <2> USE SemaphoreAssumption
  <2>1. /\ waiters \in Seq(Slot) /\ Len(waiters) \in Nat
        /\ status \in [Callers -> Status]
        /\ status[waiters[i]] = "waiting" /\ status[waiters[j]] = "waiting"
        /\ waiters[i] \in Callers /\ waiters[j] \in Callers
    BY LenProperties DEF CoreInv, TypeOK, Slot, Waiting
  <2>2. i \in Occupied(waiters) /\ j \in Occupied(waiters)
    BY <2>1 DEF Occupied
  <2>3. waiters[i] # waiters[j]
    BY <2>1, <2>2 DEF OncePlaced
  <2>4. PICK c \in Callers : Release(c)
    BY <2>1 DEF Next, vars, AcquireNow, AcquireQueued, AcquireRefused, Abort, MayAsk
  <2>5. /\ status[c] = "holding"
        /\ Pump(inFlight - 1, live, [status EXCEPT ![c] = "released"])
    BY <2>1, <2>4 DEF Release, vars
  <2>6. PICK cut \in Occupied(waiters) :
          /\ \A n \in Occupied(waiters) : cut <= n
          /\ status' = [d \in Callers |->
                          IF d = c THEN "released"
                          ELSE IF d = waiters[cut] /\ status[d] = "waiting"
                          THEN "holding" ELSE status[d]]
    <3>1. Occupied(waiters) # {}
      BY <2>2
    <3> QED
      BY <2>5, <3>1, ReleaseServesFirst, Zenon
  <2>7. waiters[j] = waiters[cut]
    BY <2>1, <2>6
  <2>8. cut = j /\ cut <= i
    BY <2>2, <2>6, <2>7 DEF OncePlaced
  <2> QED
    BY <2>1, <2>8
<1> QED
  BY <1>1, OncePlacedHolds, PTL DEF Spec, FirstComeFirstServed, Ordered

-----------------------------------------------------------------------------
(* The promise                                                             *)

\* Without signals the array holds no vacated slot and nobody but callers that
\* wait, and a permit that is counted out is held.
LineInv ==
  /\ waiters \in Seq(Callers)
  /\ \A i \in 1..Len(waiters) : status[waiters[i]] = "waiting"
  /\ inFlight = Cardinality(Holding)

\* Every slot of such an array is occupied.
LEMMA LineIsLive ==
  ASSUME CoreInv, LineInv
  PROVE  Occupied(waiters) = 1..Len(waiters) /\ live = Len(waiters)
<1> USE SemaphoreAssumption
<1>1. Len(waiters) \in Nat /\ \A i \in 1..Len(waiters) : waiters[i] \in Callers
  BY LenProperties, ElementOfSeq DEF LineInv
<1>2. Occupied(waiters) = 1..Len(waiters)
  BY <1>1 DEF Occupied
<1>3. Cardinality(1..Len(waiters)) = Len(waiters)
  <2>1. 1 \in Int /\ Len(waiters) \in Int
    BY <1>1
  <2>2. Cardinality(1..Len(waiters)) = IF 1 > Len(waiters) THEN 0 ELSE Len(waiters) - 1 + 1
    BY <2>1, FS_Interval
  <2> QED
    BY <1>1, <2>2
<1> QED
  BY <1>2, <1>3 DEF CoreInv, LiveCountsSlots

\* The pool counts its holders as the limiter's module does.
LEMMA SameCount == \A S : Promise!Cardinality(S) = Cardinality(S)
  BY DEF Promise!Cardinality, Cardinality

\* The initial state of the limiter is that of the pool.
LEMMA PromiseInit == Init => LineInv /\ Promise!Init
<1> SUFFICES ASSUME Init PROVE LineInv /\ Promise!Init
  OBVIOUS
<1>1. Holding = {}
  BY DEF Init, Holding
<1>2. LineInv
  BY <1>1, FS_EmptySet, EmptySeq DEF Init, LineInv
<1> QED
  BY <1>1, <1>2 DEF Init, Promise!Init

\* Every step of the limiter is a step of the pool or changes nothing of it.
LEMMA PromiseNext ==
  ASSUME Cancellable = {}, CoreInv, OncePlaced, LineInv, [Next]_vars
  PROVE  LineInv' /\ [Promise!Next]_(Promise!absVars)
<1> USE SemaphoreAssumption
<1>0. /\ inFlight \in 0..Limit /\ live \in 0..QueueLimit
      /\ waiters \in Seq(Callers) /\ Len(waiters) \in Nat
      /\ \A i \in 1..Len(waiters) : waiters[i] \in Callers
      /\ \A i \in 1..Len(waiters) : status[waiters[i]] = "waiting"
      /\ status \in [Callers -> Status]
      /\ inFlight = Cardinality(Holding)
      /\ live = Len(waiters) /\ Occupied(waiters) = 1..Len(waiters)
  BY LineIsLive, LenProperties, ElementOfSeq DEF CoreInv, TypeOK, LineInv
<1>1. CASE UNCHANGED vars
  BY <1>1 DEF vars, LineInv, Holding, Promise!absVars
<1>2. ASSUME NEW c \in Callers, AcquireNow(c)
      PROVE  LineInv' /\ Promise!Take(c)
  <2>1. /\ inFlight < Limit /\ inFlight' = inFlight + 1
        /\ status[c] \in {"outside", "released"}
        /\ status' = [status EXCEPT ![c] = "holding"] /\ UNCHANGED waiters
        /\ \A i \in 1..Len(waiters) : waiters[i] # c
    BY <1>2 DEF AcquireNow, MayAsk
  <2>2. Holding' = Holding \cup {c} /\ c \notin Holding
    BY <1>0, <2>1 DEF Holding
  <2>3. Cardinality(Holding \cup {c}) = Cardinality(Holding) + 1
    BY <2>2, HoldingWaitingFinite, FS_AddElement
  <2>4. Cardinality(Holding') = Cardinality(Holding) + 1
    BY <2>2, <2>3, Zenon
  <2>5. waiters = <<>>
    <3>1. live = 0
      BY <1>0, <2>1 DEF CoreInv, NoIdlePermit
    <3> QED
      BY <1>0, <3>1, EmptySeq
  <2>6. LineInv'
    BY <1>0, <2>1, <2>4 DEF LineInv
  <2>7. Promise!Take(c)
    BY <1>0, <2>1, <2>2, <2>5, SameCount DEF Promise!Take, Promise!InLine
  <2> QED
    BY <2>6, <2>7
<1>3. ASSUME NEW c \in Callers, AcquireQueued(c)
      PROVE  LineInv' /\ Promise!JoinLine(c)
  <2>1. /\ inFlight >= Limit /\ inFlight' = inFlight /\ live < QueueLimit
        /\ status[c] \in {"outside", "released"}
        /\ status' = [status EXCEPT ![c] = "waiting"]
        /\ waiters' = Append(waiters, c)
        /\ \A i \in 1..Len(waiters) : waiters[i] # c
    BY <1>3 DEF AcquireQueued, MayAsk
  <2>2. Holding' = Holding /\ c \notin Holding
    BY <1>0, <2>1 DEF Holding
  <2>3. /\ waiters' \in Seq(Callers) /\ Len(waiters') = Len(waiters) + 1
        /\ waiters'[Len(waiters) + 1] = c
        /\ \A i \in 1..Len(waiters) : waiters'[i] = waiters[i]
    BY <1>0, <2>1, AppendProperties
  <2>4. \A i \in 1..Len(waiters') : status'[waiters'[i]] = "waiting"
    BY <1>0, <2>1, <2>3
  <2>5. LineInv'
    BY <1>0, <2>1, <2>2, <2>3, <2>4 DEF LineInv
  <2>6. Promise!JoinLine(c)
    BY <1>0, <2>1, <2>2, SameCount DEF Promise!JoinLine, Promise!InLine
  <2> QED
    BY <2>5, <2>6
<1>4. ASSUME NEW c \in Callers, AcquireRefused(c)
      PROVE  LineInv' /\ UNCHANGED Promise!absVars
  <2>1. /\ status[c] \in {"outside", "released"}
        /\ status' = [status EXCEPT ![c] = "outside"]
        /\ UNCHANGED <<inFlight, waiters>>
        /\ \A i \in 1..Len(waiters) : waiters[i] # c
    BY <1>4 DEF AcquireRefused, MayAsk
  <2>2. Holding' = Holding
    BY <1>0, <2>1 DEF Holding
  <2>3. LineInv'
    BY <1>0, <2>1, <2>2 DEF LineInv
  <2> QED
    BY <2>1, <2>2, <2>3 DEF Promise!absVars
<1>5. ASSUME NEW c \in Callers, status[c] = "holding",
             Pump(inFlight - 1, live, [status EXCEPT ![c] = "released"])
      PROVE  LineInv' /\ Promise!GiveBack(c)
  <2>1. c \in Holding
    BY <1>5 DEF Holding
  <2>2. Cardinality(Holding \ {c}) = Cardinality(Holding) - 1
    BY <2>1, HoldingWaitingFinite, FS_RemoveElement
  <2>3. CASE live = 0
    <3>1. /\ waiters' = <<>> /\ inFlight' = inFlight - 1
          /\ status' = [status EXCEPT ![c] = "released"]
      BY <1>5, <2>3, ReleaseServesFirst
    <3>2. waiters = <<>>
      BY <1>0, <2>3, EmptySeq
    <3>3. Holding' = Holding \ {c}
      BY <1>0, <3>1 DEF Holding
    <3>4. Cardinality(Holding') = Cardinality(Holding) - 1
      BY <2>2, <3>3, Zenon
    <3>5. LineInv'
      BY <1>0, <3>1, <3>4, EmptySeq DEF LineInv
    <3> QED
      BY <2>1, <3>1, <3>2, <3>3, <3>5 DEF Promise!GiveBack
  <2>4. CASE live # 0
    <3>1. PICK cut \in Occupied(waiters) :
            /\ \A i \in Occupied(waiters) : cut <= i
            /\ waiters' = IF live = 1 THEN <<>>
                          ELSE SubSeq(waiters, cut + 1, Len(waiters))
            /\ inFlight' = inFlight
            /\ status' = [d \in Callers |->
                            IF d = c THEN "released"
                            ELSE IF d = waiters[cut] /\ status[d] = "waiting"
                            THEN "holding" ELSE status[d]]
      BY <1>5, <2>4, ReleaseServesFirst
    <3>2. cut = 1 /\ waiters # <<>> /\ Len(waiters) >= 1
      BY <1>0, <2>4, <3>1
    <3> DEFINE d == waiters[1]
    <3>3. d \in Callers /\ status[d] = "waiting" /\ d # c /\ d = Head(waiters)
      BY <1>0, <1>5, <3>2
    <3>4. /\ waiters' = Tail(waiters) /\ waiters' \in Seq(Callers)
          /\ Len(waiters') = Len(waiters) - 1
          /\ \A i \in 1..Len(waiters') : waiters'[i] = waiters[i + 1]
      <4>1. /\ Tail(waiters) \in Seq(Callers) /\ Len(Tail(waiters)) = Len(waiters) - 1
            /\ \A i \in 1..Len(Tail(waiters)) : Tail(waiters)[i] = waiters[i + 1]
        BY <1>0, <3>2, HeadTailProperties
      <4>2. CASE live = 1
        <5>1. Len(Tail(waiters)) = 0
          BY <1>0, <4>1, <4>2
        <5>2. Tail(waiters) = <<>>
          BY <4>1, <5>1, EmptySeq
        <5> QED
          BY <3>1, <4>1, <4>2, <5>2
      <4>3. CASE live # 1
        <5>1. waiters' = SubSeq(waiters, 2, Len(waiters))
          BY <3>1, <3>2, <4>3
        <5> QED
          BY <1>0, <3>2, <4>1, <5>1, TailIsSubSeq
      <4> QED
        BY <4>2, <4>3
    <3>5. Holding' = (Holding \ {c}) \cup {d} /\ d \notin Holding
      BY <1>0, <2>1, <3>1, <3>2, <3>3 DEF Holding
    <3>6. Cardinality(Holding') = Cardinality(Holding)
      <4>1. IsFiniteSet(Holding \ {c})
        BY HoldingWaitingFinite, FS_RemoveElement
      <4>2. Cardinality((Holding \ {c}) \cup {d}) = Cardinality(Holding \ {c}) + 1
        BY <3>5, <4>1, FS_AddElement
      <4>3. Cardinality(Holding') = Cardinality((Holding \ {c}) \cup {d})
        BY <3>5, Zenon
      <4> QED
        BY <2>2, <4>2, <4>3, HoldingWaitingFinite
    <3>7. \A i \in 1..Len(waiters') : status'[waiters'[i]] = "waiting"
      <4> SUFFICES ASSUME NEW i \in 1..Len(waiters')
                   PROVE  status'[waiters'[i]] = "waiting"
        OBVIOUS
      <4>1. i + 1 \in 1..Len(waiters) /\ waiters'[i] = waiters[i + 1] /\ i + 1 # 1
        BY <1>0, <3>4
      <4>2. waiters[i + 1] # d /\ waiters[i + 1] # c
        BY <1>0, <1>5, <3>2, <4>1 DEF OncePlaced
      <4> QED
        BY <1>0, <3>1, <3>2, <4>1, <4>2
    <3>8. LineInv'
      BY <1>0, <3>1, <3>4, <3>6, <3>7 DEF LineInv
    <3>9. Promise!GiveBack(c)
      BY <2>1, <3>2, <3>3, <3>4, <3>5 DEF Promise!GiveBack
    <3> QED
      BY <3>8, <3>9
  <2> QED
    BY <2>3, <2>4
<1>6. ASSUME NEW c \in Callers, Abort(c) PROVE FALSE
  BY <1>6 DEF Abort, CoreInv, TypeOK
<1> QED
  BY <1>1, <1>2, <1>3, <1>4, <1>5, <1>6 DEF Next, Release, Promise!Next

\* Without signals, as on the buffered path, the array with its counters does
\* what the pool promises: nobody passes the line, and a returned permit goes
\* to its head without becoming free in between (createSemaphore).
THEOREM PromiseKept ==
  Cancellable = {} => (Spec => Promise!Init /\ [][Promise!Next]_(Promise!absVars))
<1> SUFFICES ASSUME Cancellable = {}
             PROVE  Spec => Promise!Init /\ [][Promise!Next]_(Promise!absVars)
  OBVIOUS
<1>1. Init => LineInv /\ Promise!Init
  BY PromiseInit
<1>2. (CoreInv /\ OncePlaced) /\ LineInv /\ [Next]_vars
        => LineInv' /\ [Promise!Next]_(Promise!absVars)
  BY PromiseNext
<1> QED
  BY <1>1, <1>2, OncePlacedHolds, PTL DEF Spec

-----------------------------------------------------------------------------
(* Permits and their holders                                               *)

\* Permits counted out that nobody holds.
Drift == inFlight - Cardinality(Holding)

\* The slot that the next hand-off serves is that of a caller that has left.
FirstInLineLeft ==
  \E i \in Occupied(waiters) :
    /\ \A j \in Occupied(waiters) : i <= j
    /\ status[waiters[i]] # "waiting"

\* A release keeps permits and holders together, but where the caller it serves
\* has left.
LEMMA ReleaseDrift ==
  ASSUME CoreInv, NEW c \in Callers, status[c] = "holding",
         Pump(inFlight - 1, live, [status EXCEPT ![c] = "released"])
  PROVE  Drift' = Drift \/ (FirstInLineLeft /\ inFlight' = inFlight)
<1>0. /\ status \in [Callers -> Status] /\ inFlight \in Int
      /\ waiters \in Seq(Slot)
  BY DEF CoreInv, TypeOK, Slot
<1>1. c \in Holding /\ Cardinality(Holding \ {c}) = Cardinality(Holding) - 1
  <2>1. c \in Holding
    BY DEF Holding
  <2> QED
    BY <2>1, HoldingWaitingFinite, FS_RemoveElement
<1>2. Cardinality(Holding) \in Int
  BY HoldingWaitingFinite
<1>3. ASSUME inFlight' = inFlight - 1, status' = [status EXCEPT ![c] = "released"]
      PROVE  Drift' = Drift
  <2>1. Holding' = Holding \ {c}
    BY <1>0, <1>3 DEF Holding
  <2>2. Cardinality(Holding') = Cardinality(Holding) - 1
    BY <1>1, <2>1, Zenon
  <2> QED
    BY <1>0, <1>2, <1>3, <2>2 DEF Drift
<1>4. ASSUME NEW cut \in Occupied(waiters), status[waiters[cut]] = "waiting",
             inFlight' = inFlight,
             status' = [d \in Callers |->
                          IF d = c THEN "released"
                          ELSE IF d = waiters[cut] /\ status[d] = "waiting"
                          THEN "holding" ELSE status[d]]
      PROVE  Drift' = Drift
  <2> DEFINE d == waiters[cut]
  <2>1. d \in Callers /\ d # c /\ d \notin Holding
    <3>1. cut \in 1..Len(waiters) /\ d # Nobody
      BY <1>4 DEF Occupied
    <3>2. d \in Slot
      BY <1>0, <3>1, ElementOfSeq
    <3> QED
      BY <1>4, <3>1, <3>2 DEF Slot, Holding
  <2>2. Holding' = (Holding \ {c}) \cup {d}
    BY <1>0, <1>4, <2>1 DEF Holding
  <2>3. Cardinality((Holding \ {c}) \cup {d}) = Cardinality(Holding \ {c}) + 1
    <3>1. IsFiniteSet(Holding \ {c})
      BY HoldingWaitingFinite, FS_RemoveElement
    <3> QED
      BY <2>1, <3>1, FS_AddElement
  <2>4. Cardinality(Holding') = Cardinality((Holding \ {c}) \cup {d})
    BY <2>2, Zenon
  <2>5. Cardinality(Holding') = Cardinality(Holding)
    BY <1>1, <1>2, <2>3, <2>4
  <2> QED
    BY <1>4, <2>5 DEF Drift
<1>5. \/ /\ inFlight' = inFlight - 1
         /\ status' = [status EXCEPT ![c] = "released"]
      \/ \E cut \in Occupied(waiters) :
           /\ \A i \in Occupied(waiters) : cut <= i
           /\ inFlight' = inFlight
           /\ status' = [d \in Callers |->
                           IF d = c THEN "released"
                           ELSE IF d = waiters[cut] /\ status[d] = "waiting"
                           THEN "holding" ELSE status[d]]
  BY ReleaseServesFirst, Zenon
<1>6. ASSUME NEW cut \in Occupied(waiters), \A i \in Occupied(waiters) : cut <= i,
             status[waiters[cut]] # "waiting"
      PROVE  FirstInLineLeft
  BY <1>6 DEF FirstInLineLeft
<1> QED
  BY <1>3, <1>4, <1>5, <1>6

\* Nothing else makes them differ: a permit is counted out when it is handed to
\* a caller that holds it from then on.
LEMMA NextDrift ==
  ASSUME CoreInv, [Next]_vars
  PROVE  Drift' = Drift \/ (FirstInLineLeft /\ inFlight' = inFlight)
<1>0. /\ inFlight \in Int /\ Cardinality(Holding) \in Int
      /\ status \in [Callers -> Status]
      /\ \A d \in Callers : listener[d] # 0 => status[d] = "waiting"
  BY HoldingWaitingFinite DEF CoreInv, TypeOK, ListenersWait
<1>1. ASSUME inFlight' = inFlight, Holding' = Holding PROVE Drift' = Drift
  BY <1>1 DEF Drift
<1>2. CASE UNCHANGED vars
  BY <1>2 DEF vars, Drift, Holding
<1>3. ASSUME NEW c \in Callers, AcquireNow(c) PROVE Drift' = Drift
  <2>1. /\ inFlight' = inFlight + 1 /\ status[c] \in {"outside", "released"}
        /\ status' = [status EXCEPT ![c] = "holding"]
    BY <1>3 DEF AcquireNow, MayAsk
  <2>2. Holding' = Holding \cup {c} /\ c \notin Holding
    BY <1>0, <2>1 DEF Holding
  <2>3. Cardinality(Holding \cup {c}) = Cardinality(Holding) + 1
    BY <2>2, HoldingWaitingFinite, FS_AddElement
  <2>4. Cardinality(Holding') = Cardinality(Holding) + 1
    BY <2>2, <2>3, Zenon
  <2> QED
    BY <1>0, <2>1, <2>4 DEF Drift
<1>4. ASSUME NEW c \in Callers, AcquireQueued(c) PROVE Drift' = Drift
  <2>1. /\ inFlight' = inFlight /\ status[c] \in {"outside", "released"}
        /\ status' = [status EXCEPT ![c] = "waiting"]
    BY <1>4 DEF AcquireQueued, MayAsk
  <2>2. Holding' = Holding
    BY <1>0, <2>1 DEF Holding
  <2> QED
    BY <1>1, <2>1, <2>2
<1>5. ASSUME NEW c \in Callers, AcquireRefused(c) PROVE Drift' = Drift
  <2>1. /\ inFlight' = inFlight /\ status[c] \in {"outside", "released"}
        /\ status' = [status EXCEPT ![c] = "outside"]
    BY <1>5 DEF AcquireRefused, MayAsk
  <2>2. Holding' = Holding
    BY <1>0, <2>1 DEF Holding
  <2> QED
    BY <1>1, <2>1, <2>2
<1>6. ASSUME NEW c \in Callers, Release(c)
      PROVE  Drift' = Drift \/ (FirstInLineLeft /\ inFlight' = inFlight)
  BY <1>2, <1>6, ReleaseDrift DEF Release
<1>7. ASSUME NEW c \in Callers, Abort(c) PROVE Drift' = Drift
  <2>1. /\ inFlight' = inFlight /\ status[c] = "waiting"
        /\ status' = status \/ status' = [status EXCEPT ![c] = "outside"]
    BY <1>0, <1>7 DEF Abort
  <2>2. Holding' = Holding
    BY <1>0, <2>1 DEF Holding
  <2> QED
    BY <1>1, <2>1, <2>2
<1> QED
  BY <1>2, <1>3, <1>4, <1>5, <1>6, <1>7 DEF Next

\* A holder loses its release closure: the permit stays counted out.
Dropped(r) ==
  /\ status[r] = "holding"
  /\ status' = [status EXCEPT ![r] = "outside"]
  /\ UNCHANGED <<inFlight, waiters, live, listener>>

\* A release closure that is dropped leaves a permit that nobody holds.
LEMMA DropsKeeps ==
  ASSUME CoreInv, NEW r \in Callers, Dropped(r)
  PROVE  CoreInv'
<1>0. /\ status \in [Callers -> Status] /\ inFlight \in Int
      /\ \A d \in Callers : listener[d] # 0 => status[d] = "waiting"
      /\ Cardinality(Holding) \in Int /\ Cardinality(Holding) <= inFlight
  BY HoldingWaitingFinite DEF CoreInv, TypeOK, ListenersWait
<1>1. /\ status[r] = "holding" /\ status' = [status EXCEPT ![r] = "outside"]
      /\ UNCHANGED <<inFlight, waiters, live, listener>>
  BY DEF Dropped
<1>2. Holding' = Holding \ {r} /\ r \in Holding
  BY <1>0, <1>1 DEF Holding
<1>3. Cardinality(Holding \ {r}) = Cardinality(Holding) - 1
  BY <1>2, HoldingWaitingFinite, FS_RemoveElement
<1>4. Cardinality(Holding') <= inFlight'
  <2>1. Cardinality(Holding') = Cardinality(Holding) - 1
    BY <1>2, <1>3, Zenon
  <2> QED
    BY <1>0, <1>1, <2>1
<1>5. status' \in [Callers -> Status]
  BY <1>0, <1>1 DEF Status
<1>6. ListenersWait'
  BY <1>0, <1>1 DEF ListenersWait
<1> QED
  BY <1>1, <1>4, <1>5, <1>6 DEF CoreInv, TypeOK, LiveCountsSlots, NoIdlePermit

\* What the semaphore's steps do to the states of the callers.
LEMMA StatusMoves ==
  ASSUME CoreInv, NEW r \in Callers
  PROVE  /\ AcquireNow(r) => status' = [status EXCEPT ![r] = "holding"]
         /\ AcquireQueued(r) => status' = [status EXCEPT ![r] = "waiting"]
         /\ AcquireRefused(r) => status' = [status EXCEPT ![r] = "outside"]
         /\ Abort(r) => status' = status \/ status' = [status EXCEPT ![r] = "outside"]
         /\ Release(r) /\ status[r] = "holding" =>
              /\ status'[r] = "released"
              /\ \A d \in Callers \ {r} : \/ status'[d] = status[d]
                                          \/ status[d] = "waiting" /\ status'[d] = "holding"
<1>1. ASSUME Release(r), status[r] = "holding"
      PROVE  /\ status'[r] = "released"
             /\ \A d \in Callers \ {r} : \/ status'[d] = status[d]
                                         \/ status[d] = "waiting" /\ status'[d] = "holding"
  BY <1>1 DEF Release, Pump, CoreInv, TypeOK
<1> QED
  BY <1>1 DEF AcquireNow, AcquireQueued, AcquireRefused, Abort
=============================================================================
