--------------------------- MODULE UsageRecordsProofs ---------------------------
(***************************************************************************)
(* What the usage tables say, for any numbers of calls, ids, candidates,   *)
(* turns and upsets, and any retention.                                    *)
(***************************************************************************)
EXTENDS UsageRecords, FiniteSetTheorems, WellFoundedInduction, TLAPS

-----------------------------------------------------------------------------
(* Retention: lemmas about Prune, for any set of rows                      *)

\* Rows that the order of retention can tell apart.
Dated(r) == r.at \in Nat /\ Key(r) \in Nat
Keyed(rows) ==
  /\ IsFiniteSet(rows)
  /\ \A r \in rows : Dated(r)
  /\ \A r, s \in rows : Key(r) = Key(s) => r = s

LaterThan(rows, r) == {s \in rows : Later(s, r)}

LEMMA LaterOrder ==
  ASSUME NEW r, NEW s, NEW t, Dated(r), Dated(s), Dated(t)
  PROVE  /\ ~Later(r, r)
         /\ Later(r, s) /\ Later(s, t) => Later(r, t)
         /\ Later(r, s) \/ Later(s, r) \/ Key(r) = Key(s)
BY DEF Dated, Later

LEMMA LeastElement ==
  ASSUME NEW S \in SUBSET Nat, S # {}
  PROVE  \E m \in S : \A i \in S : m <= i
<1>1. PICK m \in S : \A i \in S : ~ (<<i, m>> \in OpToRel(<, Nat))
  BY NatLessThanWellFounded, WFMin
<1>2. ASSUME NEW i \in S PROVE m <= i
  <2>1. ~ (i < m)
    BY <1>1 DEF OpToRel
  <2> QED
    BY <2>1
<1> QED
  BY <1>2

LEMMA LaterThanFinite ==
  ASSUME NEW rows, IsFiniteSet(rows), NEW r
  PROVE  IsFiniteSet(LaterThan(rows, r)) /\ Cardinality(LaterThan(rows, r)) \in Nat
<1>1. LaterThan(rows, r) \in SUBSET rows
  BY DEF LaterThan
<1> QED
  BY <1>1, FS_Subset, FS_CardinalityType

\* The later of two rows has fewer rows that are later.
LEMMA LaterIsNewer ==
  ASSUME NEW rows, Keyed(rows), NEW r \in rows, NEW s \in rows, Later(s, r)
  PROVE  Cardinality(LaterThan(rows, s)) < Cardinality(LaterThan(rows, r))
<1>1. LaterThan(rows, s) \subseteq LaterThan(rows, r)
  BY LaterOrder DEF LaterThan, Keyed
<1>2. s \in LaterThan(rows, r) /\ s \notin LaterThan(rows, s)
  BY LaterOrder DEF LaterThan, Keyed
<1> QED
  BY <1>1, <1>2, LaterThanFinite, FS_Subset DEF Keyed

\* Among finitely many rows one has none later among them.
LEMMA NewestRow ==
  ASSUME NEW rows, Keyed(rows), NEW S \in SUBSET rows, S # {}
  PROVE  \E m \in S : \A s \in S : ~Later(s, m)
<1> DEFINE Ranks == {Cardinality(LaterThan(rows, s)) : s \in S}
<1>1. Ranks \in SUBSET Nat /\ Ranks # {}
  BY LaterThanFinite DEF Keyed
<1>2. PICK n \in Ranks : \A i \in Ranks : n <= i
  <2> HIDE DEF Ranks
  <2> QED
    BY <1>1, LeastElement
<1>3. PICK m \in S : n = Cardinality(LaterThan(rows, m))
  BY <1>2
<1>4. ASSUME NEW s \in S, Later(s, m) PROVE FALSE
  <2>1. Cardinality(LaterThan(rows, s)) < Cardinality(LaterThan(rows, m))
    BY <1>4, LaterIsNewer
  <2>2. /\ Cardinality(LaterThan(rows, s)) \in Nat /\ Cardinality(LaterThan(rows, m)) \in Nat
        /\ Cardinality(LaterThan(rows, m)) <= Cardinality(LaterThan(rows, s))
    BY <1>2, <1>3, LaterThanFinite DEF Keyed
  <2> QED
    BY <2>1, <2>2
<1> QED
  BY <1>4

\* What has as many later rows as are kept keeps as many: they are the newest.
LEMMA PruneKeepsNewest ==
  ASSUME NEW rows, Keyed(rows), NEW keep \in Nat, NEW r, Dated(r),
         Cardinality(LaterThan(rows, r)) >= keep
  PROVE  Cardinality(LaterThan(Prune(rows, keep), r)) >= keep
<1> DEFINE Later_r == LaterThan(rows, r)
           Kept == LaterThan(Prune(rows, keep), r)
<1>1. Prune(rows, keep) \subseteq rows
  BY DEF Prune
<1>2. IsFiniteSet(Kept) /\ Cardinality(Kept) \in Nat
  BY <1>1, LaterThanFinite, FS_Subset DEF Keyed
<1>3. CASE Later_r \subseteq Kept
  <2>1. Kept \subseteq Later_r
    BY <1>1 DEF LaterThan
  <2>2. Kept = Later_r
    BY <1>3, <2>1
  <2> QED
    BY <2>2
<1>4. CASE ~(Later_r \subseteq Kept)
  <2>1. PICK m \in Later_r \ Kept : \A s \in Later_r \ Kept : ~Later(s, m)
    <3>1. Later_r \ Kept \in SUBSET rows /\ Later_r \ Kept # {}
      BY <1>4 DEF LaterThan
    <3> QED
      BY <3>1, NewestRow
  <2>2. m \in rows /\ Later(m, r) /\ m \notin Prune(rows, keep)
    BY <2>1 DEF LaterThan
  <2>3. Cardinality(LaterThan(rows, m)) >= keep
    BY <2>2, LaterThanFinite DEF Prune, LaterThan, Keyed
  <2>4. LaterThan(rows, m) \subseteq Kept
    <3> SUFFICES ASSUME NEW s \in rows, Later(s, m) PROVE s \in Kept
      BY DEF LaterThan
    <3>1. Later(s, r)
      BY <2>2, LaterOrder DEF Keyed
    <3> QED
      BY <2>1, <3>1 DEF LaterThan
  <2>5. Cardinality(LaterThan(rows, m)) <= Cardinality(Kept)
    BY <1>2, <2>4, FS_Subset
  <2> QED
    BY <1>2, <2>3, <2>5, LaterThanFinite DEF Keyed
<1> QED
  BY <1>3, <1>4

\* Retention keeps no more than it is told to.
LEMMA PruneBounds ==
  ASSUME NEW rows, Keyed(rows), NEW keep \in Nat
  PROVE  /\ IsFiniteSet(Prune(rows, keep))
         /\ Cardinality(Prune(rows, keep)) <= keep
<1> DEFINE rank == [r \in Prune(rows, keep) |-> Cardinality(LaterThan(rows, r))]
<1>1. \A r \in Prune(rows, keep) :
        r \in rows /\ rank[r] \in Nat /\ rank[r] < keep
  BY LaterThanFinite DEF Prune, Keyed, LaterThan
<1>2. rank \in [Prune(rows, keep) -> 0..keep - 1]
  BY <1>1
<1>3. ASSUME NEW r \in Prune(rows, keep), NEW s \in Prune(rows, keep), rank[r] = rank[s]
      PROVE  r = s
  <2>1. ~Later(r, s) /\ ~Later(s, r)
    BY <1>1, <1>3, LaterIsNewer, LaterThanFinite DEF Keyed
  <2> QED
    BY <1>1, <2>1, LaterOrder DEF Keyed
<1>4. rank \in Injection(Prune(rows, keep), 0..keep - 1)
  BY <1>2, <1>3 DEF Injection, IsInjective
<1>5. IsFiniteSet(0..keep - 1) /\ Cardinality(0..keep - 1) = keep
  BY FS_Interval
<1> QED
  BY <1>4, <1>5, FS_Injection

-----------------------------------------------------------------------------
(* The inductive invariant of the tables                                   *)

Started(c) == call[c].step # "idle"
StartedInv == \A c \in Calls : Started(c) => call[c].id \in Ids

TypeInv == TypeOK /\ StartedInv

\* One row has one key, and what retention deleted does not come back; a request
\* row is the last record of its id.
RowInv ==
  /\ IsFiniteSet(requests) /\ IsFiniteSet(attempts)
  /\ \A r, s \in requests : r.id = s.id => r = s
  /\ \A a, b \in attempts : a.serial = b.serial => a = b
  /\ \A a \in attempts \union gone : a.serial <= serial
  /\ \A a \in attempts, b \in gone : a.serial # b.serial
  /\ \A f, g \in ended : f.id = g.id => f = g
  /\ \A r \in requests : [id |-> r.id, at |-> r.at] \in ended

TableInv == TypeInv /\ RowInv /\ NewestKept

LEMMA Constants ==
  /\ Ids \subseteq Nat /\ Streams \subseteq Calls
  /\ RequestRetention \in Nat /\ RequestRetention >= 1
  /\ AttemptRetention \in Nat /\ AttemptRetention >= 1
  /\ Reports \subseteq SUBSET Counts
  /\ MaxUpsets \in Nat /\ MaxTime \in Nat
BY UsageAssumption DEF Counts

LEMMA KeysAreNumbers == Ids \subseteq Nat /\ Times \subseteq Nat
BY Constants DEF Times

LEMMA RowKeys ==
  /\ \A r \in RequestRows : Key(r) = r.id /\ Dated(r)
  /\ \A a \in AttemptRows : Key(a) = a.serial /\ Dated(a)
  /\ \A f \in [id : Ids, at : Times] : Key(f) = f.id /\ Dated(f)
<1>1. \A r \in RequestRows : Key(r) = r.id /\ r.id \in Nat /\ r.at \in Nat
  BY KeysAreNumbers DEF Key, RequestRows
<1>2. \A a \in AttemptRows : Key(a) = a.serial /\ a.serial \in Nat /\ a.at \in Nat
  BY KeysAreNumbers DEF Key, AttemptRows
<1>3. \A f \in [id : Ids, at : Times] : Key(f) = f.id /\ f.id \in Nat /\ f.at \in Nat
  BY KeysAreNumbers DEF Key
<1> QED
  BY <1>1, <1>2, <1>3 DEF Dated

TableTypes ==
  /\ requests \subseteq RequestRows /\ attempts \subseteq AttemptRows
  /\ serial \in Nat
  /\ ended \subseteq [id : Ids, at : Times]
  /\ gone \subseteq AttemptRows
  /\ turnedBack \in BOOLEAN

LEMMA TablesKeyed ==
  ASSUME TableTypes, RowInv
  PROVE  Keyed(attempts) /\ Keyed(requests)
<1>1. Keyed(attempts)
  <2>1. \A a \in attempts : a \in AttemptRows /\ Key(a) = a.serial /\ Dated(a)
    BY RowKeys DEF TableTypes
  <2> QED
    BY <2>1 DEF Keyed, RowInv
<1>2. Keyed(requests)
  <2>1. \A r \in requests : r \in RequestRows /\ Key(r) = r.id /\ Dated(r)
    BY RowKeys DEF TableTypes
  <2> QED
    BY <2>1 DEF Keyed, RowInv
<1> QED
  BY <1>1, <1>2

-----------------------------------------------------------------------------
(* An attempt is recorded                                                  *)

AttemptRow(e, now) ==
  [serial |-> serial + 1, id |-> e.id, at |-> now, provider |-> e.provider,
   outcome |-> IF e.kind = "provider.failed" THEN "failed" ELSE "ok"]

LEMMA AttemptIsNew ==
  ASSUME TableTypes, RowInv, NEW e \in Events, NEW now \in Times
  PROVE  /\ AttemptRow(e, now) \in AttemptRows
         /\ AttemptRow(e, now) \notin attempts \union gone
         /\ Keyed(attempts \union {AttemptRow(e, now)})
<1> DEFINE row == AttemptRow(e, now)
<1>1. row \in AttemptRows /\ row.serial = serial + 1
  BY DEF AttemptRow, AttemptRows, Events, TableTypes
<1>2. \A a \in attempts \union gone :
        a.serial \in Nat /\ a.serial <= serial /\ serial \in Nat
  BY DEF TableTypes, RowInv, AttemptRows
<1>3. row \notin attempts \union gone
  BY <1>1, <1>2
<1>4. IsFiniteSet(attempts \union {row})
  BY FS_AddElement DEF RowInv
<1>5. \A a \in attempts \union {row} : Key(a) = a.serial /\ Dated(a)
  BY <1>1, RowKeys DEF TableTypes
<1>6. ASSUME NEW a \in attempts \union {row}, NEW b \in attempts \union {row},
             a.serial = b.serial
      PROVE  a = b
  BY <1>1, <1>2, <1>6 DEF RowInv
<1> HIDE DEF row
<1> QED
  BY <1>1, <1>3, <1>4, <1>5, <1>6 DEF Keyed, row

LEMMA AttemptRecorded ==
  ASSUME TableTypes, RowInv, NEW e \in Events, NEW now \in Times,
         NEW pruned \in BOOLEAN, RecordAttempt(e, now, pruned)
  PROVE  /\ TableTypes' /\ RowInv'
         /\ attempts' \subseteq attempts \union {AttemptRow(e, now)}
         /\ gone' \subseteq gone \union ((attempts \union {AttemptRow(e, now)}) \ attempts')
<1> DEFINE row == AttemptRow(e, now)
           rows == attempts \union {row}
<1>1. /\ attempts' = IF pruned THEN Prune(rows, AttemptRetention) ELSE rows
      /\ serial' = serial + 1
      /\ gone' \subseteq gone \union (rows \ attempts')
      /\ requests' = requests /\ ended' = ended /\ turnedBack' = turnedBack
  BY DEF RecordAttempt, AttemptRow
<1>2. attempts' \subseteq rows
  BY <1>1 DEF Prune
<1>3. /\ row \in AttemptRows /\ row \notin attempts \union gone /\ Keyed(rows)
      /\ row.serial = serial + 1
  BY AttemptIsNew DEF AttemptRow
<1> HIDE DEF row
<1>4. TableTypes'
  <2>1. rows \subseteq AttemptRows
    BY <1>3 DEF TableTypes
  <2>2. attempts' \subseteq AttemptRows /\ gone' \subseteq AttemptRows
    BY <1>1, <1>2, <2>1 DEF TableTypes
  <2>3. serial' \in Nat
    BY <1>1 DEF TableTypes
  <2> QED
    BY <1>1, <2>2, <2>3, Zenon DEF TableTypes
<1>5. IsFiniteSet(attempts')
  BY <1>2, <1>3, FS_Subset DEF Keyed
<1>6. \A a \in rows \union gone : a.serial \in Nat /\ a.serial <= serial + 1
  BY <1>3 DEF TableTypes, RowInv, AttemptRows
<1>7. \A a, b \in rows : a.serial = b.serial => a = b
  BY <1>3, RowKeys DEF Keyed, TableTypes
<1>8. \A a \in rows, b \in gone : a.serial # b.serial
  BY <1>3, <1>6 DEF RowInv, TableTypes, AttemptRows
<1>9. RowInv'
  <2>1. \A a \in attempts', b \in gone' : a.serial # b.serial
    BY <1>1, <1>2, <1>7, <1>8
  <2>2. \A a \in attempts' \union gone' : a.serial <= serial'
    BY <1>1, <1>2, <1>6
  <2> QED
    BY <1>1, <1>2, <1>5, <1>7, <2>1, <2>2 DEF RowInv
<1> QED
  BY <1>1, <1>2, <1>4, <1>9 DEF row

AttemptsKept ==
  /\ \A a \in gone : Cardinality(LaterThan(attempts, a)) >= AttemptRetention
  /\ Cardinality(attempts) <= AttemptRetention + upsets

LEMMA AttemptsStillKept ==
  ASSUME TableTypes, RowInv, AttemptsKept, upsets \in Nat,
         NEW e \in Events, NEW now \in Times, NEW pruned \in BOOLEAN,
         RecordAttempt(e, now, pruned),
         upsets' = IF pruned THEN upsets ELSE upsets + 1
  PROVE  AttemptsKept'
<1> DEFINE row == AttemptRow(e, now)
           rows == attempts \union {row}
           keep == AttemptRetention
<1>1. /\ attempts' = IF pruned THEN Prune(rows, keep) ELSE rows
      /\ gone' \subseteq gone \union (rows \ attempts')
  BY DEF RecordAttempt, AttemptRow
<1>2. /\ row \in AttemptRows /\ row \notin attempts /\ Keyed(rows) /\ keep \in Nat
      /\ IsFiniteSet(attempts) /\ Cardinality(attempts) \in Nat
  BY AttemptIsNew, Constants, FS_CardinalityType DEF RowInv
<1> HIDE DEF row
<1>3. ASSUME NEW a \in gone'
      PROVE  /\ Dated(a)
             /\ Cardinality(LaterThan(rows, a)) >= keep
  <2>1. a \in AttemptRows
    BY <1>1, <1>2 DEF TableTypes
  <2>2. CASE a \in gone
    <3>1. Cardinality(LaterThan(attempts, a)) >= keep
      BY <2>2 DEF AttemptsKept
    <3>2. LaterThan(attempts, a) \subseteq LaterThan(rows, a)
      BY DEF LaterThan
    <3>3. IsFiniteSet(LaterThan(rows, a))
      BY <1>2, LaterThanFinite DEF Keyed
    <3>4. /\ Cardinality(LaterThan(attempts, a)) <= Cardinality(LaterThan(rows, a))
          /\ Cardinality(LaterThan(attempts, a)) \in Nat
          /\ Cardinality(LaterThan(rows, a)) \in Nat
      BY <3>2, <3>3, FS_Subset, FS_CardinalityType
    <3> QED
      BY <1>2, <2>1, <3>1, <3>4, RowKeys
  <2>3. CASE a \in rows \ attempts'
    <3>1. a \in rows /\ ~(Cardinality(LaterThan(rows, a)) < keep)
      BY <1>1, <2>3 DEF Prune, LaterThan
    <3>2. Cardinality(LaterThan(rows, a)) \in Nat
      BY <1>2, LaterThanFinite DEF Keyed
    <3> QED
      BY <1>2, <2>1, <3>1, <3>2, RowKeys
  <2> QED
    BY <1>1, <2>2, <2>3
<1>4. \A a \in gone' : Cardinality(LaterThan(attempts', a)) >= keep
  <2> TAKE a \in gone'
  <2>1. CASE pruned
    BY <1>1, <1>2, <1>3, <2>1, PruneKeepsNewest
  <2>2. CASE ~pruned
    BY <1>1, <1>3, <2>2
  <2> QED
    BY <2>1, <2>2
<1>5. Cardinality(attempts') <= keep + upsets'
  <2>1. CASE pruned
    <3>1. /\ Cardinality(attempts') <= keep /\ upsets' = upsets
          /\ Cardinality(attempts') \in Nat
      BY <1>1, <1>2, <2>1, PruneBounds, FS_CardinalityType
    <3> QED
      BY <1>2, <3>1
  <2>2. CASE ~pruned
    <3>1. Cardinality(attempts') = Cardinality(attempts) + 1 /\ upsets' = upsets + 1
      BY <1>1, <1>2, <2>2, FS_AddElement
    <3> QED
      BY <1>2, <3>1 DEF AttemptsKept
  <2> QED
    BY <2>1, <2>2
<1> QED
  BY <1>4, <1>5 DEF AttemptsKept, LaterThan, Later

-----------------------------------------------------------------------------
(* The end of a request is recorded                                        *)

LEMMA RequestRowTyped ==
  ASSUME NEW e \in Events, NEW now \in Times
  PROVE  /\ RequestRow(e, now) \in RequestRows
         /\ RequestRow(e, now).id = e.id /\ RequestRow(e, now).at = now
         /\ e.id \in Ids
<1>1. e.id \in Ids /\ e.provider \in Nat /\ e.mode \in Modes /\ e.attempts \in Nat
      /\ e.reports \in SUBSET Counts
  BY DEF Events
<1> QED
  BY <1>1 DEF RequestRow, RequestRows

LEMMA UpsertKeyed ==
  ASSUME TableTypes, RowInv, NEW e \in Events, NEW now \in Times
  PROVE  Keyed(Upsert(RequestRow(e, now))) /\ Upsert(RequestRow(e, now)) \subseteq RequestRows
<1> DEFINE row == RequestRow(e, now)
           rows == Upsert(row)
<1>1. row \in RequestRows
  BY RequestRowTyped
<1> HIDE DEF row
<1>2. rows \subseteq RequestRows
  BY <1>1 DEF Upsert, TableTypes
<1>3. IsFiniteSet(rows)
  BY FS_Subset, FS_AddElement DEF Upsert, RowInv
<1>4. \A r, s \in rows : r.id = s.id => r = s
  BY DEF Upsert, RowInv
<1>5. \A r \in rows : Key(r) = r.id /\ Dated(r)
  BY <1>2, RowKeys
<1> QED
  BY <1>2, <1>3, <1>4, <1>5 DEF Keyed, row

LEMMA RequestRecorded ==
  ASSUME TableTypes, RowInv, NEW e \in Events, NEW now \in Times,
         NEW pruned \in BOOLEAN, RecordRequest(e, now, pruned)
  PROVE  /\ TableTypes' /\ RowInv'
         /\ requests' \subseteq Upsert(RequestRow(e, now))
<1> DEFINE row == RequestRow(e, now)
           rows == Upsert(row)
           last == [id |-> e.id, at |-> now]
<1>1. /\ requests' = IF pruned THEN Prune(rows, RequestRetention) ELSE rows
      /\ ended' = {f \in ended : f.id # e.id} \union {last}
      /\ turnedBack' \in BOOLEAN
      /\ attempts' = attempts /\ serial' = serial /\ gone' = gone
  BY DEF RecordRequest, TableTypes
<1>2. requests' \subseteq rows
  BY <1>1 DEF Prune
<1>3. Keyed(rows) /\ rows \subseteq RequestRows /\ last \in [id : Ids, at : Times]
  BY UpsertKeyed, RequestRowTyped
<1>4. row.id = e.id /\ row.at = now
  BY RequestRowTyped
<1> HIDE DEF row
<1>5. ended' \subseteq [id : Ids, at : Times]
  BY <1>1, <1>3 DEF TableTypes
<1>6. TableTypes'
  BY <1>1, <1>2, <1>3, <1>5, Zenon DEF TableTypes
<1>7. \A f, g \in ended' : f.id = g.id => f = g
  BY <1>1 DEF RowInv
<1>8. \A r \in rows : [id |-> r.id, at |-> r.at] \in ended'
  BY <1>1, <1>4 DEF Upsert, RowInv
<1>9. IsFiniteSet(requests') /\ \A r, s \in requests' : r.id = s.id => r = s
  <2>1. \A r, s \in rows : r.id = s.id => r = s
    BY DEF Upsert, RowInv
  <2> QED
    BY <1>2, <1>3, <2>1, FS_Subset DEF Keyed
<1> HIDE DEF rows
<1>10. RowInv'
  BY <1>1, <1>2, <1>7, <1>8, <1>9 DEF RowInv
<1> QED
  BY <1>2, <1>6, <1>10 DEF row, rows

RequestsKept ==
  /\ ~turnedBack =>
       \A f \in ended : (\E r \in requests : r.id = f.id) \/
         Cardinality(LaterThan(requests, f)) >= RequestRetention
  /\ Cardinality(requests) <= RequestRetention + upsets

\* A record of a request that is not set back in time leaves no row fewer that are
\* later than another one.
LEMMA UpsertKeepsLater ==
  ASSUME TableTypes, RowInv, NEW e \in Events, NEW now \in Times,
         \A g \in ended : g.id = e.id => g.at <= now,
         NEW f, Dated(f)
  PROVE  Cardinality(LaterThan(requests, f)) <=
           Cardinality(LaterThan(Upsert(RequestRow(e, now)), f))
<1> DEFINE row == RequestRow(e, now)
           rows == Upsert(row)
           Before == LaterThan(requests, f)
           After == LaterThan(rows, f)
<1>1. /\ IsFiniteSet(Before) /\ IsFiniteSet(After)
      /\ Cardinality(Before) \in Nat /\ Cardinality(After) \in Nat
  BY UpsertKeyed, LaterThanFinite DEF Keyed, RowInv
<1>2. /\ row \in RequestRows /\ row.id = e.id /\ row.at = now
      /\ Key(row) = e.id /\ now \in Nat /\ e.id \in Nat
  BY ZenonT(60), RequestRowTyped, RowKeys, KeysAreNumbers
<1> HIDE DEF row
<1>3. CASE \A r \in Before : r.id # e.id
  <2>1. Before \subseteq After
    BY <1>2, <1>3 DEF LaterThan, Upsert
  <2> QED
    BY <1>1, <2>1, FS_Subset DEF row
<1>4. ASSUME NEW r \in Before, r.id = e.id
      PROVE  Cardinality(Before) <= Cardinality(After)
  <2>1. r \in requests /\ r \in RequestRows /\ Key(r) = e.id /\ Dated(r) /\ Later(r, f)
    BY <1>4, RowKeys DEF LaterThan, TableTypes
  <2>2. r.at <= now
    <3>1. [id |-> r.id, at |-> r.at] \in ended
      BY <2>1 DEF RowInv
    <3> QED
      BY <1>4, <3>1
  <2>3. Later(row, f)
    BY <1>2, <2>1, <2>2 DEF Later, Dated
  <2>4. \A s \in Before \ {r} : s.id # e.id
    BY <1>4, <2>1 DEF LaterThan, RowInv
  <2>5. (Before \ {r}) \union {row} \subseteq After
    BY <1>2, <2>3, <2>4 DEF LaterThan, Upsert
  <2>6. row \notin Before \ {r}
    BY <1>2, <2>4
  <2>7. /\ IsFiniteSet(Before \ {r}) /\ Cardinality(Before \ {r}) = Cardinality(Before) - 1
    BY <1>1, FS_RemoveElement
  <2>8. Cardinality((Before \ {r}) \union {row}) = Cardinality(Before \ {r}) + 1
    BY <2>6, <2>7, FS_AddElement
  <2>9. Cardinality((Before \ {r}) \union {row}) <= Cardinality(After)
    BY <1>1, <2>5, FS_Subset
  <2> QED
    BY <1>1, <2>7, <2>8, <2>9
<1> QED
  BY <1>3, <1>4 DEF row

LEMMA RequestsStillKept ==
  ASSUME TableTypes, RowInv, RequestsKept, upsets \in Nat,
         NEW e \in Events, NEW now \in Times, NEW pruned \in BOOLEAN,
         RecordRequest(e, now, pruned),
         upsets' = IF pruned THEN upsets ELSE upsets + 1
  PROVE  RequestsKept'
<1> DEFINE row == RequestRow(e, now)
           rows == Upsert(row)
           last == [id |-> e.id, at |-> now]
           keep == RequestRetention
<1>1. /\ requests' = IF pruned THEN Prune(rows, keep) ELSE rows
      /\ ended' = {f \in ended : f.id # e.id} \union {last}
      /\ turnedBack' = (turnedBack \/ \E f \in ended : f.id = e.id /\ f.at > now)
  BY DEF RecordRequest
<1>2. /\ Keyed(rows) /\ rows \subseteq RequestRows /\ keep \in Nat
      /\ row \in RequestRows /\ row.id = e.id /\ row.at = now /\ row \in rows
      /\ IsFiniteSet(requests) /\ Cardinality(requests) \in Nat
  BY UpsertKeyed, RequestRowTyped, Constants, FS_CardinalityType DEF RowInv, Upsert
<1>3. /\ TableTypes' /\ RowInv'
      /\ last \in [id : Ids, at : Times]
  BY RequestRecorded, RequestRowTyped
<1> HIDE DEF row
\* A record whose row is among those that retention looked at.
<1>4. ASSUME NEW r \in rows, NEW f \in ended', f.id = r.id, f.at = r.at
      PROVE  (\E s \in requests' : s.id = f.id)
               \/ Cardinality(LaterThan(requests', f)) >= keep
  <2>1. CASE r \in requests'
    BY <1>4, <2>1
  <2>2. CASE r \notin requests'
    <3>1. pruned /\ requests' = Prune(rows, keep)
          /\ ~(Cardinality(LaterThan(rows, r)) < keep)
      BY <1>1, <2>2 DEF Prune, LaterThan
    <3>2. r \in RequestRows /\ Dated(r) /\ Key(r) = r.id /\ Key(f) = f.id
      BY <1>2, <1>3, RowKeys DEF TableTypes
    <3>3. Cardinality(LaterThan(rows, r)) \in Nat
      BY <1>2, LaterThanFinite DEF Keyed
    <3>4. Cardinality(LaterThan(requests', r)) >= keep
      BY <1>2, <3>1, <3>2, <3>3, PruneKeepsNewest
    <3>5. LaterThan(requests', f) = LaterThan(requests', r)
      BY <1>4, <3>2 DEF LaterThan, Later
    <3> QED
      BY <3>4, <3>5
  <2> QED
    BY <2>1, <2>2
<1>5. ASSUME ~turnedBack', NEW f \in ended'
      PROVE  (\E s \in requests' : s.id = f.id)
               \/ Cardinality(LaterThan(requests', f)) >= keep
  <2>1. /\ ~turnedBack
        /\ \A g \in ended : g.id = e.id => ~(g.at > now)
    BY <1>1, <1>5
  <2>2. Dated(f)
    BY <1>3, RowKeys DEF TableTypes
  <2>3. CASE f = last
    BY <1>2, <1>4, <2>3
  <2>4. CASE f \in ended /\ f.id # e.id
    <3>1. CASE \E r \in requests : r.id = f.id
      <4>1. PICK r \in requests : r.id = f.id
        BY <3>1
      <4>2. r \in rows
        BY <1>2, <2>4, <4>1 DEF Upsert
      <4>3. f.at = r.at
        <5>1. [id |-> r.id, at |-> r.at] \in ended
          BY <4>1 DEF RowInv
        <5>2. f = [id |-> r.id, at |-> r.at]
          BY <2>4, <4>1, <5>1 DEF RowInv
        <5> QED
          BY <5>2
      <4> QED
        BY <1>4, <4>1, <4>2, <4>3
    <3>2. CASE Cardinality(LaterThan(requests, f)) >= keep
      <4>1. \A g \in ended : g.id = e.id => g.at <= now
        <5>1. \A g \in ended : g.at \in Times
          BY DEF TableTypes
        <5>2. \A g \in ended : g.at \in Nat /\ now \in Nat
          BY <5>1, KeysAreNumbers
        <5> QED
          BY <2>1, <5>2
      <4>2. Cardinality(LaterThan(requests, f)) <= Cardinality(LaterThan(rows, f))
        BY <2>2, <4>1, UpsertKeepsLater DEF row
      <4>3. /\ Cardinality(LaterThan(requests, f)) \in Nat
            /\ Cardinality(LaterThan(rows, f)) \in Nat
        BY <1>2, LaterThanFinite DEF Keyed
      <4>4. Cardinality(LaterThan(rows, f)) >= keep
        BY <1>2, <3>2, <4>2, <4>3
      <4>5. CASE pruned
        BY <1>1, <1>2, <2>2, <4>4, <4>5, PruneKeepsNewest
      <4>6. CASE ~pruned
        BY <1>1, <4>4, <4>6
      <4> QED
        BY <4>5, <4>6
    <3> QED
      BY <2>1, <2>4, <3>1, <3>2 DEF RequestsKept
  <2> QED
    BY <1>1, <2>3, <2>4
<1>6. Cardinality(requests') <= keep + upsets'
  <2>1. CASE pruned
    <3>1. /\ Cardinality(requests') <= keep /\ upsets' = upsets
          /\ Cardinality(requests') \in Nat
      BY <1>1, <1>2, <2>1, PruneBounds, FS_CardinalityType
    <3> QED
      BY <1>2, <3>1
  <2>2. CASE ~pruned
    <3> DEFINE others == {r \in requests : r.id # row.id}
    <3>1. /\ IsFiniteSet(others) /\ Cardinality(others) <= Cardinality(requests)
          /\ Cardinality(others) \in Nat
      BY <1>2, FS_Subset, FS_CardinalityType
    <3>2. requests' = others \union {row} /\ row \notin others /\ upsets' = upsets + 1
      BY <1>1, <2>2 DEF Upsert
    <3>3. Cardinality(requests') = Cardinality(others) + 1
      BY <3>1, <3>2, FS_AddElement
    <3> QED
      BY <1>2, <3>1, <3>2, <3>3 DEF RequestsKept
  <2> QED
    BY <2>1, <2>2
<1> QED
  BY <1>5, <1>6 DEF RequestsKept, LaterThan, Later

-----------------------------------------------------------------------------
(* The tables, over every step                                             *)

LEMMA KeptInParts == NewestKept <=> AttemptsKept /\ RequestsKept
BY DEF NewestKept, AttemptsKept, RequestsKept, LaterThan

TablesSound == TableTypes /\ RowInv /\ AttemptsKept /\ RequestsKept

LEMMA TablesUntouched ==
  ASSUME TablesSound, UNCHANGED tables, upsets \in Nat, upsets' \in Nat, upsets <= upsets'
  PROVE  TablesSound'
<1>1. /\ requests' = requests /\ attempts' = attempts /\ serial' = serial
      /\ ended' = ended /\ gone' = gone /\ turnedBack' = turnedBack
  BY DEF tables
<1>2. TableTypes' /\ RowInv'
  BY <1>1, Zenon DEF TablesSound, TableTypes, RowInv
<1>3. Cardinality(attempts) \in Nat /\ Cardinality(requests) \in Nat
  BY FS_CardinalityType DEF TablesSound, RowInv
<1>4. AttemptsKept'
  BY <1>1, <1>3, Constants DEF TablesSound, AttemptsKept, LaterThan, Later
<1>5. RequestsKept'
  BY <1>1, <1>3, Constants DEF TablesSound, RequestsKept, LaterThan, Later
<1> QED
  BY <1>2, <1>4, <1>5 DEF TablesSound

LEMMA RecordKeepsTables ==
  ASSUME TablesSound, upsets \in Nat,
         NEW e \in Events, NEW now \in Times, NEW pruned \in BOOLEAN,
         Record(e, now, pruned),
         upsets' = IF pruned THEN upsets ELSE upsets + 1
  PROVE  TablesSound'
<1>1. upsets' \in Nat /\ upsets <= upsets'
  OBVIOUS
<1>2. CASE RecordRequest(e, now, pruned)
  <2>1. TableTypes' /\ RowInv' /\ RequestsKept'
    BY <1>2, RequestRecorded, RequestsStillKept DEF TablesSound
  <2>2. attempts' = attempts /\ gone' = gone
    BY <1>2 DEF RecordRequest
  <2>3. Cardinality(attempts) \in Nat
    BY FS_CardinalityType DEF TablesSound, RowInv
  <2>4. AttemptsKept'
    BY <1>1, <2>2, <2>3, Constants DEF TablesSound, AttemptsKept, LaterThan, Later
  <2> QED
    BY <2>1, <2>4 DEF TablesSound
<1>3. CASE RecordAttempt(e, now, pruned)
  <2>1. TableTypes' /\ RowInv' /\ AttemptsKept'
    BY <1>3, AttemptRecorded, AttemptsStillKept DEF TablesSound
  <2>2. requests' = requests /\ ended' = ended /\ turnedBack' = turnedBack
    BY <1>3 DEF RecordAttempt
  <2>3. Cardinality(requests) \in Nat
    BY FS_CardinalityType DEF TablesSound, RowInv
  <2>4. RequestsKept'
    BY <1>1, <2>2, <2>3, Constants DEF TablesSound, RequestsKept, LaterThan, Later
  <2> QED
    BY <2>1, <2>4 DEF TablesSound
<1>4. CASE UNCHANGED tables
  BY <1>1, <1>4, TablesUntouched
<1> QED
  BY <1>2, <1>3, <1>4 DEF Record

LEMMA EmitKeepsTables ==
  ASSUME TypeInv, TablesSound, EmitNext
  PROVE  TablesSound'
<1> DEFINE e == Head(out)
<1>1. e \in Events /\ upsets \in Nat
  BY Constants DEF EmitNext, TypeInv, TypeOK
<1> HIDE DEF e
<1>2. CASE \E now \in 0..MaxTime : Record(e, now, TRUE) /\ UNCHANGED <<upsets, life>>
  <2>1. PICK now \in Times : Record(e, now, TRUE) /\ upsets' = upsets
    BY <1>2 DEF Times
  <2> QED
    BY <1>1, <2>1, RecordKeepsTables
<1>3. CASE \E now \in 0..MaxTime : Record(e, now, FALSE) /\ upsets' = upsets + 1
  <2>1. PICK now \in Times : Record(e, now, FALSE) /\ upsets' = upsets + 1
    BY <1>3 DEF Times
  <2> QED
    BY <1>1, <2>1, RecordKeepsTables
<1>4. CASE UNCHANGED tables /\ upsets' = upsets + 1
  BY <1>1, <1>4, TablesUntouched
<1> QED
  BY <1>2, <1>3, <1>4 DEF EmitNext, e

LEMMA PurgeKeepsTables ==
  ASSUME TypeInv, TablesSound, Purge
  PROVE  TablesSound'
<1>1. /\ upsets \in Nat /\ upsets' = upsets + 1
      /\ requests' = {} /\ ended' = {} /\ turnedBack' = FALSE /\ serial' = serial
      /\ \/ attempts' = {} /\ gone' = {}
         \/ attempts' = attempts /\ gone' = gone
  BY Constants DEF Purge, TypeInv, TypeOK
<1>2. /\ IsFiniteSet({}) /\ Cardinality({}) = 0
      /\ Cardinality(attempts) \in Nat /\ Cardinality(requests) \in Nat
  BY FS_EmptySet, FS_CardinalityType DEF TablesSound, RowInv
<1>3. TableTypes'
  BY <1>1 DEF TablesSound, TableTypes
<1>4. RowInv'
  BY <1>1, <1>2 DEF TablesSound, RowInv
<1>5. AttemptsKept'
  <2>1. CASE attempts' = {} /\ gone' = {}
    BY <1>1, <1>2, <2>1, Constants DEF AttemptsKept
  <2>2. CASE attempts' = attempts /\ gone' = gone
    BY <1>1, <1>2, <2>2, Constants DEF TablesSound, AttemptsKept, LaterThan, Later
  <2> QED
    BY <1>1, <2>1, <2>2
<1>6. RequestsKept'
  BY <1>1, <1>2, Constants DEF RequestsKept
<1> QED
  BY <1>3, <1>4, <1>5, <1>6 DEF TablesSound

-----------------------------------------------------------------------------
(* Types                                                                   *)

\* What the steps of a call may do to the types: the tables are apart.
CallTypes ==
  /\ upsets \in 0..MaxUpsets
  /\ call \in [Calls -> CallStates]
  /\ out \in Seq(Events)
  /\ life \in [Ids -> {"new", "used", "spoilt"}]
  /\ StartedInv

LEMMA TypeInParts == TypeInv <=> TableTypes /\ CallTypes
BY DEF TypeInv, TypeOK, TableTypes, CallTypes

LEMMA EventTyped ==
  ASSUME CallTypes, NEW c \in Calls, Started(c), NEW kind \in Kinds, NEW provider \in Nat,
         NEW mode \in Modes, NEW reports \in SUBSET Counts
  PROVE  Event(c, kind, provider, mode, reports) \in Events
<1>1. call[c].id \in Ids /\ call[c].tried \in Nat
  BY DEF CallTypes, StartedInv, CallStates
<1> QED
  BY <1>1 DEF Event, Events

LEMMA ModeTyped ==
  ASSUME CallTypes, NEW c \in Calls
  PROVE  Mode(c) \in Modes /\ BaseMode(c) \in Modes /\ call[c].next \in Nat
BY DEF Mode, BaseMode, Modes, CallTypes, CallStates

LEMMA OfTyped ==
  ASSUME CallTypes, NEW c \in Calls, Started(c), NEW kind \in Kinds
  PROVE  Of(c, kind) \in Events
<1>1. {} \in SUBSET Counts
  OBVIOUS
<1> QED
  BY <1>1, EventTyped, ModeTyped DEF Of

LEMMA OpenedTyped ==
  ASSUME CallTypes, NEW c \in Calls, Started(c)
  PROVE  Opened(c) \in Seq(Events)
<1>1. Of(c, "failover.started") \in Events /\ Of(c, "provider.attempted") \in Events
  BY OfTyped DEF Kinds
<1> QED
  BY <1>1 DEF Opened

LEMMA CompletedTyped ==
  ASSUME CallTypes, NEW c \in Calls, Started(c), NEW reports \in Reports
  PROVE  Completed(c, reports) \in Events
<1>1. reports \in SUBSET Counts /\ "request.completed" \in Kinds
  BY Constants DEF Kinds
<1> QED
  BY <1>1, EventTyped, ModeTyped DEF Completed

\* Where a call may go, and what that keeps.
LEMMA CallGoes ==
  ASSUME CallTypes, NEW c \in Calls, NEW now \in CallStates,
         now.step # "idle" => now.id \in Ids,
         call' = [call EXCEPT ![c] = now]
  PROVE  call' \in [Calls -> CallStates] /\ StartedInv'
<1>1. call' \in [Calls -> CallStates]
  BY DEF CallTypes
<1>2. \A d \in Calls : call'[d] = IF d = c THEN now ELSE call[d]
  BY DEF CallTypes
<1> QED
  BY <1>1, <1>2 DEF CallTypes, StartedInv, Started

LEMMA OverTyped ==
  ASSUME CallTypes, NEW c \in Calls, Started(c)
  PROVE  Over(c) \in CallStates /\ Over(c).id \in Ids /\ Over(c).step = "over"
<1>1. call[c].id \in Ids /\ call[c].turn \in Nat
  BY DEF CallTypes, StartedInv, CallStates
<1> QED
  BY <1>1 DEF Over, NoCall, CallStates

LEMMA EndsTyped ==
  ASSUME CallTypes, NEW c \in Calls, Started(c), Ends(c)
  PROVE  call' \in [Calls -> CallStates] /\ StartedInv'
BY OverTyped, CallGoes DEF Ends

LEMMA TurnTyped ==
  ASSUME CallTypes, NEW c \in Calls, NEW id \in Ids, NEW turn \in Nat, BeginTurn(c, id, turn)
  PROVE  /\ call' \in [Calls -> CallStates] /\ StartedInv'
         /\ life' \in [Ids -> {"new", "used", "spoilt"}]
<1>1. PICK n \in 0..MaxEligible :
        call' = [call EXCEPT ![c] = [step |-> "routing", id |-> id, turn |-> turn,
                                     eligible |-> n, next |-> 1, tried |-> 0]]
  BY DEF BeginTurn
<1>2. [step |-> "routing", id |-> id, turn |-> turn,
       eligible |-> n, next |-> 1, tried |-> 0] \in CallStates
  BY UsageAssumption DEF CallStates
<1>3. call' \in [Calls -> CallStates] /\ StartedInv'
  BY <1>1, <1>2, CallGoes
<1>4. life' \in [Ids -> {"new", "used", "spoilt"}]
  BY DEF BeginTurn, CallTypes
<1> QED
  BY <1>3, <1>4

\* A block is recorded or dropped, and the id of one that is dropped marked.
LEMMA BlockTyped ==
  ASSUME CallTypes, NEW c \in Calls, NEW s \in Seq(Events),
         out' \in {Normalized(c, s), <<>>}, Accounts(c)
  PROVE  out' \in Seq(Events) /\ life' \in [Ids -> {"new", "used", "spoilt"}]
<1>1. <<>> \in Seq(Events)
  OBVIOUS
<1>2. out' = s \/ out' = <<>>
  BY DEF Normalized
<1>3. life' \in [Ids -> {"new", "used", "spoilt"}]
  BY DEF Accounts, CallTypes
<1> QED
  BY <1>1, <1>2, <1>3, Zenon

LEMMA CallStepTyped ==
  ASSUME CallTypes, NEW c \in Calls,
         \/ Begin(c) \/ Try(c) \/ NotFree(c) \/ GiveUp(c)
         \/ FailOver(c) \/ FailFatally(c) \/ Answer(c)
         \/ OpenStream(c) \/ EndStream(c) \/ LeaveStream(c)
  PROVE  CallTypes'
<1>1. /\ call[c] \in CallStates
      /\ call \in [Calls -> CallStates] /\ out \in Seq(Events)
      /\ life \in [Ids -> {"new", "used", "spoilt"}] /\ upsets \in 0..MaxUpsets
      /\ Started(c) => call[c].id \in Ids
      /\ 0 \in Nat /\ 1 \in Nat /\ {} \in SUBSET Counts
  BY DEF CallTypes, StartedInv
<1>2. CASE Begin(c)
  <2>1. PICK id \in Ids : BeginTurn(c, id, 1)
    BY <1>2 DEF Begin
  <2>2. out' = out /\ upsets' = upsets
    BY <1>2 DEF Begin
  <2> QED
    BY <1>1, <2>1, <2>2, TurnTyped DEF CallTypes
<1>3. CASE Try(c)
  <2>1. PICK n \in Reachable(c) :
          call' = [call EXCEPT ![c].step = "trying", ![c].next = n, ![c].tried = @ + 1]
    BY <1>3 DEF Try
  <2>2. /\ out' = out /\ upsets' = upsets /\ life' = life
        /\ call[c].step = "routing"
    BY <1>3 DEF Try, Routing
  <2> DEFINE now == [call[c] EXCEPT !.step = "trying", !.next = n, !.tried = @ + 1]
  <2>3. n \in Nat
    BY <1>1, <2>1 DEF Reachable, CallStates
  <2>4. now \in CallStates /\ now.id \in Ids
    <3>1. call[c].tried + 1 \in Nat /\ call[c].id \in Ids
      BY <1>1, <2>2 DEF CallStates, Started
    <3>2. now \in CallStates
      BY <1>1, <2>3, <3>1 DEF CallStates
    <3>3. now.id = call[c].id
      BY <1>1 DEF CallStates
    <3> QED
      BY <3>1, <3>2, <3>3
  <2>5. call' = [call EXCEPT ![c] = now]
    BY <1>1, <2>1
  <2> HIDE DEF now
  <2>6. call' \in [Calls -> CallStates] /\ StartedInv'
    BY <2>4, <2>5, CallGoes
  <2> QED
    BY <1>1, <2>2, <2>6 DEF CallTypes
<1>4. CASE NotFree(c)
  <2> DEFINE mode == IF call[c].tried > 0 THEN "failover" ELSE BaseMode(c)
  <2>1. /\ out' = Normalized(c, <<Event(c, "request.failed", 0, mode, {})>>) /\ Ends(c)
        /\ upsets' = upsets /\ Accounts(c) /\ Started(c)
    BY <1>4 DEF NotFree, Routing, Started
  <2>2. mode \in Modes /\ "request.failed" \in Kinds
    BY ModeTyped DEF Modes, Kinds
  <2> HIDE DEF mode
  <2>3. Event(c, "request.failed", 0, mode, {}) \in Events
    BY <1>1, <2>1, <2>2, EventTyped
  <2>4. /\ out' \in Seq(Events) /\ life' \in [Ids -> {"new", "used", "spoilt"}]
    <3>1. <<Event(c, "request.failed", 0, mode, {})>> \in Seq(Events)
      BY <2>3
    <3> QED
      BY <2>1, <3>1, BlockTyped
  <2> QED
    BY <1>1, <2>1, <2>4, EndsTyped DEF CallTypes
<1>5. CASE GiveUp(c)
  <2>1. /\ out' = Normalized(c, <<Event(c, "request.failed", 0, Mode(c), {})>>) /\ Ends(c)
        /\ upsets' = upsets /\ Accounts(c) /\ Started(c)
    BY <1>5 DEF GiveUp, Routing, Started
  <2>2. Event(c, "request.failed", 0, Mode(c), {}) \in Events
    BY <1>1, <2>1, EventTyped, ModeTyped DEF Kinds
  <2>3. /\ out' \in Seq(Events) /\ life' \in [Ids -> {"new", "used", "spoilt"}]
    <3>1. <<Event(c, "request.failed", 0, Mode(c), {})>> \in Seq(Events)
      BY <2>2
    <3> QED
      BY <2>1, <3>1, BlockTyped
  <2> QED
    BY <1>1, <2>1, <2>3, EndsTyped DEF CallTypes
<1>6. CASE FailOver(c)
  <2>1. /\ out' \in {Normalized(c, <<Of(c, "provider.failed")>>), <<>>}
        /\ call' = [call EXCEPT ![c].step = "routing", ![c].next = @ + 1]
        /\ upsets' = upsets /\ Accounts(c) /\ call[c].step = "trying"
    BY <1>6 DEF FailOver, Trying, Emits
  <2> DEFINE now == [call[c] EXCEPT !.step = "routing", !.next = @ + 1]
  <2>2. now \in CallStates /\ now.id \in Ids
    <3>1. call[c].next + 1 \in Nat /\ call[c].id \in Ids
      BY <1>1, <2>1 DEF CallStates, Started
    <3>2. now \in CallStates
      BY <1>1, <3>1 DEF CallStates
    <3>3. now.id = call[c].id
      BY <1>1 DEF CallStates
    <3> QED
      BY <3>1, <3>2, <3>3
  <2>3. call' = [call EXCEPT ![c] = now]
    BY <1>1, <2>1
  <2> HIDE DEF now
  <2>4. call' \in [Calls -> CallStates] /\ StartedInv'
    BY <2>2, <2>3, CallGoes
  <2>5. Of(c, "provider.failed") \in Events
    BY <2>1, OfTyped DEF Kinds, Started
  <2>6. /\ out' \in Seq(Events) /\ life' \in [Ids -> {"new", "used", "spoilt"}]
    <3>1. <<Of(c, "provider.failed")>> \in Seq(Events)
      BY <2>5
    <3> QED
      BY <1>1, <2>1, <3>1, BlockTyped DEF Started
  <2> QED
    BY <1>1, <2>1, <2>4, <2>6 DEF CallTypes
<1>7. CASE FailFatally(c)
  <2>1. /\ out' \in {Normalized(c, <<Of(c, "provider.failed"), Of(c, "request.failed")>>),
                    <<>>}
        /\ Ends(c) /\ upsets' = upsets /\ Accounts(c) /\ Started(c)
    BY <1>7 DEF FailFatally, Trying, Emits, Started
  <2>2. Of(c, "provider.failed") \in Events /\ Of(c, "request.failed") \in Events
    BY <2>1, OfTyped DEF Kinds
  <2>3. /\ out' \in Seq(Events) /\ life' \in [Ids -> {"new", "used", "spoilt"}]
    <3>1. <<Of(c, "provider.failed"), Of(c, "request.failed")>> \in Seq(Events)
      BY <2>2
    <3> QED
      BY <2>1, <3>1, BlockTyped
  <2> QED
    BY <1>1, <2>1, <2>3, EndsTyped DEF CallTypes
<1>8. CASE Answer(c)
  <2>1. PICK reports \in Reports :
          out' \in {Normalized(c, Opened(c) \o <<Completed(c, reports)>>), <<>>}
    BY <1>8 DEF Answer, Emits
  <2>2. /\ upsets' = upsets /\ Started(c)
        /\ \/ Ends(c) /\ Accounts(c)
           \/ BeginTurn(c, call[c].id, call[c].turn + 1)
    BY <1>8 DEF Answer, Trying, Started
  <2>3. out' \in Seq(Events)
    <3>1. Opened(c) \o <<Completed(c, reports)>> \in Seq(Events)
      BY <2>1, <2>2, OpenedTyped, CompletedTyped
    <3>2. <<>> \in Seq(Events)
      OBVIOUS
    <3>3. out' = Opened(c) \o <<Completed(c, reports)>> \/ out' = <<>>
      BY <2>1 DEF Normalized
    <3> QED
      BY <3>1, <3>2, <3>3, Zenon
  <2>4. call[c].id \in Ids /\ call[c].turn + 1 \in Nat
    BY <1>1, <2>2 DEF CallStates
  <2>5. CASE Ends(c) /\ Accounts(c)
    <3>1. life' \in [Ids -> {"new", "used", "spoilt"}]
      BY <1>1, <2>5 DEF Accounts
    <3> QED
      BY <1>1, <2>2, <2>3, <2>5, <3>1, EndsTyped DEF CallTypes
  <2>6. CASE BeginTurn(c, call[c].id, call[c].turn + 1)
    BY <1>1, <2>2, <2>3, <2>4, <2>6, TurnTyped DEF CallTypes
  <2> QED
    BY <2>2, <2>5, <2>6
<1>9. CASE OpenStream(c)
  <2>1. /\ out' \in {Normalized(c, Opened(c)), <<>>}
        /\ call' = [call EXCEPT ![c].step = "streaming"]
        /\ upsets' = upsets /\ Accounts(c) /\ call[c].step = "trying"
    BY <1>9 DEF OpenStream, Trying, Emits, Goes
  <2> DEFINE now == [call[c] EXCEPT !.step = "streaming"]
  <2>2. now \in CallStates /\ now.id \in Ids
    BY <1>1, <2>1 DEF CallStates, Started
  <2>3. call' = [call EXCEPT ![c] = now]
    BY <1>1, <2>1
  <2> HIDE DEF now
  <2>4. call' \in [Calls -> CallStates] /\ StartedInv'
    BY <2>2, <2>3, CallGoes
  <2>5. Opened(c) \in Seq(Events)
    BY <2>1, OpenedTyped DEF Started
  <2>6. /\ out' \in Seq(Events) /\ life' \in [Ids -> {"new", "used", "spoilt"}]
    BY <2>1, <2>5, BlockTyped
  <2> QED
    BY <1>1, <2>1, <2>4, <2>6 DEF CallTypes
<1>10. CASE EndStream(c)
  <2>1. /\ \/ \E reports \in Reports :
                out' \in {Normalized(c, <<Completed(c, reports)>>), <<>>}
           \/ out' \in {Normalized(c, <<Of(c, "request.failed")>>), <<>>}
        /\ Ends(c) /\ upsets' = upsets /\ Accounts(c) /\ Started(c)
    BY <1>10 DEF EndStream, Emits, Started
  <2>2. \A reports \in Reports : Completed(c, reports) \in Events
    BY <2>1, CompletedTyped
  <2>3. Of(c, "request.failed") \in Events
    BY <2>1, OfTyped DEF Kinds
  <2>4. out' \in Seq(Events) /\ life' \in [Ids -> {"new", "used", "spoilt"}]
    <3>1. \A reports \in Reports : <<Completed(c, reports)>> \in Seq(Events)
      BY <2>2
    <3>2. <<Of(c, "request.failed")>> \in Seq(Events)
      BY <2>3
    <3> QED
      BY <2>1, <3>1, <3>2, BlockTyped
  <2> QED
    BY <1>1, <2>1, <2>4, EndsTyped DEF CallTypes
<1>11. CASE LeaveStream(c)
  <2>1. /\ out' = out /\ upsets' = upsets /\ Started(c) /\ Ends(c)
        /\ Spoil({call[c].id})
    BY <1>11 DEF LeaveStream, Started
  <2>2. life' \in [Ids -> {"new", "used", "spoilt"}]
    BY <1>1, <2>1 DEF Spoil
  <2> QED
    BY <1>1, <2>1, <2>2, EndsTyped DEF CallTypes
<1> QED
  BY <1>2, <1>3, <1>4, <1>5, <1>6, <1>7, <1>8, <1>9, <1>10, <1>11

LEMMA OtherStepTyped ==
  ASSUME CallTypes, EmitNext \/ Purge \/ Crash
  PROVE  CallTypes'
<1>1. /\ call \in [Calls -> CallStates] /\ out \in Seq(Events)
      /\ life \in [Ids -> {"new", "used", "spoilt"}]
      /\ upsets \in 0..MaxUpsets /\ MaxUpsets \in Nat
  BY Constants DEF CallTypes
<1>2. \A ids : [i \in Ids |-> IF i \in ids THEN "spoilt" ELSE life[i]]
                 \in [Ids -> {"new", "used", "spoilt"}]
  BY <1>1
<1>3. CASE EmitNext
  <2>1. /\ out' = Tail(out) /\ out # <<>> /\ call' = call
        /\ \/ upsets' = upsets
           \/ upsets < MaxUpsets /\ upsets' = upsets + 1
        /\ life' = life \/ Spoil({Head(out).id})
    BY <1>3 DEF EmitNext
  <2>2. out' \in Seq(Events)
    BY <1>1, <2>1
  <2>3. upsets' \in 0..MaxUpsets
    BY <1>1, <2>1
  <2>4. life' \in [Ids -> {"new", "used", "spoilt"}]
    BY <1>1, <1>2, <2>1 DEF Spoil
  <2> QED
    BY <2>1, <2>2, <2>3, <2>4 DEF CallTypes, StartedInv, Started
<1>4. CASE Purge
  <2>1. /\ out' = out /\ call' = call /\ upsets < MaxUpsets /\ upsets' = upsets + 1
        /\ Spoil({i \in Ids : life[i] # "new"})
    BY <1>4 DEF Purge
  <2>2. upsets' \in 0..MaxUpsets
    BY <1>1, <2>1
  <2>3. life' \in [Ids -> {"new", "used", "spoilt"}]
    BY <1>2, <2>1 DEF Spoil
  <2> QED
    BY <2>1, <2>2, <2>3 DEF CallTypes, StartedInv, Started
<1>5. CASE Crash
  <2> DEFINE cut == {c \in Calls : call[c].step \in {"routing", "trying", "streaming"}}
  <2>1. /\ out' = <<>> /\ upsets < MaxUpsets /\ upsets' = upsets + 1
        /\ call' = [c \in Calls |-> IF c \in cut THEN Over(c) ELSE call[c]]
        /\ Spoil({call[c].id : c \in cut} \union {out[i].id : i \in DOMAIN out})
    BY <1>5 DEF Crash
  <2>2. upsets' \in 0..MaxUpsets /\ out' \in Seq(Events)
    BY <1>1, <2>1
  <2>3. life' \in [Ids -> {"new", "used", "spoilt"}]
    BY <1>2, <2>1 DEF Spoil
  <2>4. \A c \in cut : Started(c)
    BY DEF Started
  <2>5. \A c \in cut : Over(c) \in CallStates /\ Over(c).id \in Ids
    BY <2>4, OverTyped
  <2> HIDE DEF cut
  <2>6. call' \in [Calls -> CallStates]
    BY <1>1, <2>1, <2>5
  <2>7. StartedInv'
    BY <2>1, <2>5 DEF CallTypes, StartedInv, Started
  <2> QED
    BY <2>2, <2>3, <2>6, <2>7 DEF CallTypes
<1> QED
  BY <1>3, <1>4, <1>5

-----------------------------------------------------------------------------
(* The theorems about the tables                                           *)

SoundInv == TypeInv /\ TablesSound

LEMMA SoundInit == Init => SoundInv
<1> SUFFICES ASSUME Init PROVE SoundInv
  OBVIOUS
<1>1. CallTypes
  BY Constants DEF Init, CallTypes, StartedInv, Started, NoCall, CallStates
<1>2. TableTypes
  BY DEF Init, TableTypes
<1>3. RowInv
  BY FS_EmptySet DEF Init, RowInv
<1>4. AttemptsKept /\ RequestsKept
  BY FS_EmptySet, Constants DEF Init, AttemptsKept, RequestsKept
<1> QED
  BY <1>1, <1>2, <1>3, <1>4, TypeInParts DEF SoundInv, TablesSound

LEMMA SoundStep == SoundInv /\ [Next]_vars => SoundInv'
<1> SUFFICES ASSUME SoundInv, [Next]_vars PROVE CallTypes' /\ TablesSound'
  BY DEF SoundInv, TypeInv, TypeOK, CallTypes, TablesSound, TableTypes
<1>1. /\ TypeInv /\ TablesSound /\ CallTypes
      /\ upsets \in Nat
  BY TypeInParts, Constants DEF SoundInv, CallTypes
<1>2. ASSUME NEW c \in Calls,
             \/ Begin(c) \/ Try(c) \/ NotFree(c) \/ GiveUp(c)
             \/ FailOver(c) \/ FailFatally(c) \/ Answer(c)
             \/ OpenStream(c) \/ EndStream(c) \/ LeaveStream(c)
      PROVE  CallTypes' /\ TablesSound'
  <2>1. UNCHANGED tables /\ upsets' = upsets
    BY <1>2 DEF Begin, Try, NotFree, GiveUp, FailOver, FailFatally, Answer, OpenStream,
                EndStream, LeaveStream, Routing, Trying
  <2>2. TablesSound'
    BY <1>1, <2>1, TablesUntouched
  <2> QED
    BY <1>1, <1>2, <2>2, CallStepTyped
<1>3. CASE EmitNext
  BY <1>1, <1>3, OtherStepTyped, EmitKeepsTables
<1>4. CASE Purge
  BY <1>1, <1>4, OtherStepTyped, PurgeKeepsTables
<1>5. CASE Crash
  <2>1. UNCHANGED tables /\ upsets' = upsets + 1
    BY <1>5 DEF Crash
  <2> QED
    BY <1>1, <1>5, <2>1, OtherStepTyped, TablesUntouched
<1>6. CASE UNCHANGED vars
  <2>1. /\ UNCHANGED tables /\ call' = call /\ out' = out /\ life' = life
        /\ upsets' = upsets
    BY <1>6 DEF vars, tables
  <2>2. CallTypes'
    BY <1>1, <2>1 DEF CallTypes, StartedInv, Started
  <2> QED
    BY <1>1, <2>1, <2>2, TablesUntouched
<1> QED
  BY <1>2, <1>3, <1>4, <1>5, <1>6 DEF Next

\* The tables, the block in hand and the calls hold what they are made to hold.
THEOREM TypeCorrect == Spec => []TypeOK
<1>1. SoundInv => TypeOK
  BY DEF SoundInv, TypeInv
<1> QED
  BY <1>1, SoundInit, SoundStep, PTL DEF Spec

\* Retention forgets nothing but what is older than all it keeps (prune of the
\* telemetry repository, at every record): for any retention and any number of
\* records, with the clock set back, writes lost, prunes failed and tables purged.
THEOREM NewestIsKept == Spec => []NewestKept
<1>1. SoundInv => NewestKept
  BY KeptInParts DEF SoundInv, TablesSound
<1> QED
  BY <1>1, SoundInit, SoundStep, PTL DEF Spec

-----------------------------------------------------------------------------
(* The inductive invariant of the agreement                                *)

Attempting(e) == e.kind \in {"provider.attempted", "provider.failed"}
Closing(e) == e.kind \in {"request.completed", "request.failed"}

\* What the router emits at once: events of one id, at most one of them an attempt,
\* and nothing after the end of the request.
Block(s) ==
  /\ \A k, l \in DOMAIN s : s[k].id = s[l].id
  /\ \A k, l \in DOMAIN s : Attempting(s[k]) /\ Attempting(s[l]) => k = l
  /\ \A k \in DOMAIN s : Closing(s[k]) => k = Len(s)

EventsOf(s) == {s[k] : k \in DOMAIN s}
Waiting == EventsOf(out)

Used(i) == life[i] = "used"
Active(c) == call[c].step \in {"routing", "trying", "streaming"}

\* An id that no turn has used has left nothing; one that a single turn has used
\* has one call.
IdInv ==
  /\ \A i \in Ids : life[i] = "new" =>
       /\ \A a \in attempts : a.id # i
       /\ \A e \in Waiting : e.id # i
       /\ \A c \in Calls : Started(c) => call[c].id # i
       /\ \A f \in ended : f.id # i
  /\ \A c, d \in Calls :
       Started(c) /\ Started(d) /\ call[c].id = call[d].id /\ Used(call[c].id) => c = d

\* Until a call is over, and until its last event is recorded, its id has not ended;
\* afterwards it has, or is about to.
EndInv ==
  /\ \A c \in Calls : Active(c) /\ Used(call[c].id) => \A f \in ended : f.id # call[c].id
  /\ \A e \in Waiting : Used(e.id) => \A f \in ended : f.id # e.id
  /\ \A e \in Waiting, c \in Calls :
       Closing(e) /\ Used(e.id) /\ Started(c) /\ call[c].id = e.id => call[c].step = "over"
  /\ \A c \in Calls : call[c].step = "over" /\ Used(call[c].id) =>
       \/ \E e \in Waiting : Closing(e) /\ e.id = call[c].id
       \/ \E f \in ended : f.id = call[c].id

\* Retention remembers one attempt of those it deleted.
GoneInv == \A a, b \in gone : a = b

LifeInv == Block(out) /\ IdInv /\ EndInv /\ GoneInv

\* The attempts of an id: those recorded, and the one the block in hand still holds.
Recorded(i) == {a \in attempts : a.id = i}
Pending(i) == {e \in Waiting : Attempting(e) /\ e.id = i}
Made(i) == Cardinality(Recorded(i)) + (IF Pending(i) = {} THEN 0 ELSE 1)

\* The good ones among them, and the providers they name.
Good(i) == {a \in Recorded(i) : a.outcome = "ok"}
GoodPending(i) == {e \in Pending(i) : e.kind = "provider.attempted"}
GoodFrom(i) == {a.provider : a \in Good(i)} \union {e.provider : e \in GoodPending(i)}
AtMostOneGood(i) ==
  /\ \A a, b \in Good(i) : a = b
  /\ Good(i) = {} \/ GoodPending(i) = {}

\* What the last event of a request, or its row, says is what its attempts say.
Agrees(i, count, provider, mode, ok) ==
  /\ Made(i) = count
  /\ GoodFrom(i) \subseteq {provider} /\ AtMostOneGood(i)
  /\ ok => GoodFrom(i) # {}
  /\ count > 1 => mode = "failover"

Stands(c, i) ==
  /\ call[c].step = "routing" => Made(i) = call[c].tried /\ GoodFrom(i) = {}
  /\ call[c].step = "trying" => Made(i) = call[c].tried - 1 /\ GoodFrom(i) = {}
  /\ call[c].step = "streaming" =>
       Made(i) = call[c].tried /\ GoodFrom(i) = {call[c].next} /\ AtMostOneGood(i)

LedgerInv ==
  gone = {} => \A i \in Ids : Used(i) =>
    /\ \A c \in Calls : Started(c) /\ call[c].id = i => Stands(c, i)
    /\ \A e \in Waiting : Closing(e) /\ e.id = i =>
         Agrees(i, e.attempts, e.provider, e.mode, e.kind = "request.completed")
    /\ \A r \in requests : r.id = i =>
         Agrees(i, r.attempts, r.provider, r.mode, r.outcome = "ok")

-----------------------------------------------------------------------------
(* Blocks                                                                  *)

LEMMA BlockTail ==
  ASSUME NEW s \in Seq(Events), s # <<>>, Block(s)
  PROVE  /\ Block(Tail(s))
         /\ Head(s) \in EventsOf(s)
         /\ EventsOf(s) = {Head(s)} \union EventsOf(Tail(s))
         /\ \A e \in EventsOf(s) : e.id = Head(s).id
         /\ Attempting(Head(s)) => \A e \in EventsOf(Tail(s)) : ~Attempting(e)
         /\ Closing(Head(s)) => EventsOf(Tail(s)) = {}
<1> DEFINE t == Tail(s)
<1>1. /\ Len(s) \in Nat /\ Len(s) > 0 /\ DOMAIN s = 1..Len(s)
      /\ t \in Seq(Events) /\ Len(t) = Len(s) - 1 /\ DOMAIN t = 1..Len(s) - 1
      /\ Head(s) = s[1] /\ \A k \in DOMAIN t : t[k] = s[k + 1]
  OBVIOUS
<1> HIDE DEF t
<1>2. 1 \in DOMAIN s /\ \A k \in DOMAIN t : k + 1 \in DOMAIN s /\ k + 1 # 1
  BY <1>1
<1>3. \A k, l \in DOMAIN t : k + 1 = l + 1 => k = l
  BY <1>1
<1>4. Block(t)
  <2>1. \A k, l \in DOMAIN t : t[k].id = t[l].id
    BY <1>1, <1>2 DEF Block
  <2>2. \A k, l \in DOMAIN t : Attempting(t[k]) /\ Attempting(t[l]) => k = l
    BY <1>1, <1>2, <1>3 DEF Block
  <2>3. \A k \in DOMAIN t : Closing(t[k]) => k = Len(t)
    <3> TAKE k \in DOMAIN t
    <3> HAVE Closing(t[k])
    <3>1. k + 1 = Len(s)
      BY <1>1, <1>2 DEF Block
    <3> QED
      BY <1>1, <3>1
  <2> QED
    BY <2>1, <2>2, <2>3 DEF Block
<1>5. EventsOf(s) = {Head(s)} \union EventsOf(t)
  <2>1. ASSUME NEW k \in DOMAIN s, k # 1 PROVE k - 1 \in DOMAIN t /\ s[k] = t[k - 1]
    BY <1>1, <2>1
  <2> QED
    BY <1>1, <1>2, <2>1 DEF EventsOf
<1>6. \A e \in EventsOf(s) : e.id = Head(s).id
  BY <1>1, <1>2 DEF Block, EventsOf
<1>7. Attempting(Head(s)) => \A e \in EventsOf(t) : ~Attempting(e)
  BY <1>1, <1>2 DEF Block, EventsOf
<1>8. Closing(Head(s)) => EventsOf(t) = {}
  <2> HAVE Closing(Head(s))
  <2>1. Len(s) = 1
    BY <1>1, <1>2 DEF Block
  <2> QED
    BY <1>1, <2>1 DEF EventsOf
<1>9. Head(s) \in EventsOf(s)
  BY <1>1, <1>2 DEF EventsOf
<1> QED
  BY <1>4, <1>5, <1>6, <1>7, <1>8, <1>9 DEF t

LEMMA NoBlock == Block(<<>>) /\ EventsOf(<<>>) = {}
BY DEF Block, EventsOf

\* The blocks of the router.
LEMMA BlockOfOne ==
  ASSUME NEW a \in Events
  PROVE  Block(<<a>>) /\ EventsOf(<<a>>) = {a}
<1>1. DOMAIN <<a>> = {1} /\ <<a>>[1] = a /\ Len(<<a>>) = 1
  OBVIOUS
<1> QED
  BY <1>1 DEF Block, EventsOf

LEMMA BlockOfTwo ==
  ASSUME NEW a \in Events, NEW b \in Events, a.id = b.id,
         ~(Attempting(a) /\ Attempting(b)), ~Closing(a)
  PROVE  Block(<<a, b>>) /\ EventsOf(<<a, b>>) = {a, b}
<1>1. DOMAIN <<a, b>> = {1, 2} /\ <<a, b>>[1] = a /\ <<a, b>>[2] = b /\ Len(<<a, b>>) = 2
  OBVIOUS
<1> QED
  BY <1>1 DEF Block, EventsOf

LEMMA BlockOfThree ==
  ASSUME NEW a \in Events, NEW b \in Events, NEW d \in Events, a.id = b.id, b.id = d.id,
         ~Attempting(a), ~Attempting(d), ~Closing(a), ~Closing(b)
  PROVE  Block(<<a, b, d>>) /\ EventsOf(<<a, b, d>>) = {a, b, d}
<1>1. /\ DOMAIN <<a, b, d>> = {1, 2, 3} /\ Len(<<a, b, d>>) = 3
      /\ <<a, b, d>>[1] = a /\ <<a, b, d>>[2] = b /\ <<a, b, d>>[3] = d
  OBVIOUS
<1> QED
  BY <1>1 DEF Block, EventsOf

-----------------------------------------------------------------------------
(* The attempts of an id from one state to the next                        *)

SameLedger(i) ==
  /\ Made(i)' = Made(i)
  /\ GoodFrom(i)' = GoodFrom(i)
  /\ AtMostOneGood(i) => AtMostOneGood(i)'

LEMMA LedgerUntouched ==
  ASSUME NEW i, Recorded(i)' = Recorded(i), Pending(i)' = Pending(i)
  PROVE  SameLedger(i)
<1>1. Good(i)' = Good(i) /\ GoodPending(i)' = GoodPending(i)
  BY DEF Good, GoodPending
<1>2. GoodFrom(i)' = GoodFrom(i)
  BY <1>1, Zenon DEF GoodFrom
<1>3. Made(i)' = Made(i)
  BY Zenon DEF Made
<1> QED
  BY <1>1, <1>2, <1>3 DEF SameLedger, AtMostOneGood

\* The attempt that waits is recorded.
LEMMA LedgerMoves ==
  ASSUME NEW i, IsFiniteSet(Recorded(i)), NEW e, Attempting(e), NEW row,
         Pending(i) = {e}, Pending(i)' = {},
         row \notin Recorded(i), Recorded(i)' = Recorded(i) \union {row},
         row.provider = e.provider,
         row.outcome = IF e.kind = "provider.failed" THEN "failed" ELSE "ok"
  PROVE  SameLedger(i)
<1>1. Made(i)' = Made(i)
  <2>1. Cardinality(Recorded(i)') = Cardinality(Recorded(i)) + 1
    BY FS_AddElement
  <2>2. Cardinality(Recorded(i)) \in Nat
    BY FS_CardinalityType
  <2> QED
    BY <2>1, <2>2 DEF Made
<1>2. CASE e.kind = "provider.failed"
  <2>1. Good(i)' = Good(i) /\ GoodPending(i)' = {} /\ GoodPending(i) = {}
    BY <1>2 DEF Good, GoodPending
  <2>2. GoodFrom(i)' = GoodFrom(i)
    BY <2>1 DEF GoodFrom
  <2> QED
    BY <1>1, <2>1, <2>2 DEF SameLedger, AtMostOneGood
<1>3. CASE e.kind = "provider.attempted"
  <2>1. Good(i)' = Good(i) \union {row} /\ GoodPending(i)' = {} /\ GoodPending(i) = {e}
    BY <1>3 DEF Good, GoodPending
  <2>2. GoodFrom(i)' = GoodFrom(i)
    BY <2>1 DEF GoodFrom
  <2> QED
    BY <1>1, <2>1, <2>2 DEF SameLedger, AtMostOneGood
<1> QED
  BY <1>2, <1>3 DEF Attempting

\* An attempt joins the block.
LEMMA LedgerGrows ==
  ASSUME NEW i, IsFiniteSet(Recorded(i)), NEW e, Attempting(e),
         Pending(i) = {}, Pending(i)' = {e}, Recorded(i)' = Recorded(i), GoodFrom(i) = {}
  PROVE  /\ Made(i)' = Made(i) + 1
         /\ e.kind = "provider.failed" => GoodFrom(i)' = {}
         /\ e.kind = "provider.attempted" => GoodFrom(i)' = {e.provider}
         /\ AtMostOneGood(i)'
<1>1. Made(i)' = Made(i) + 1
  BY FS_CardinalityType DEF Made
<1>2. Good(i) = {} /\ Good(i)' = {}
  BY DEF GoodFrom, Good
<1>3. GoodPending(i)' = IF e.kind = "provider.attempted" THEN {e} ELSE {}
  BY DEF GoodPending
<1> QED
  BY <1>1, <1>2, <1>3 DEF GoodFrom, AtMostOneGood, Attempting

LEMMA NoneGood ==
  ASSUME NEW i, GoodFrom(i) = {}
  PROVE  AtMostOneGood(i)
BY DEF GoodFrom, AtMostOneGood

-----------------------------------------------------------------------------
(* The block is recorded                                                   *)

\* When retention has deleted nothing yet, it deleted nothing in this record.
LEMMA NothingGone ==
  ASSUME TableTypes, RowInv, GoneInv, NEW e \in Events, NEW now \in Times,
         NEW pruned \in BOOLEAN, RecordAttempt(e, now, pruned)
  PROVE  /\ GoneInv'
         /\ gone' = {} => gone = {} /\ attempts' = attempts \union {AttemptRow(e, now)}
<1> DEFINE row == AttemptRow(e, now)
           rows == attempts \union {row}
           dead == gone \union (rows \ attempts')
<1>1. gone' = {a \in dead : \A b \in dead \ {a} : Later(a, b)}
  BY DEF RecordAttempt, AttemptRow
<1>2. row \in AttemptRows /\ row.serial = serial + 1 /\ Keyed(rows)
  BY AttemptIsNew DEF AttemptRow
<1>3. attempts' \subseteq rows
  BY AttemptRecorded
<1> HIDE DEF row
<1>4. \A a \in gone \union rows : a \in AttemptRows /\ Key(a) = a.serial /\ Dated(a)
  BY <1>2, RowKeys DEF TableTypes
<1>5. IsFiniteSet(gone)
  <2>1. CASE gone = {}
    BY <2>1, FS_EmptySet
  <2>2. ASSUME NEW a \in gone PROVE IsFiniteSet(gone)
    <3>1. gone = {a}
      BY <2>2 DEF GoneInv
    <3> QED
      BY <3>1, FS_Singleton
  <2> QED
    BY <2>1, <2>2
<1>6. Keyed(dead)
  <2>1. IsFiniteSet(dead)
    <3>1. IsFiniteSet(rows \ attempts')
      BY <1>2, FS_Subset DEF Keyed
    <3> QED
      BY <1>5, <3>1, FS_Union
  <2>2. \A a, b \in rows : Key(a) = Key(b) => a = b
    BY <1>2 DEF Keyed
  <2>3. \A a \in rows, b \in gone : Key(a) # Key(b)
    <3>1. \A b \in gone : b.serial \in Nat /\ b.serial <= serial /\ serial \in Nat
      BY DEF TableTypes, RowInv, AttemptRows
    <3> QED
      BY <1>2, <1>4, <3>1 DEF RowInv
  <2> QED
    BY <1>4, <2>1, <2>2, <2>3 DEF Keyed, GoneInv
<1>7. GoneInv'
  <2> SUFFICES ASSUME NEW a \in gone', NEW b \in gone', a # b PROVE FALSE
    BY DEF GoneInv
  <2>1. a \in dead /\ b \in dead /\ Later(a, b) /\ Later(b, a)
    BY <1>1
  <2> HIDE DEF dead
  <2> QED
    BY <1>6, <2>1, LaterOrder DEF Keyed
<1>8. ASSUME dead # {} PROVE gone' # {}
  <2> HIDE DEF dead
  <2>1. PICK m \in dead : \A s \in dead : ~Later(s, m)
    BY <1>6, <1>8, NewestRow
  <2>2. \A b \in dead \ {m} : Later(m, b)
    BY <1>6, <2>1, LaterOrder DEF Keyed
  <2> QED
    BY <1>1, <2>1, <2>2
<1> QED
  BY <1>3, <1>7, <1>8 DEF row

\* What the record of an event leaves: who it is about, and how the ledger stands.
LEMMA EmitLedger ==
  ASSUME SoundInv, LifeInv, EmitNext
  PROVE  /\ GoneInv'
         /\ gone' = {} => gone = {} /\ \A i \in Ids : Used(i)' => SameLedger(i)
<1> DEFINE e == Head(out)
<1>1. /\ e \in Events /\ out' = Tail(out)
      /\ TableTypes /\ RowInv /\ GoneInv
  BY DEF EmitNext, SoundInv, TypeInv, TypeOK, TablesSound, LifeInv
<1>2. /\ Waiting = {e} \union Waiting' /\ \A d \in Waiting : d.id = e.id
      /\ Attempting(e) => \A d \in Waiting' : ~Attempting(d)
      /\ Closing(e) => Waiting' = {}
  BY BlockTail DEF EmitNext, SoundInv, TypeInv, TypeOK, LifeInv, Waiting
<1> HIDE DEF e
\* An event that leaves the attempts alone, and is not one.
<1>3. ASSUME attempts' = attempts, ~Attempting(e), NEW i
      PROVE  SameLedger(i)
  <2>1. Recorded(i)' = Recorded(i) /\ Pending(i)' = Pending(i)
    BY <1>2, <1>3 DEF Recorded, Pending
  <2> QED
    BY <2>1, LedgerUntouched
<1>4. ASSUME attempts' = attempts, gone' = gone, NEW i, i # e.id
      PROVE  SameLedger(i)
  <2>1. Recorded(i)' = Recorded(i) /\ Pending(i)' = Pending(i)
    BY <1>2, <1>4 DEF Recorded, Pending
  <2> QED
    BY <2>1, LedgerUntouched
<1>5. ASSUME NEW now \in Times, NEW pruned \in BOOLEAN, RecordAttempt(e, now, pruned),
             Attempting(e)
      PROVE  /\ GoneInv'
             /\ gone' = {} => gone = {} /\ \A i \in Ids : SameLedger(i)
  <2> DEFINE row == AttemptRow(e, now)
  <2>1. /\ GoneInv'
        /\ gone' = {} => gone = {} /\ attempts' = attempts \union {row}
    BY <1>1, <1>5, NothingGone
  <2>2. /\ row \notin attempts /\ row.provider = e.provider /\ row.id = e.id
        /\ row.outcome = IF e.kind = "provider.failed" THEN "failed" ELSE "ok"
    BY <1>1, AttemptIsNew DEF AttemptRow
  <2> HIDE DEF row
  <2>3. ASSUME gone' = {}, NEW i \in Ids PROVE SameLedger(i)
    <3>1. CASE i # e.id
      <4>1. Recorded(i)' = Recorded(i) /\ Pending(i)' = Pending(i)
        BY <1>2, <2>1, <2>2, <2>3, <3>1 DEF Recorded, Pending
      <4> QED
        BY <4>1, LedgerUntouched
    <3>2. CASE i = e.id
      <4>1. Pending(i) = {e} /\ Pending(i)' = {}
        BY <1>2, <1>5, <3>2 DEF Pending
      <4>2. row \notin Recorded(i) /\ Recorded(i)' = Recorded(i) \union {row}
        BY <2>1, <2>2, <2>3, <3>2 DEF Recorded
      <4>3. IsFiniteSet(Recorded(i))
        BY <1>1, FS_Subset DEF RowInv, Recorded
      <4> QED
        BY <1>5, <2>2, <4>1, <4>2, <4>3, LedgerMoves
    <3> QED
      BY <3>1, <3>2
  <2> QED
    BY <2>1, <2>3
<1>6. ASSUME NEW now \in Times, NEW pruned \in BOOLEAN, Record(e, now, pruned)
      PROVE  /\ GoneInv'
             /\ gone' = {} => gone = {} /\ \A i \in Ids : SameLedger(i)
  <2>1. CASE Attempting(e)
    <3>1. RecordAttempt(e, now, pruned)
      BY <1>6, <2>1 DEF Record, Attempting
    <3> QED
      BY <1>5, <2>1, <3>1
  <2>2. CASE ~Attempting(e)
    <3>1. attempts' = attempts /\ gone' = gone
      BY <1>1, <1>6, <2>2 DEF Record, RecordRequest, tables, Attempting, Events, Kinds
    <3> QED
      BY <1>1, <1>3, <2>2, <3>1 DEF GoneInv
  <2> QED
    BY <2>1, <2>2
<1>7. ASSUME UNCHANGED tables, Spoil({e.id})
      PROVE  /\ GoneInv'
             /\ gone' = {} => gone = {} /\ \A i \in Ids : Used(i)' => SameLedger(i)
  <2>1. attempts' = attempts /\ gone' = gone
    BY <1>7 DEF tables
  <2>2. \A i \in Ids : Used(i)' => i # e.id
    BY <1>7 DEF Spoil, Used
  <2> QED
    BY <1>1, <1>4, <2>1, <2>2 DEF GoneInv
<1> QED
  BY <1>6, <1>7 DEF EmitNext, e, Times

LEMMA EmitEffects ==
  ASSUME SoundInv, LifeInv, EmitNext, NEW e, e = Head(out)
  PROVE  /\ e \in Waiting /\ e.id \in Ids /\ Waiting = {e} \union Waiting'
         /\ \A d \in Waiting : d.id = e.id
         /\ Closing(e) => Waiting' = {}
         /\ Block(out)' /\ call' = call
         /\ \A i \in Ids : /\ life'[i] = "new" => life[i] = "new"
                           /\ Used(i)' => Used(i)
         /\ \A a \in attempts' : a \in attempts \/ a.id = e.id
         /\ \A f \in ended' : f \in ended \/ (Closing(e) /\ f.id = e.id)
         /\ \A f \in ended : f.id # e.id \/ ~Closing(e) => f \in ended'
         /\ Closing(e) /\ Used(e.id)' => \E f \in ended' : f.id = e.id
         /\ \A r \in requests' :
              r \in requests \/ (Closing(e) /\ \E now : r = RequestRow(e, now))
<1>1. /\ e \in Events /\ e.id \in Ids /\ out' = Tail(out) /\ call' = call
      /\ TableTypes /\ RowInv /\ life \in [Ids -> {"new", "used", "spoilt"}]
  <2>1. e \in Events /\ out' = Tail(out) /\ call' = call
    BY DEF EmitNext, SoundInv, TypeInv, TypeOK
  <2>2. e.id \in Ids
    BY <2>1 DEF Events
  <2>3. TableTypes /\ RowInv /\ life \in [Ids -> {"new", "used", "spoilt"}]
    BY DEF SoundInv, TypeInv, TypeOK, TablesSound
  <2> QED
    BY <2>1, <2>2, <2>3
<1>2. /\ Waiting = {e} \union Waiting' /\ \A d \in Waiting : d.id = e.id
      /\ e \in Waiting /\ Closing(e) => Waiting' = {}
      /\ Block(out)'
  BY BlockTail DEF EmitNext, SoundInv, TypeInv, TypeOK, LifeInv, Waiting
<1>3. ASSUME NEW now \in Times, NEW pruned \in BOOLEAN, Record(e, now, pruned)
      PROVE  /\ \A a \in attempts' : a \in attempts \/ a.id = e.id
             /\ \A f \in ended' : f \in ended \/ (Closing(e) /\ f.id = e.id)
             /\ \A f \in ended : f.id # e.id \/ ~Closing(e) => f \in ended'
             /\ Closing(e) => \E f \in ended' : f.id = e.id
             /\ \A r \in requests' :
                  r \in requests \/ (Closing(e) /\ \E t : r = RequestRow(e, t))
  <2>1. CASE Closing(e)
    <3>1. RecordRequest(e, now, pruned)
      BY <1>3, <2>1 DEF Record, Closing
    <3>2. /\ attempts' = attempts
          /\ ended' = {f \in ended : f.id # e.id} \union {[id |-> e.id, at |-> now]}
      BY <3>1 DEF RecordRequest
    <3>3. requests' \subseteq Upsert(RequestRow(e, now))
      BY <1>1, <3>1, RequestRecorded
    <3>4. \A r \in requests' : r \in requests \/ r = RequestRow(e, now)
      BY <3>3 DEF Upsert
    <3>5. \A r \in requests' : r \in requests \/ (Closing(e) /\ \E t : r = RequestRow(e, t))
      BY <2>1, <3>4
    <3>6. \A f \in ended' : f \in ended \/ (Closing(e) /\ f.id = e.id)
      BY <2>1, <3>2
    <3>7. \A f \in ended : f.id # e.id \/ ~Closing(e) => f \in ended'
      BY <2>1, <3>2
    <3>8. \E f \in ended' : f.id = e.id
      <4>1. [id |-> e.id, at |-> now] \in ended' /\ [id |-> e.id, at |-> now].id = e.id
        BY <3>2
      <4> QED
        BY <4>1
    <3> QED
      BY <3>2, <3>5, <3>6, <3>7, <3>8
  <2>2. CASE ~Closing(e)
    <3>1. UNCHANGED tables \/ RecordAttempt(e, now, pruned)
      BY <1>3, <2>2 DEF Record, Closing
    <3>2. CASE UNCHANGED tables
      BY <2>2, <3>2 DEF tables
    <3>3. CASE RecordAttempt(e, now, pruned)
      <4>1. attempts' \subseteq attempts \union {AttemptRow(e, now)}
        BY <1>1, <3>3, AttemptRecorded
      <4>2. AttemptRow(e, now).id = e.id
        BY DEF AttemptRow
      <4>3. requests' = requests /\ ended' = ended
        BY <3>3 DEF RecordAttempt
      <4> QED
        BY <2>2, <4>1, <4>2, <4>3
    <3> QED
      BY <3>1, <3>2, <3>3
  <2> QED
    BY <2>1, <2>2
<1>4. CASE \E now \in Times, pruned \in BOOLEAN : Record(e, now, pruned) /\ life' = life
  BY <1>1, <1>2, <1>3, <1>4 DEF Used
<1>5. CASE UNCHANGED tables /\ Spoil({e.id})
  <2>1. /\ \A i \in Ids : life'[i] = IF i = e.id THEN "spoilt" ELSE life[i]
        /\ attempts' = attempts /\ requests' = requests /\ ended' = ended
    BY <1>5 DEF Spoil, tables
  <2> QED
    BY <1>1, <1>2, <2>1 DEF Used
<1>6. \/ \E now \in Times, pruned \in BOOLEAN : Record(e, now, pruned) /\ life' = life
      \/ UNCHANGED tables /\ Spoil({e.id})
  BY DEF EmitNext, Times
<1> QED
  BY <1>4, <1>5, <1>6

LEMMA EmitKeepsLife ==
  ASSUME SoundInv, LifeInv, EmitNext
  PROVE  LifeInv'
<1> PICK e : e = Head(out)
  OBVIOUS
<1>1. /\ e \in Waiting /\ e.id \in Ids /\ Waiting = {e} \union Waiting'
      /\ Closing(e) => Waiting' = {}
      /\ Block(out)' /\ call' = call
      /\ \A i \in Ids : /\ life'[i] = "new" => life[i] = "new"
                        /\ Used(i)' => Used(i)
      /\ \A a \in attempts' : a \in attempts \/ a.id = e.id
      /\ \A f \in ended' : f \in ended \/ (Closing(e) /\ f.id = e.id)
      /\ \A f \in ended : f.id # e.id \/ ~Closing(e) => f \in ended'
      /\ Closing(e) /\ Used(e.id)' => \E f \in ended' : f.id = e.id
      /\ GoneInv'
  BY EmitEffects, EmitLedger
<1>2. \A d \in Waiting : d.id \in Ids
  BY EmitEffects
<1>3. \A c \in Calls : Started(c) => call[c].id \in Ids
  BY DEF SoundInv, TypeInv, StartedInv
<1>4. IdInv'
  BY <1>1, <1>2, <1>3 DEF LifeInv, IdInv, Started, Used
<1>5. EndInv'
  <2>1. \A c \in Calls : Active(c) => Started(c) /\ call[c].step # "over"
    BY DEF Active, Started
  <2>2. \A c \in Calls : Active(c)' /\ Used(call[c].id)' =>
          \A f \in ended' : f.id # call'[c].id
    BY <1>1, <1>3, <2>1 DEF LifeInv, EndInv, Active, Used
  <2>3. \A d \in Waiting' : Used(d.id)' => \A f \in ended' : f.id # d.id
    BY <1>1, <1>2 DEF LifeInv, EndInv
  <2>4. \A d \in Waiting', c \in Calls :
          Closing(d) /\ Used(d.id)' /\ Started(c)' /\ call'[c].id = d.id
            => call'[c].step = "over"
    BY <1>1, <1>2 DEF LifeInv, EndInv, Started
  <2>5. ASSUME NEW c \in Calls, call'[c].step = "over", Used(call[c].id)'
        PROVE  \/ \E d \in Waiting' : Closing(d) /\ d.id = call'[c].id
               \/ \E f \in ended' : f.id = call'[c].id
    <3>1. PICK i \in Ids : i = call[c].id /\ i = call'[c].id
      BY <1>1, <1>3, <2>5 DEF Started
    <3>2. Used(i)' /\ Used(i) /\ call[c].step = "over"
      BY <1>1, <2>5, <3>1 DEF Used
    <3>3. \/ \E d \in Waiting : Closing(d) /\ d.id = i
          \/ \E f \in ended : f.id = i
      BY <3>1, <3>2 DEF LifeInv, EndInv
    <3> QED
      BY <1>1, <3>1, <3>2, <3>3
  <2> QED
    BY <2>2, <2>3, <2>4, <2>5 DEF EndInv
<1> QED
  BY <1>1, <1>4, <1>5 DEF LifeInv

LEMMA EmitKeepsLedger ==
  ASSUME SoundInv, LifeInv, LedgerInv, EmitNext
  PROVE  LedgerInv'
<1> SUFFICES ASSUME gone' = {}, NEW i \in Ids, Used(i)'
             PROVE  /\ \A c \in Calls : Started(c)' /\ call'[c].id = i => Stands(c, i)'
                    /\ \A d \in Waiting' : Closing(d) /\ d.id = i =>
                         Agrees(i, d.attempts, d.provider, d.mode,
                                d.kind = "request.completed")'
                    /\ \A r \in requests' : r.id = i =>
                         Agrees(i, r.attempts, r.provider, r.mode, r.outcome = "ok")'
  BY DEF LedgerInv
<1> PICK e : e = Head(out)
  OBVIOUS
<1>1. /\ e \in Waiting /\ Waiting = {e} \union Waiting' /\ call' = call
      /\ Used(i)
      /\ \A r \in requests' :
           r \in requests \/ (Closing(e) /\ \E now : r = RequestRow(e, now))
  BY EmitEffects
<1>2. gone = {} /\ SameLedger(i)
  BY EmitLedger
<1>3. \A c \in Calls : Started(c)' /\ call'[c].id = i => Stands(c, i)'
  BY <1>1, <1>2 DEF LedgerInv, Started, Stands, SameLedger
<1>4. \A n, p, m : \A ok \in BOOLEAN : Agrees(i, n, p, m, ok) => Agrees(i, n, p, m, ok)'
  BY <1>2 DEF Agrees, SameLedger
<1>5. \A d \in Waiting : Closing(d) /\ d.id = i =>
        Agrees(i, d.attempts, d.provider, d.mode, d.kind = "request.completed")
  BY <1>1, <1>2 DEF LedgerInv
<1>6. ASSUME NEW r \in requests', r.id = i
      PROVE  Agrees(i, r.attempts, r.provider, r.mode, r.outcome = "ok")
  <2>1. CASE r \in requests
    BY <1>1, <1>2, <1>6, <2>1 DEF LedgerInv
  <2>2. ASSUME Closing(e), NEW now, r = RequestRow(e, now)
        PROVE  Agrees(i, r.attempts, r.provider, r.mode, r.outcome = "ok")
    <3>1. /\ r.id = e.id /\ r.attempts = e.attempts /\ r.provider = e.provider
          /\ r.mode = e.mode
          /\ (r.outcome = "ok") = (e.kind = "request.completed")
      BY <2>2 DEF RequestRow
    <3> QED
      BY <1>1, <1>5, <1>6, <2>2, <3>1
  <2> QED
    BY <1>1, <2>1, <2>2
<1> QED
  BY <1>1, <1>3, <1>4, <1>5, <1>6

-----------------------------------------------------------------------------
(* The tables are purged; the server dies                                  *)

LEMMA PurgeKeepsAgreement ==
  ASSUME SoundInv, LifeInv, Purge
  PROVE  LifeInv' /\ LedgerInv'
<1>1. /\ out = <<>> /\ out' = out /\ call' = call
      /\ ended' = {} /\ attempts' \subseteq attempts /\ gone' \subseteq gone
      /\ \A i \in Ids : life'[i] = IF life[i] # "new" THEN "spoilt" ELSE life[i]
  BY DEF Purge, Spoil
<1>2. \A i \in Ids : ~Used(i)' /\ (life'[i] = "new" => life[i] = "new")
  BY <1>1 DEF Used
<1>3. Waiting' = {} /\ Block(out)'
  BY <1>1, NoBlock DEF Waiting
<1>4. \A c \in Calls : Started(c)' => call'[c].id \in Ids /\ Started(c)
  BY <1>1 DEF SoundInv, TypeInv, StartedInv, Started
<1>5. IdInv'
  <2>1. \A i \in Ids : life'[i] = "new" =>
          /\ \A a \in attempts' : a.id # i
          /\ \A c \in Calls : Started(c)' => call'[c].id # i
    BY <1>1, <1>2, <1>4 DEF LifeInv, IdInv
  <2>2. \A c \in Calls : Started(c)' => ~Used(call[c].id)'
    BY <1>1, <1>2, <1>4 DEF Used
  <2> QED
    BY <1>1, <1>3, <2>1, <2>2 DEF IdInv
<1>6. EndInv'
  <2>1. \A c \in Calls : Active(c)' \/ call'[c].step = "over" => Started(c)'
    BY DEF Active, Started
  <2>2. \A c \in Calls : Started(c)' => ~Used(call[c].id)'
    BY <1>1, <1>2, <1>4 DEF Used
  <2> QED
    BY <1>1, <1>3, <2>1, <2>2 DEF EndInv
<1>7. GoneInv'
  BY <1>1 DEF LifeInv, GoneInv
<1>8. LedgerInv'
  BY <1>2 DEF LedgerInv
<1> QED
  BY <1>3, <1>5, <1>6, <1>7, <1>8 DEF LifeInv

LEMMA CrashKeepsAgreement ==
  ASSUME SoundInv, LifeInv, LedgerInv, Crash
  PROVE  LifeInv' /\ LedgerInv'
<1> DEFINE hit == {call[c].id : c \in {d \in Calls : Active(d)}} \union {e.id : e \in Waiting}
<1>1. /\ out' = <<>> /\ UNCHANGED tables
      /\ call' = [c \in Calls |-> IF Active(c) THEN Over(c) ELSE call[c]]
      /\ \A i \in Ids : life'[i] = IF i \in hit THEN "spoilt" ELSE life[i]
  BY DEF Crash, Spoil, Active, Waiting, EventsOf
<1>2. /\ requests' = requests /\ attempts' = attempts /\ ended' = ended /\ gone' = gone
  BY <1>1 DEF tables
<1>3. Waiting' = {} /\ Block(out)'
  BY <1>1, NoBlock DEF Waiting
<1>4. \A c \in Calls : /\ Started(c)' => Started(c)
                       /\ Started(c) => call'[c].id = call[c].id /\ call[c].id \in Ids
  BY <1>1 DEF SoundInv, TypeInv, StartedInv, Started, Active, Over, NoCall
<1>5. \A i \in Ids : /\ life'[i] = "new" => life[i] = "new"
                     /\ Used(i)' => Used(i) /\ i \notin hit
  BY <1>1 DEF Used
<1> HIDE DEF hit
<1>6. IdInv'
  <2>1. \A i \in Ids : life'[i] = "new" =>
          /\ \A a \in attempts' : a.id # i
          /\ \A c \in Calls : Started(c)' => call'[c].id # i
          /\ \A f \in ended' : f.id # i
    BY <1>2, <1>4, <1>5 DEF LifeInv, IdInv
  <2>2. ASSUME NEW c \in Calls, NEW d \in Calls, Started(c)', Started(d)',
               call'[c].id = call'[d].id, Used(call[c].id)'
        PROVE  c = d
    <3>1. Started(c) /\ Started(d) /\ call[c].id = call[d].id /\ call[c].id \in Ids
      BY <1>4, <2>2
    <3>2. Used(call[c].id)
      <4>1. PICK i \in Ids : i = call[c].id /\ i = call'[c].id
        BY <1>4, <3>1
      <4>2. Used(i)'
        BY <2>2, <4>1 DEF Used
      <4> QED
        BY <1>5, <4>1, <4>2
    <3> QED
      BY <3>1, <3>2 DEF LifeInv, IdInv
  <2> QED
    BY <1>3, <2>1, <2>2 DEF IdInv
\* No call is left active, and those that are over were, with an id that was not hit.
<1>7. ASSUME NEW c \in Calls, NEW i \in Ids, Started(c)', call'[c].id = i, Used(i)'
      PROVE  call[c].step = "over" /\ call'[c].step = "over" /\ call[c].id = i
  <2>1. Started(c) /\ call[c].id = i /\ i \notin hit
    BY <1>4, <1>5, <1>7
  <2>2. ~Active(c)
    BY <2>1 DEF hit
  <2>3. call'[c] = call[c]
    BY <1>1, <2>2
  <2>4. call[c].step \in {"idle", "routing", "trying", "streaming", "over"}
    BY DEF SoundInv, TypeInv, TypeOK, CallStates
  <2> QED
    BY <2>1, <2>2, <2>3, <2>4 DEF Started, Active
<1>8. EndInv'
  <2>1. \A c \in Calls : Active(c)' \/ call'[c].step = "over" => Started(c)'
    BY DEF Active, Started
  <2>2. ASSUME NEW c \in Calls, Started(c)', Used(call[c].id)'
        PROVE  /\ call'[c].step = "over"
               /\ \E f \in ended' : f.id = call'[c].id
    <3>1. PICK i \in Ids : i = call[c].id /\ i = call'[c].id
      BY <1>4, <2>2
    <3>2. Used(i)'
      BY <2>2, <3>1 DEF Used
    <3>3. Used(i) /\ i \notin hit /\ call[c].step = "over" /\ call'[c].step = "over"
      BY <1>5, <1>7, <2>2, <3>1, <3>2
    <3>4. \A e \in Waiting : e.id # i
      BY <3>3 DEF hit
    <3>5. \E f \in ended : f.id = i
      BY <3>1, <3>3, <3>4 DEF LifeInv, EndInv
    <3> QED
      BY <1>2, <3>1, <3>3, <3>5
  <2>3. \A c \in Calls : Active(c)' => call'[c].step # "over"
    BY DEF Active
  <2> QED
    BY <1>3, <2>1, <2>2, <2>3 DEF EndInv
<1>9. GoneInv'
  BY <1>2 DEF LifeInv, GoneInv
<1>10. LedgerInv'
  <2> SUFFICES ASSUME gone' = {}, NEW i \in Ids, Used(i)'
               PROVE  /\ \A c \in Calls : Started(c)' /\ call'[c].id = i => Stands(c, i)'
                      /\ \A r \in requests' : r.id = i =>
                           Agrees(i, r.attempts, r.provider, r.mode, r.outcome = "ok")'
    BY <1>3 DEF LedgerInv
  <2>1. Used(i) /\ i \notin hit /\ gone = {}
    BY <1>2, <1>5
  <2>2. Pending(i) = {} /\ Pending(i)' = {}
    BY <1>3, <2>1 DEF Pending, hit
  <2>3. SameLedger(i)
    BY <1>2, <2>2, LedgerUntouched DEF Recorded
  <2>4. \A c \in Calls : Started(c)' /\ call'[c].id = i => Stands(c, i)'
    BY <1>7 DEF Stands
  <2>5. \A n, p, m : \A ok \in BOOLEAN : Agrees(i, n, p, m, ok) => Agrees(i, n, p, m, ok)'
    BY <2>3 DEF Agrees, SameLedger
  <2> QED
    BY <1>2, <2>1, <2>4, <2>5 DEF LedgerInv
<1> QED
  BY <1>3, <1>6, <1>8, <1>9, <1>10 DEF LifeInv

-----------------------------------------------------------------------------
(* A call makes a step                                                     *)

\* What the steps of a call have in common, but for its first.
CallMoves(c, i) ==
  /\ UNCHANGED tables /\ out = <<>>
  /\ Active(c) /\ call[c].id = i
  /\ \A d \in Calls \ {c} : call'[d] = call[d]
  /\ call'[c].id = i /\ Started(c)'
  /\ Block(out)' /\ \A e \in Waiting' : e.id = i
  /\ \A j \in Ids : life'[j] = life[j] \/ (j = i /\ life'[j] = "spoilt")
  /\ Used(i)' => (call'[c].step = "over" <=> \E e \in Waiting' : Closing(e))

LEMMA MovesKeepLife ==
  ASSUME SoundInv, LifeInv, NEW c \in Calls, NEW i \in Ids, CallMoves(c, i)
  PROVE  LifeInv'
<1>1. /\ attempts' = attempts /\ ended' = ended /\ gone' = gone
      /\ Active(c) /\ Started(c) /\ call[c].id = i /\ call'[c].id = i /\ Started(c)'
      /\ \A d \in Calls \ {c} : call'[d] = call[d]
      /\ Block(out)' /\ \A e \in Waiting' : e.id = i
      /\ Used(i)' => (call'[c].step = "over" <=> \E e \in Waiting' : Closing(e))
  BY DEF CallMoves, tables, Active, Started
<1>2. \A j \in Ids : (life'[j] = "new" => life[j] = "new") /\ (Used(j)' => Used(j))
  BY DEF CallMoves, Used
<1>3. Waiting = {}
  BY NoBlock DEF CallMoves, Waiting
<1>4. \A d \in Calls : Started(d) => call[d].id \in Ids
  BY DEF SoundInv, TypeInv, StartedInv
<1>5. \A d \in Calls : /\ Started(d)' => Started(d)
                       /\ Started(d)' => call'[d].id = call[d].id /\ call[d].id \in Ids
  BY <1>1, <1>4 DEF Started
<1>6. life[i] # "new"
  BY <1>1 DEF LifeInv, IdInv
<1>7. IdInv'
  <2>1. \A j \in Ids : life'[j] = "new" =>
          /\ \A a \in attempts' : a.id # j
          /\ \A e \in Waiting' : e.id # j
          /\ \A d \in Calls : Started(d)' => call'[d].id # j
          /\ \A f \in ended' : f.id # j
    BY <1>1, <1>2, <1>5, <1>6 DEF LifeInv, IdInv
  <2>2. ASSUME NEW d \in Calls, NEW k \in Calls, Started(d)', Started(k)',
               call'[d].id = call'[k].id, Used(call[d].id)'
        PROVE  d = k
    <3>1. PICK j \in Ids : j = call[d].id /\ j = call'[d].id /\ j = call[k].id
      BY <1>5, <2>2
    <3>2. Used(j)'
      BY <2>2, <3>1 DEF Used
    <3> QED
      BY <1>2, <1>5, <2>2, <3>1, <3>2 DEF LifeInv, IdInv
  <2> QED
    BY <2>1, <2>2 DEF IdInv
\* While the id is used by one turn only, this call is the only one that has it.
<1>8. Used(i)' => /\ \A f \in ended : f.id # i
                  /\ \A d \in Calls : Started(d) /\ call[d].id = i => d = c
  BY <1>1, <1>2 DEF LifeInv, IdInv, EndInv
<1>9. EndInv'
  <2>1. ASSUME NEW d \in Calls, Active(d)', Used(call[d].id)'
        PROVE  \A f \in ended' : f.id # call'[d].id
    <3>1. PICK j \in Ids : j = call[d].id /\ j = call'[d].id
      BY <1>5, <2>1 DEF Active, Started
    <3>2. Used(j)'
      BY <2>1, <3>1 DEF Used
    <3>3. CASE d = c
      BY <1>1, <1>8, <3>1, <3>2, <3>3
    <3>4. CASE d # c
      BY <1>1, <1>2, <2>1, <3>1, <3>2, <3>4 DEF LifeInv, EndInv, Active
    <3> QED
      BY <3>3, <3>4
  <2>2. \A e \in Waiting' : Used(e.id)' => \A f \in ended' : f.id # e.id
    BY <1>1, <1>8
  <2>3. ASSUME NEW e \in Waiting', NEW d \in Calls,
               Closing(e), Used(e.id)', Started(d)', call'[d].id = e.id
        PROVE  call'[d].step = "over"
    BY <1>1, <1>5, <1>8, <2>3
  <2>4. ASSUME NEW d \in Calls, call'[d].step = "over", Used(call[d].id)'
        PROVE  \/ \E e \in Waiting' : Closing(e) /\ e.id = call'[d].id
               \/ \E f \in ended' : f.id = call'[d].id
    <3>1. PICK j \in Ids : j = call[d].id /\ j = call'[d].id
      BY <1>5, <2>4 DEF Started
    <3>2. Used(j)'
      BY <2>4, <3>1 DEF Used
    <3>3. CASE d = c
      BY <1>1, <2>4, <3>1, <3>2, <3>3
    <3>4. CASE d # c
      <4>1. call[d].step = "over" /\ Used(j)
        BY <1>1, <1>2, <2>4, <3>2, <3>4
      <4> QED
        BY <1>1, <1>3, <3>1, <4>1 DEF LifeInv, EndInv
    <3> QED
      BY <3>3, <3>4
  <2> QED
    BY <2>1, <2>2, <2>3, <2>4 DEF EndInv
<1>10. GoneInv'
  BY <1>1 DEF LifeInv, GoneInv
<1> QED
  BY <1>1, <1>7, <1>9, <1>10 DEF LifeInv

\* What is left to show of such a step.
LEMMA MovesKeepLedger ==
  ASSUME SoundInv, LifeInv, LedgerInv, NEW c \in Calls, NEW i \in Ids, CallMoves(c, i),
         gone = {} /\ Used(i)' =>
           /\ Stands(c, i)'
           /\ \A e \in Waiting' : Closing(e) =>
                Agrees(i, e.attempts, e.provider, e.mode, e.kind = "request.completed")'
  PROVE  LedgerInv'
<1> SUFFICES ASSUME gone' = {}, NEW j \in Ids, Used(j)'
             PROVE  /\ \A d \in Calls : Started(d)' /\ call'[d].id = j => Stands(d, j)'
                    /\ \A e \in Waiting' : Closing(e) /\ e.id = j =>
                         Agrees(j, e.attempts, e.provider, e.mode,
                                e.kind = "request.completed")'
                    /\ \A r \in requests' : r.id = j =>
                         Agrees(j, r.attempts, r.provider, r.mode, r.outcome = "ok")'
  BY DEF LedgerInv
<1>1. /\ requests' = requests /\ attempts' = attempts /\ ended' = ended /\ gone' = gone
      /\ Active(c) /\ Started(c) /\ call[c].id = i /\ call'[c].id = i
      /\ \A d \in Calls \ {c} : call'[d] = call[d]
      /\ \A e \in Waiting' : e.id = i
  BY DEF CallMoves, tables, Active, Started
<1>2. Used(j)
  BY DEF CallMoves, Used
<1>3. Waiting = {}
  BY NoBlock DEF CallMoves, Waiting
<1>4. CASE j = i
  <2>1. \A f \in ended : f.id # i
    BY <1>1, <1>2, <1>4 DEF LifeInv, EndInv
  <2>2. \A r \in requests : r.id # i
    <3> TAKE r \in requests
    <3>1. [id |-> r.id, at |-> r.at] \in ended
      BY DEF SoundInv, TablesSound, RowInv
    <3> QED
      BY <2>1, <3>1
  <2>3. \A d \in Calls : Started(d)' /\ call'[d].id = i => d = c
    BY <1>1, <1>2, <1>4 DEF LifeInv, IdInv, Started
  <2> QED
    BY <1>1, <1>4, <2>2, <2>3
<1>5. CASE j # i
  <2>1. Pending(j) = {} /\ Pending(j)' = {}
    BY <1>1, <1>3, <1>5 DEF Pending
  <2>2. SameLedger(j)
    BY <1>1, <2>1, LedgerUntouched DEF Recorded
  <2>3. \A n, p, m : \A ok \in BOOLEAN : Agrees(j, n, p, m, ok) => Agrees(j, n, p, m, ok)'
    BY <2>2 DEF Agrees, SameLedger
  <2>4. \A r \in requests' : r.id = j =>
          Agrees(j, r.attempts, r.provider, r.mode, r.outcome = "ok")'
    BY <1>1, <1>2, <2>3 DEF LedgerInv
  <2>5. \A d \in Calls : Started(d)' /\ call'[d].id = j => Stands(d, j)'
    <3> TAKE d \in Calls
    <3> HAVE Started(d)' /\ call'[d].id = j
    <3>1. call'[d] = call[d]
      BY <1>1, <1>5
    <3>2. Stands(d, j)
      BY <1>1, <1>2, <3>1 DEF LedgerInv, Started
    <3> QED
      BY <2>2, <3>1, <3>2 DEF Stands, SameLedger
  <2> QED
    BY <1>1, <1>5, <2>4, <2>5
<1> QED
  BY <1>4, <1>5

LEMMA OfFields ==
  ASSUME NEW c, NEW kind
  PROVE  /\ Of(c, kind).kind = kind /\ Of(c, kind).id = call[c].id
         /\ Of(c, kind).provider = call[c].next /\ Of(c, kind).attempts = call[c].tried
         /\ Of(c, kind).mode = Mode(c)
BY DEF Of, Event

LEMMA CompletedFields ==
  ASSUME NEW c, NEW reports
  PROVE  /\ Completed(c, reports).kind = "request.completed"
         /\ Completed(c, reports).id = call[c].id
         /\ Completed(c, reports).provider = call[c].next
         /\ Completed(c, reports).attempts = call[c].tried
         /\ Completed(c, reports).mode = Mode(c)
BY DEF Completed, Event

\* How the ledger stands before such a step.
LEMMA BeforeMove ==
  ASSUME SoundInv, LedgerInv, NEW c \in Calls, NEW i \in Ids, CallMoves(c, i),
         gone = {}, Used(i)'
  PROVE  /\ Stands(c, i) /\ Pending(i) = {} /\ Recorded(i)' = Recorded(i)
         /\ IsFiniteSet(Recorded(i)) /\ Made(i) \in Nat /\ call[c].tried \in Nat
<1>1. Used(i) /\ Started(c) /\ call[c].id = i /\ attempts' = attempts
  BY DEF CallMoves, Used, Active, Started, tables
<1>2. Stands(c, i)
  BY <1>1 DEF LedgerInv
<1>3. Pending(i) = {}
  BY NoBlock DEF CallMoves, Waiting, Pending
<1>4. IsFiniteSet(Recorded(i))
  BY FS_Subset DEF SoundInv, TablesSound, RowInv, Recorded
<1>5. Made(i) \in Nat
  BY <1>4, FS_CardinalityType DEF Made
<1>6. call[c].tried \in Nat
  BY DEF SoundInv, TypeInv, TypeOK, CallStates
<1> QED
  BY <1>1, <1>2, <1>3, <1>4, <1>5, <1>6 DEF Recorded

\* A step whose block holds no attempt.
LEMMA QuietMove ==
  ASSUME SoundInv, LedgerInv, NEW c \in Calls, NEW i \in Ids, CallMoves(c, i),
         gone = {}, Used(i)', \A e \in Waiting' : ~Attempting(e)
  PROVE  SameLedger(i)
<1>1. Pending(i) = {} /\ Pending(i)' = {} /\ Recorded(i)' = Recorded(i)
  BY BeforeMove DEF Pending
<1> QED
  BY <1>1, LedgerUntouched

\* A step whose block holds one attempt, of a call that was trying.
LEMMA AttemptMove ==
  ASSUME SoundInv, LedgerInv, NEW c \in Calls, NEW i \in Ids, CallMoves(c, i),
         gone = {}, Used(i)', call[c].step = "trying",
         NEW e \in Waiting', Attempting(e), \A d \in Waiting' : Attempting(d) => d = e
  PROVE  /\ Made(i)' = call[c].tried
         /\ e.kind = "provider.failed" => GoodFrom(i)' = {}
         /\ e.kind = "provider.attempted" => GoodFrom(i)' = {e.provider}
         /\ AtMostOneGood(i)'
<1>1. /\ Pending(i) = {} /\ Recorded(i)' = Recorded(i) /\ IsFiniteSet(Recorded(i))
      /\ Made(i) = call[c].tried - 1 /\ GoodFrom(i) = {} /\ call[c].tried \in Nat
  BY BeforeMove DEF Stands
<1>2. Pending(i)' = {e}
  BY DEF Pending, CallMoves
<1>3. /\ Made(i)' = Made(i) + 1
      /\ e.kind = "provider.failed" => GoodFrom(i)' = {}
      /\ e.kind = "provider.attempted" => GoodFrom(i)' = {e.provider}
      /\ AtMostOneGood(i)'
  BY <1>1, <1>2, LedgerGrows
<1> QED
  BY <1>1, <1>3

LEMMA TryAgrees ==
  ASSUME SoundInv, LifeInv, LedgerInv, NEW c \in Calls, Try(c)
  PROVE  LifeInv' /\ LedgerInv'
<1>1. /\ call[c].step = "routing" /\ out = <<>> /\ out' = out
      /\ UNCHANGED tables /\ life' = life
      /\ call \in [Calls -> CallStates]
      /\ \E n \in Reachable(c) :
           call' = [call EXCEPT ![c].step = "trying", ![c].next = n, ![c].tried = @ + 1]
  BY DEF Try, Routing, SoundInv, TypeInv, TypeOK
<1>2. /\ call'[c].step = "trying" /\ call'[c].id = call[c].id
      /\ call'[c].tried = call[c].tried + 1
      /\ \A d \in Calls \ {c} : call'[d] = call[d]
  BY <1>1 DEF CallStates
<1>3. PICK i \in Ids : i = call[c].id
  BY <1>1 DEF SoundInv, TypeInv, StartedInv, Started
<1>4. Block(out)' /\ Waiting' = {}
  BY <1>1, NoBlock DEF Waiting
<1>5. CallMoves(c, i)
  BY <1>1, <1>2, <1>3, <1>4 DEF CallMoves, Active, Started
<1>6. ASSUME gone = {}, Used(i)' PROVE Stands(c, i)'
  <2>1. Made(i) = call[c].tried /\ GoodFrom(i) = {} /\ call[c].tried \in Nat
    BY <1>1, <1>5, <1>6, BeforeMove DEF Stands
  <2>2. SameLedger(i)
    BY <1>4, <1>5, <1>6, QuietMove
  <2> QED
    BY <1>2, <2>1, <2>2 DEF Stands, SameLedger
<1> QED
  BY <1>4, <1>5, <1>6, MovesKeepLife, MovesKeepLedger

\* What a call is after its last step.
LEMMA EndsLeaves ==
  ASSUME SoundInv, NEW c \in Calls, Ends(c)
  PROVE  /\ call'[c].step = "over" /\ call'[c].id = call[c].id
         /\ \A d \in Calls \ {c} : call'[d] = call[d]
BY DEF Ends, Over, NoCall, SoundInv, TypeInv, TypeOK

\* A step whose block is dropped: its id is not accounted for.
LEMMA DroppedAgrees ==
  ASSUME SoundInv, LifeInv, LedgerInv, NEW c \in Calls, out' = <<>>,
         \/ NotFree(c) \/ GiveUp(c) \/ FailOver(c) \/ FailFatally(c)
         \/ Answer(c) \/ OpenStream(c) \/ EndStream(c)
  PROVE  LifeInv' /\ LedgerInv'
<1>1. /\ call[c].step \in {"routing", "trying", "streaming"} /\ out = <<>>
      /\ UNCHANGED tables
      /\ call \in [Calls -> CallStates] /\ life \in [Ids -> {"new", "used", "spoilt"}]
      /\ \/ /\ Accounts(c)
            /\ \/ Ends(c)
               \/ call' = [call EXCEPT ![c].step = "routing", ![c].next = @ + 1]
               \/ call' = [call EXCEPT ![c].step = "streaming"]
         \/ BeginTurn(c, call[c].id, call[c].turn + 1)
  BY DEF NotFree, GiveUp, FailOver, FailFatally, Answer, OpenStream, EndStream, Routing,
         Trying, Emits, Goes, SoundInv, TypeInv, TypeOK
<1>2. PICK i \in Ids : i = call[c].id
  BY <1>1 DEF SoundInv, TypeInv, StartedInv, Started
<1>3. life[i] # "new"
  BY <1>1, <1>2 DEF LifeInv, IdInv, Started
<1>4. /\ call'[c].id = i /\ Started(c)'
      /\ \A d \in Calls \ {c} : call'[d] = call[d]
  <2>1. CASE Ends(c)
    BY <1>2, <2>1, EndsLeaves DEF Started
  <2>2. CASE call' = [call EXCEPT ![c].step = "routing", ![c].next = @ + 1]
    BY <1>1, <1>2, <2>2 DEF Started, CallStates
  <2>3. CASE call' = [call EXCEPT ![c].step = "streaming"]
    BY <1>1, <1>2, <2>3 DEF Started, CallStates
  <2>4. CASE BeginTurn(c, call[c].id, call[c].turn + 1)
    BY <1>1, <1>2, <2>4 DEF BeginTurn, Started
  <2> QED
    BY <1>1, <2>1, <2>2, <2>3, <2>4
<1>5. life'[i] = "spoilt" /\ \A j \in Ids \ {i} : life'[j] = life[j]
  BY <1>1, <1>2, <1>3 DEF Accounts, BeginTurn
<1>6. Block(out)' /\ Waiting' = {}
  BY NoBlock DEF Waiting
<1>7. ~Used(i)'
  BY <1>5 DEF Used
<1>8. CallMoves(c, i)
  BY <1>1, <1>2, <1>4, <1>5, <1>6, <1>7 DEF CallMoves, Active
<1> QED
  BY <1>7, <1>8, MovesKeepLife, MovesKeepLedger

\* The call ends with a block of one event, which is the end of the request.
LEMMA LastEventAgrees ==
  ASSUME SoundInv, LifeInv, LedgerInv, NEW c \in Calls, NEW e \in Events,
         Active(c), Ends(c), out = <<>>, out' = <<e>>, UNCHANGED tables, life' = life,
         Closing(e), e.id = call[c].id, e.attempts = call[c].tried,
         e.attempts > 1 => e.mode = "failover",
         \/ call[c].step = "routing" /\ e.kind = "request.failed"
         \/ call[c].step = "streaming" /\ e.provider = call[c].next
  PROVE  LifeInv' /\ LedgerInv'
<1>1. PICK i \in Ids : i = call[c].id
  BY DEF SoundInv, TypeInv, StartedInv, Started, Active
<1>2. Block(out)' /\ Waiting' = {e}
  BY BlockOfOne DEF Waiting
<1>3. /\ call'[c].step = "over" /\ call'[c].id = i
      /\ \A d \in Calls \ {c} : call'[d] = call[d]
  BY <1>1, EndsLeaves
<1>4. CallMoves(c, i)
  BY <1>1, <1>2, <1>3 DEF CallMoves, Started
<1>5. ~Attempting(e)
  BY DEF Attempting, Closing
<1>6. ASSUME gone = {}, Used(i)'
      PROVE  /\ Stands(c, i)'
             /\ Agrees(i, e.attempts, e.provider, e.mode, e.kind = "request.completed")'
  <2>1. SameLedger(i)
    BY <1>2, <1>4, <1>5, <1>6, QuietMove
  <2>2. Stands(c, i) /\ (GoodFrom(i) = {} => AtMostOneGood(i))
    BY <1>4, <1>6, BeforeMove, NoneGood
  <2>3. Stands(c, i)'
    BY <1>3 DEF Stands
  <2>4. CASE call[c].step = "routing" /\ e.kind = "request.failed"
    BY <2>1, <2>2, <2>3, <2>4 DEF Stands, SameLedger, Agrees
  <2>5. CASE call[c].step = "streaming" /\ e.provider = call[c].next
    BY <2>1, <2>2, <2>3, <2>5 DEF Stands, SameLedger, Agrees
  <2> QED
    BY <2>4, <2>5
<1> QED
  BY <1>2, <1>4, <1>6, MovesKeepLife, MovesKeepLedger

LEMMA NotFreeAgrees ==
  ASSUME SoundInv, LifeInv, LedgerInv, NEW c \in Calls, NotFree(c), out' # <<>>
  PROVE  LifeInv' /\ LedgerInv'
<1> DEFINE mode == IF call[c].tried > 0 THEN "failover" ELSE BaseMode(c)
           e == Event(c, "request.failed", 0, mode, {})
<1>1. /\ call[c].step = "routing" /\ out = <<>> /\ out' = <<e>> /\ Ends(c)
      /\ UNCHANGED tables /\ life' = life
  BY DEF NotFree, Routing, Normalized, Accounts
<1>2. CallTypes /\ Started(c) /\ Active(c) /\ call[c].tried \in Nat
  BY <1>1, TypeInParts DEF SoundInv, Started, Active, CallTypes, CallStates
<1>3. mode \in Modes /\ "request.failed" \in Kinds /\ 0 \in Nat /\ {} \in SUBSET Counts
  BY <1>2, ModeTyped DEF Modes, Kinds
<1>4. /\ e.kind = "request.failed" /\ e.id = call[c].id /\ e.attempts = call[c].tried
      /\ e.mode = mode
  BY DEF Event
<1>5. call[c].tried > 1 => mode = "failover"
  BY <1>2
<1> HIDE DEF mode
<1>6. e \in Events
  BY <1>2, <1>3, EventTyped
<1> HIDE DEF e
<1> QED
  BY <1>1, <1>2, <1>4, <1>5, <1>6, LastEventAgrees DEF Closing

LEMMA GiveUpAgrees ==
  ASSUME SoundInv, LifeInv, LedgerInv, NEW c \in Calls, GiveUp(c), out' # <<>>
  PROVE  LifeInv' /\ LedgerInv'
<1> DEFINE e == Event(c, "request.failed", 0, Mode(c), {})
<1>1. /\ call[c].step = "routing" /\ out = <<>> /\ out' = <<e>> /\ Ends(c)
      /\ UNCHANGED tables /\ life' = life
  BY DEF GiveUp, Routing, Normalized, Accounts
<1>2. CallTypes /\ Started(c) /\ Active(c)
  BY <1>1, TypeInParts DEF SoundInv, Started, Active
<1>3. "request.failed" \in Kinds /\ 0 \in Nat /\ {} \in SUBSET Counts /\ Mode(c) \in Modes
  BY <1>2, ModeTyped DEF Kinds
<1>4. /\ e.kind = "request.failed" /\ e.id = call[c].id /\ e.attempts = call[c].tried
      /\ e.mode = Mode(c)
  BY DEF Event
<1>5. call[c].tried > 1 => Mode(c) = "failover"
  BY DEF Mode
<1>6. e \in Events
  BY <1>2, <1>3, EventTyped
<1> HIDE DEF e
<1> QED
  BY <1>1, <1>2, <1>4, <1>5, <1>6, LastEventAgrees DEF Closing

LEMMA EndStreamAgrees ==
  ASSUME SoundInv, LifeInv, LedgerInv, NEW c \in Calls, EndStream(c), out' # <<>>
  PROVE  LifeInv' /\ LedgerInv'
<1>1. /\ call[c].step = "streaming" /\ out = <<>> /\ Ends(c)
      /\ UNCHANGED tables /\ life' = life
      /\ \/ \E reports \in Reports : out' = <<Completed(c, reports)>>
         \/ out' = <<Of(c, "request.failed")>>
  BY DEF EndStream, Emits, Normalized, Accounts
<1>2. CallTypes /\ Started(c) /\ Active(c)
  BY <1>1, TypeInParts DEF SoundInv, Started, Active
<1>3. call[c].tried > 1 => Mode(c) = "failover"
  BY DEF Mode
<1>4. ASSUME NEW e \in Events, out' = <<e>>, Closing(e), e.id = call[c].id,
             e.attempts = call[c].tried, e.mode = Mode(c), e.provider = call[c].next
      PROVE  LifeInv' /\ LedgerInv'
  BY <1>1, <1>2, <1>3, <1>4, LastEventAgrees
<1>5. ASSUME NEW reports \in Reports, out' = <<Completed(c, reports)>>
      PROVE  LifeInv' /\ LedgerInv'
  BY <1>2, <1>4, <1>5, CompletedTyped, CompletedFields DEF Closing
<1>6. CASE out' = <<Of(c, "request.failed")>>
  <2>1. "request.failed" \in Kinds
    BY DEF Kinds
  <2> QED
    BY <1>2, <1>4, <1>6, <2>1, OfTyped, OfFields DEF Closing
<1> QED
  BY <1>1, <1>5, <1>6

LEMMA FailOverAgrees ==
  ASSUME SoundInv, LifeInv, LedgerInv, NEW c \in Calls, FailOver(c), out' # <<>>
  PROVE  LifeInv' /\ LedgerInv'
<1> DEFINE e == Of(c, "provider.failed")
<1>1. /\ call[c].step = "trying" /\ out = <<>> /\ out' = <<e>>
      /\ UNCHANGED tables /\ life' = life
      /\ call \in [Calls -> CallStates]
      /\ call' = [call EXCEPT ![c].step = "routing", ![c].next = @ + 1]
  BY DEF FailOver, Trying, Emits, Normalized, Accounts, SoundInv, TypeInv, TypeOK
<1>2. /\ call'[c].step = "routing" /\ call'[c].id = call[c].id
      /\ call'[c].tried = call[c].tried
      /\ \A d \in Calls \ {c} : call'[d] = call[d]
  BY <1>1 DEF CallStates
<1>3. CallTypes /\ Started(c) /\ Active(c) /\ "provider.failed" \in Kinds
  BY <1>1, TypeInParts DEF SoundInv, Started, Active, Kinds
<1>4. PICK i \in Ids : i = call[c].id
  BY <1>3 DEF SoundInv, TypeInv, StartedInv
<1>5. /\ e \in Events /\ e.id = i /\ e.kind = "provider.failed"
      /\ Attempting(e) /\ ~Closing(e)
  BY <1>3, <1>4, OfTyped, OfFields DEF Attempting, Closing
<1> HIDE DEF e
<1>6. Block(out)' /\ Waiting' = {e}
  BY <1>1, <1>5, BlockOfOne DEF Waiting
<1>7. CallMoves(c, i)
  BY <1>1, <1>2, <1>3, <1>4, <1>5, <1>6 DEF CallMoves, Started
<1>8. ASSUME gone = {}, Used(i)' PROVE Stands(c, i)'
  <2>1. Made(i)' = call[c].tried /\ GoodFrom(i)' = {}
    BY <1>1, <1>5, <1>6, <1>7, <1>8, AttemptMove
  <2> QED
    BY <1>2, <2>1 DEF Stands
<1> QED
  BY <1>5, <1>6, <1>7, <1>8, MovesKeepLife, MovesKeepLedger

LEMMA FailFatallyAgrees ==
  ASSUME SoundInv, LifeInv, LedgerInv, NEW c \in Calls, FailFatally(c), out' # <<>>
  PROVE  LifeInv' /\ LedgerInv'
<1> PICK e, f : e = Of(c, "provider.failed") /\ f = Of(c, "request.failed")
  OBVIOUS
<1>1. /\ call[c].step = "trying" /\ out = <<>> /\ out' = <<e, f>> /\ Ends(c)
      /\ UNCHANGED tables /\ life' = life
  BY DEF FailFatally, Trying, Emits, Normalized, Accounts
<1>2. /\ CallTypes /\ Started(c) /\ Active(c)
      /\ "provider.failed" \in Kinds /\ "request.failed" \in Kinds
  BY <1>1, TypeInParts DEF SoundInv, Started, Active, Kinds
<1>3. PICK i \in Ids : i = call[c].id
  BY <1>2 DEF SoundInv, TypeInv, StartedInv
<1>4. /\ e \in Events /\ e.id = i /\ e.kind = "provider.failed"
      /\ Attempting(e) /\ ~Closing(e)
  BY <1>2, <1>3, OfTyped, OfFields DEF Attempting, Closing
<1>5. /\ f \in Events /\ f.id = i /\ f.kind = "request.failed"
      /\ ~Attempting(f) /\ Closing(f)
      /\ f.attempts = call[c].tried /\ f.mode = Mode(c)
  BY <1>2, <1>3, OfTyped, OfFields DEF Attempting, Closing
<1>6. Block(out)' /\ Waiting' = {e, f}
  BY <1>1, <1>4, <1>5, BlockOfTwo DEF Waiting
<1>7. /\ call'[c].step = "over" /\ call'[c].id = i
      /\ \A d \in Calls \ {c} : call'[d] = call[d]
  BY <1>1, <1>3, EndsLeaves
<1>8. CallMoves(c, i)
  BY <1>1, <1>2, <1>3, <1>4, <1>5, <1>6, <1>7 DEF CallMoves, Started
<1>9. ASSUME gone = {}, Used(i)'
      PROVE  /\ Stands(c, i)'
             /\ Agrees(i, f.attempts, f.provider, f.mode, f.kind = "request.completed")'
  <2>1. Made(i)' = call[c].tried /\ GoodFrom(i)' = {} /\ AtMostOneGood(i)'
    BY <1>1, <1>4, <1>5, <1>6, <1>8, <1>9, AttemptMove
  <2>2. f.attempts > 1 => f.mode = "failover"
    BY <1>5 DEF Mode
  <2> QED
    BY <1>5, <1>7, <2>1, <2>2 DEF Stands, Agrees
<1> QED
  BY <1>4, <1>6, <1>8, <1>9, MovesKeepLife, MovesKeepLedger

LEMMA Joins ==
  ASSUME NEW h \in Events, NEW e \in Events, NEW d \in Events
  PROVE  <<h>> \o <<e>> = <<h, e>> /\ <<h, e>> \o <<d>> = <<h, e, d>>
<1> DEFINE s == <<h>> \o <<e>>
           t == <<h, e>> \o <<d>>
<1>1. s \in Seq(Events) /\ Len(s) = 2 /\ s[1] = h /\ s[2] = e
  OBVIOUS
<1>2. t \in Seq(Events) /\ Len(t) = 3 /\ t[1] = h /\ t[2] = e /\ t[3] = d
  OBVIOUS
<1> HIDE DEF s, t
<1>3. s = <<h, e>> /\ t = <<h, e, d>>
  BY <1>1, <1>2
<1> QED
  BY <1>3 DEF s, t

\* The block of an answer names one attempt, after the handoff that led to it.
LEMMA OpenedIs ==
  ASSUME CallTypes, NEW c \in Calls, Started(c)
  PROVE  LET e == Of(c, "provider.attempted")
             h == Of(c, "failover.started")
         IN  /\ e \in Events /\ h \in Events /\ e.id = h.id /\ e.id = call[c].id
             /\ Attempting(e) /\ ~Closing(e) /\ ~Attempting(h) /\ ~Closing(h)
             /\ e.kind = "provider.attempted" /\ e.provider = call[c].next
             /\ Opened(c) = <<e>> \/ Opened(c) = <<h, e>>
<1>1. "provider.attempted" \in Kinds /\ "failover.started" \in Kinds
  BY DEF Kinds
<1>2. /\ Of(c, "provider.attempted") \in Events /\ Of(c, "failover.started") \in Events
  BY <1>1, OfTyped
<1>3. Opened(c) = <<Of(c, "provider.attempted")>>
        \/ Opened(c) = <<Of(c, "failover.started"), Of(c, "provider.attempted")>>
  <2>1. \A e \in Events : <<>> \o <<e>> = <<e>>
    OBVIOUS
  <2> QED
    BY <1>2, <2>1, Joins, Zenon DEF Opened
<1> QED
  BY <1>2, <1>3, OfFields DEF Attempting, Closing

LEMMA OpenStreamAgrees ==
  ASSUME SoundInv, LifeInv, LedgerInv, NEW c \in Calls, OpenStream(c), out' # <<>>
  PROVE  LifeInv' /\ LedgerInv'
<1>1. /\ call[c].step = "trying" /\ out = <<>> /\ out' = Opened(c)
      /\ UNCHANGED tables /\ life' = life
      /\ call \in [Calls -> CallStates]
      /\ call' = [call EXCEPT ![c].step = "streaming"]
  BY DEF OpenStream, Trying, Emits, Normalized, Accounts, Goes, SoundInv, TypeInv, TypeOK
<1>2. /\ call'[c].step = "streaming" /\ call'[c].id = call[c].id
      /\ call'[c].tried = call[c].tried /\ call'[c].next = call[c].next
      /\ \A d \in Calls \ {c} : call'[d] = call[d]
  BY <1>1 DEF CallStates
<1>3. CallTypes /\ Started(c) /\ Active(c)
  BY <1>1, TypeInParts DEF SoundInv, Started, Active
<1>4. PICK i \in Ids : i = call[c].id
  BY <1>3 DEF SoundInv, TypeInv, StartedInv
<1>5. PICK e \in Events, h \in Events :
        /\ e.id = h.id /\ e.id = i
        /\ Attempting(e) /\ ~Closing(e) /\ ~Attempting(h) /\ ~Closing(h)
        /\ e.kind = "provider.attempted" /\ e.provider = call[c].next
        /\ out' = <<e>> \/ out' = <<h, e>>
  BY <1>1, <1>3, <1>4, OpenedIs
<1>6. Block(out)' /\ (Waiting' = {e} \/ Waiting' = {h, e})
  BY <1>5, BlockOfOne, BlockOfTwo DEF Waiting
<1>7. CallMoves(c, i)
  BY <1>1, <1>2, <1>3, <1>4, <1>5, <1>6 DEF CallMoves, Started
<1>8. ASSUME gone = {}, Used(i)' PROVE Stands(c, i)'
  <2>1. /\ Made(i)' = call[c].tried /\ GoodFrom(i)' = {call[c].next}
        /\ AtMostOneGood(i)'
    BY <1>1, <1>5, <1>6, <1>7, <1>8, AttemptMove
  <2> QED
    BY <1>2, <2>1 DEF Stands
<1> QED
  BY <1>5, <1>6, <1>7, <1>8, MovesKeepLife, MovesKeepLedger

\* A buffered answer ends the request, and where tools are called it opens a second
\* turn under the id.
LEMMA AnswerAgrees ==
  ASSUME SoundInv, LifeInv, LedgerInv, NEW c \in Calls, Answer(c), out' # <<>>
  PROVE  LifeInv' /\ LedgerInv'
<1>1. /\ call[c].step = "trying" /\ out = <<>> /\ UNCHANGED tables
      /\ call \in [Calls -> CallStates] /\ life \in [Ids -> {"new", "used", "spoilt"}]
      /\ \/ Ends(c) /\ life' = life
         \/ BeginTurn(c, call[c].id, call[c].turn + 1)
  BY DEF Answer, Trying, Emits, Accounts, SoundInv, TypeInv, TypeOK
<1>2. PICK reports \in Reports : out' = Opened(c) \o <<Completed(c, reports)>>
  BY DEF Answer, Emits, Normalized
<1>3. CallTypes /\ Started(c) /\ Active(c)
  BY <1>1, TypeInParts DEF SoundInv, Started, Active
<1>4. PICK i \in Ids : i = call[c].id
  BY <1>3 DEF SoundInv, TypeInv, StartedInv
<1>5. PICK e \in Events, h \in Events, f \in Events :
        /\ e.id = i /\ h.id = i /\ f.id = i
        /\ Attempting(e) /\ ~Closing(e) /\ ~Attempting(h) /\ ~Closing(h)
        /\ e.kind = "provider.attempted" /\ e.provider = call[c].next
        /\ f.kind = "request.completed" /\ f.provider = call[c].next
        /\ f.attempts = call[c].tried /\ f.mode = Mode(c)
        /\ out' = <<e, f>> \/ out' = <<h, e, f>>
  <2>1. PICK e \in Events, h \in Events :
          /\ e.id = h.id /\ e.id = i
          /\ Attempting(e) /\ ~Closing(e) /\ ~Attempting(h) /\ ~Closing(h)
          /\ e.kind = "provider.attempted" /\ e.provider = call[c].next
          /\ Opened(c) = <<e>> \/ Opened(c) = <<h, e>>
    BY <1>3, <1>4, OpenedIs
  <2>2. PICK f \in Events : f = Completed(c, reports)
    BY <1>3, CompletedTyped
  <2>3. out' = <<e, f>> \/ out' = <<h, e, f>>
    <3>1. <<e>> \o <<f>> = <<e, f>> /\ <<h, e>> \o <<f>> = <<h, e, f>>
      BY <2>1, <2>2, Joins
    <3>2. out' = <<e>> \o <<f>> \/ out' = <<h, e>> \o <<f>>
      BY <1>2, <2>1, <2>2, Zenon
    <3> QED
      BY <3>1, <3>2, Zenon
  <2> QED
    BY ZenonT(60), <1>4, <2>1, <2>2, <2>3, CompletedFields
<1>6. ~Attempting(f) /\ Closing(f)
  BY <1>5 DEF Attempting, Closing
<1>7. Block(out)' /\ (Waiting' = {e, f} \/ Waiting' = {h, e, f})
  <2>1. Block(<<e, f>>) /\ EventsOf(<<e, f>>) = {e, f}
    BY <1>5, <1>6, BlockOfTwo
  <2>2. Block(<<h, e, f>>) /\ EventsOf(<<h, e, f>>) = {h, e, f}
    BY <1>5, <1>6, BlockOfThree
  <2> QED
    BY <1>5, <2>1, <2>2, Zenon DEF Waiting
<1>8. /\ call'[c].id = i /\ Started(c)'
      /\ \A d \in Calls \ {c} : call'[d] = call[d]
      /\ \/ call'[c].step = "over" /\ life' = life
         \/ /\ life'[i] = "spoilt"
            /\ \A j \in Ids \ {i} : life'[j] = life[j]
  <2>1. CASE Ends(c) /\ life' = life
    BY <1>4, <2>1, EndsLeaves DEF Started
  <2>2. CASE BeginTurn(c, call[c].id, call[c].turn + 1)
    <3>1. PICK n \in 0..MaxEligible :
            call' = [call EXCEPT ![c] = [step |-> "routing", id |-> i,
                                         turn |-> call[c].turn + 1,
                                         eligible |-> n, next |-> 1, tried |-> 0]]
      BY <1>4, <2>2 DEF BeginTurn
    <3>2. life' = [life EXCEPT ![i] = IF life[i] = "new" THEN "used" ELSE "spoilt"]
      BY <1>4, <2>2 DEF BeginTurn
    <3>3. life[i] # "new"
      BY <1>3, <1>4 DEF LifeInv, IdInv
    <3> QED
      BY <1>1, <3>1, <3>2, <3>3 DEF Started
  <2> QED
    BY <1>1, <2>1, <2>2
<1>9. CallMoves(c, i)
  <2>1. \A d \in Waiting' : d.id = i
    BY <1>5, <1>7
  <2>2. \E d \in Waiting' : Closing(d)
    BY <1>6, <1>7
  <2>3. Used(i)' => call'[c].step = "over"
    BY <1>8 DEF Used
  <2> QED
    BY <1>1, <1>3, <1>4, <1>7, <1>8, <2>1, <2>2, <2>3 DEF CallMoves
<1>10. ASSUME gone = {}, Used(i)'
       PROVE  /\ Stands(c, i)'
              /\ \A d \in Waiting' : Closing(d) =>
                   Agrees(i, d.attempts, d.provider, d.mode, d.kind = "request.completed")'
  <2>1. call'[c].step = "over"
    BY <1>8, <1>10 DEF Used
  <2>2. /\ Made(i)' = call[c].tried /\ GoodFrom(i)' = {call[c].next}
        /\ AtMostOneGood(i)'
    BY <1>1, <1>5, <1>6, <1>7, <1>9, <1>10, AttemptMove
  <2>3. f.attempts > 1 => f.mode = "failover"
    BY <1>5 DEF Mode
  <2>4. Agrees(i, f.attempts, f.provider, f.mode, f.kind = "request.completed")'
    BY <1>5, <2>2, <2>3 DEF Agrees
  <2>5. \A d \in Waiting' : Closing(d) => d = f
    BY <1>5, <1>7
  <2>6. Stands(c, i)'
    BY <2>1 DEF Stands
  <2> QED
    BY <2>4, <2>5, <2>6
<1> QED
  BY <1>9, <1>10, MovesKeepLife, MovesKeepLedger

LEMMA LeaveStreamAgrees ==
  ASSUME SoundInv, LifeInv, LedgerInv, NEW c \in Calls, LeaveStream(c)
  PROVE  LifeInv' /\ LedgerInv'
<1>1. /\ call[c].step = "streaming" /\ out = <<>> /\ out' = out /\ Ends(c)
      /\ UNCHANGED tables /\ Spoil({call[c].id})
  BY DEF LeaveStream
<1>2. PICK i \in Ids : i = call[c].id
  BY <1>1 DEF SoundInv, TypeInv, StartedInv, Started
<1>3. /\ call'[c].step = "over" /\ call'[c].id = i
      /\ \A d \in Calls \ {c} : call'[d] = call[d]
  BY <1>1, <1>2, EndsLeaves
<1>4. life'[i] = "spoilt" /\ \A j \in Ids \ {i} : life'[j] = life[j]
  BY <1>1, <1>2 DEF Spoil
<1>5. Block(out)' /\ Waiting' = {}
  BY <1>1, NoBlock DEF Waiting
<1>6. ~Used(i)'
  BY <1>4 DEF Used
<1>7. CallMoves(c, i)
  BY <1>1, <1>2, <1>3, <1>4, <1>5, <1>6 DEF CallMoves, Active, Started
<1> QED
  BY <1>6, <1>7, MovesKeepLife, MovesKeepLedger

LEMMA BeginAgrees ==
  ASSUME SoundInv, LifeInv, LedgerInv, NEW c \in Calls, Begin(c)
  PROVE  LifeInv' /\ LedgerInv'
<1>1. /\ call[c].step = "idle" /\ out = <<>> /\ out' = out /\ UNCHANGED tables
      /\ call \in [Calls -> CallStates] /\ life \in [Ids -> {"new", "used", "spoilt"}]
  BY DEF Begin, SoundInv, TypeInv, TypeOK
<1>2. PICK i \in Ids : BeginTurn(c, i, 1)
  BY DEF Begin
<1>3. /\ call'[c].step = "routing" /\ call'[c].id = i /\ call'[c].tried = 0
      /\ \A d \in Calls \ {c} : call'[d] = call[d]
  BY <1>1, <1>2 DEF BeginTurn
<1>4. /\ life'[i] = IF life[i] = "new" THEN "used" ELSE "spoilt"
      /\ \A j \in Ids \ {i} : life'[j] = life[j]
  BY <1>1, <1>2 DEF BeginTurn
<1>5. /\ requests' = requests /\ attempts' = attempts /\ ended' = ended /\ gone' = gone
  BY <1>1 DEF tables
<1>6. Waiting = {} /\ Waiting' = {} /\ Block(out)'
  BY <1>1, NoBlock DEF Waiting
<1>7. \A d \in Calls : /\ Started(d) => call[d].id \in Ids
                       /\ Started(d)' => d = c \/ Started(d)
                       /\ Started(d) => d # c
  BY <1>1, <1>3 DEF SoundInv, TypeInv, StartedInv, Started
<1>8. \A j \in Ids : /\ life'[j] = "new" => j # i /\ life[j] = "new"
                     /\ Used(j)' => (Used(j) /\ j # i) \/ (life[j] = "new" /\ j = i)
  <2> TAKE j \in Ids
  <2>1. CASE j = i
    BY <1>4, <2>1 DEF Used
  <2>2. CASE j # i
    BY <1>4, <2>2 DEF Used
  <2> QED
    BY <2>1, <2>2
\* Nothing is known of an id when its first call begins.
<1>9. Used(i)' => /\ \A a \in attempts : a.id # i
                  /\ \A f \in ended : f.id # i
                  /\ \A d \in Calls : Started(d) => call[d].id # i
  BY <1>8 DEF LifeInv, IdInv
<1>10. IdInv'
  <2>1. \A j \in Ids : life'[j] = "new" =>
          /\ \A a \in attempts' : a.id # j
          /\ \A d \in Calls : Started(d)' => call'[d].id # j
          /\ \A f \in ended' : f.id # j
    BY <1>3, <1>5, <1>7, <1>8 DEF LifeInv, IdInv
  <2>2. ASSUME NEW d \in Calls, NEW k \in Calls, Started(d)', Started(k)',
               call'[d].id = call'[k].id, Used(call[d].id)'
        PROVE  d = k
    <3>1. PICK j \in Ids : j = call'[d].id /\ j = call'[k].id
      BY <1>3, <1>7, <2>2
    <3>2. Used(j)'
      BY <2>2, <3>1 DEF Used
    <3>3. CASE j = i
      BY <1>3, <1>7, <1>9, <2>2, <3>1, <3>2, <3>3
    <3>4. CASE j # i
      BY <1>3, <1>7, <1>8, <2>2, <3>1, <3>2, <3>4 DEF LifeInv, IdInv
    <3> QED
      BY <3>3, <3>4
  <2> QED
    BY <1>6, <2>1, <2>2 DEF IdInv
<1>11. EndInv'
  <2>1. ASSUME NEW d \in Calls, Started(d)', Used(call[d].id)'
        PROVE  /\ Active(d)' => \A f \in ended' : f.id # call'[d].id
               /\ call'[d].step = "over" => \E f \in ended' : f.id = call'[d].id
    <3>1. PICK j \in Ids : j = call'[d].id
      BY <1>3, <1>7, <2>1
    <3>2. Used(j)'
      BY <2>1, <3>1 DEF Used
    <3>3. CASE d = c
      BY <1>3, <1>5, <1>9, <3>1, <3>2, <3>3
    <3>4. CASE d # c
      <4>1. call'[d] = call[d] /\ Started(d) /\ Used(j)
        BY <1>3, <1>7, <1>8, <1>9, <2>1, <3>1, <3>2, <3>4
      <4> QED
        BY <1>5, <1>6, <3>1, <4>1 DEF LifeInv, EndInv, Active
    <3> QED
      BY <3>3, <3>4
  <2>2. \A d \in Calls : Active(d)' \/ call'[d].step = "over" => Started(d)'
    BY DEF Active, Started
  <2> QED
    BY <1>6, <2>1, <2>2 DEF EndInv
<1>12. GoneInv'
  BY <1>5 DEF LifeInv, GoneInv
<1>13. LedgerInv'
  <2> SUFFICES ASSUME gone' = {}, NEW j \in Ids, Used(j)'
               PROVE  /\ \A d \in Calls : Started(d)' /\ call'[d].id = j => Stands(d, j)'
                      /\ \A r \in requests' : r.id = j =>
                           Agrees(j, r.attempts, r.provider, r.mode, r.outcome = "ok")'
    BY <1>6 DEF LedgerInv
  <2>1. Recorded(j)' = Recorded(j) /\ Pending(j) = {} /\ Pending(j)' = {}
    BY <1>5, <1>6 DEF Recorded, Pending
  <2>2. SameLedger(j)
    BY <2>1, LedgerUntouched
  <2>3. CASE j = i
    <3>1. \A r \in requests' : r.id # i
      <4> TAKE r \in requests'
      <4>1. [id |-> r.id, at |-> r.at] \in ended
        BY <1>5 DEF SoundInv, TablesSound, RowInv
      <4> QED
        BY <1>9, <2>3, <4>1
    <3>2. Made(i) = 0 /\ GoodFrom(i) = {}
      <4>1. Recorded(i) = {}
        BY <1>9, <2>3 DEF Recorded
      <4> QED
        BY <2>1, <2>3, <4>1, FS_EmptySet DEF Made, GoodFrom, Good, GoodPending
    <3>3. Stands(c, i)'
      BY <1>3, <2>2, <2>3, <3>2 DEF Stands, SameLedger
    <3>4. \A d \in Calls : Started(d)' /\ call'[d].id = i => d = c
      BY <1>3, <1>7, <1>9, <2>3
    <3> QED
      BY <2>3, <3>1, <3>3, <3>4
  <2>4. CASE j # i
    <3>1. Used(j) /\ gone = {}
      BY <1>5, <1>8, <2>4
    <3>2. \A n, p, m : \A ok \in BOOLEAN : Agrees(j, n, p, m, ok) => Agrees(j, n, p, m, ok)'
      BY <2>2 DEF Agrees, SameLedger
    <3>3. \A r \in requests' : r.id = j =>
            Agrees(j, r.attempts, r.provider, r.mode, r.outcome = "ok")'
      BY <1>5, <3>1, <3>2 DEF LedgerInv
    <3>4. \A d \in Calls : Started(d)' /\ call'[d].id = j => Stands(d, j)'
      <4> TAKE d \in Calls
      <4> HAVE Started(d)' /\ call'[d].id = j
      <4>1. call'[d] = call[d] /\ Started(d)
        BY <1>3, <1>7, <2>4
      <4>2. Stands(d, j)
        BY <3>1, <4>1 DEF LedgerInv
      <4> QED
        BY <2>2, <4>1, <4>2 DEF Stands, SameLedger
    <3> QED
      BY <3>3, <3>4
  <2> QED
    BY <2>3, <2>4
<1> QED
  BY <1>6, <1>10, <1>11, <1>12, <1>13 DEF LifeInv

-----------------------------------------------------------------------------
(* The theorem about the agreement                                         *)

AgreeInv == SoundInv /\ LifeInv /\ LedgerInv

LEMMA AgreeInit == Init => AgreeInv
<1> SUFFICES ASSUME Init PROVE AgreeInv
  OBVIOUS
<1>1. SoundInv
  BY SoundInit
<1>2. Waiting = {} /\ Block(out)
  BY NoBlock DEF Init, Waiting
<1>3. \A c \in Calls : call[c].step = "idle"
  BY DEF Init, NoCall
<1>4. LifeInv
  BY <1>2, <1>3 DEF Init, LifeInv, IdInv, EndInv, GoneInv, Started, Active
<1>5. LedgerInv
  BY DEF Init, LedgerInv, Used
<1> QED
  BY <1>1, <1>4, <1>5 DEF AgreeInv

LEMMA AgreeStep == AgreeInv /\ [Next]_vars => AgreeInv'
<1> SUFFICES ASSUME AgreeInv, [Next]_vars PROVE LifeInv' /\ LedgerInv'
  BY SoundStep DEF AgreeInv
<1>1. SoundInv /\ LifeInv /\ LedgerInv
  BY DEF AgreeInv
<1>2. ASSUME NEW c \in Calls,
             \/ Begin(c) \/ Try(c) \/ NotFree(c) \/ GiveUp(c)
             \/ FailOver(c) \/ FailFatally(c) \/ Answer(c)
             \/ OpenStream(c) \/ EndStream(c) \/ LeaveStream(c)
      PROVE  LifeInv' /\ LedgerInv'
  <2>1. CASE Begin(c) \/ Try(c) \/ LeaveStream(c)
    BY <1>1, <2>1, BeginAgrees, TryAgrees, LeaveStreamAgrees
  <2>2. CASE \/ NotFree(c) \/ GiveUp(c) \/ FailOver(c) \/ FailFatally(c)
             \/ Answer(c) \/ OpenStream(c) \/ EndStream(c)
    <3>1. CASE out' = <<>>
      BY <1>1, <2>2, <3>1, DroppedAgrees
    <3>2. CASE out' # <<>>
      BY <1>1, <2>2, <3>2, NotFreeAgrees, GiveUpAgrees, FailOverAgrees, FailFatallyAgrees,
         AnswerAgrees, OpenStreamAgrees, EndStreamAgrees
    <3> QED
      BY <3>1, <3>2
  <2> QED
    BY <1>2, <2>1, <2>2
<1>3. CASE EmitNext
  BY <1>1, <1>3, EmitKeepsLife, EmitKeepsLedger
<1>4. CASE Purge
  BY <1>1, <1>4, PurgeKeepsAgreement
<1>5. CASE Crash
  BY <1>1, <1>5, CrashKeepsAgreement
<1>6. CASE UNCHANGED vars
  <2>1. /\ requests' = requests /\ attempts' = attempts /\ ended' = ended /\ gone' = gone
        /\ call' = call /\ out' = out /\ life' = life
    BY <1>6 DEF vars
  <2>2. Waiting' = Waiting /\ Block(out)' = Block(out)
    BY <2>1 DEF Waiting
  <2>3. LifeInv'
    BY <1>1, <2>1, <2>2 DEF LifeInv, IdInv, EndInv, GoneInv, Started, Active, Used
  <2>4. ASSUME NEW i
        PROVE  /\ Made(i)' = Made(i) /\ GoodFrom(i)' = GoodFrom(i)
               /\ AtMostOneGood(i)' = AtMostOneGood(i)
    <3>1. Recorded(i)' = Recorded(i) /\ Pending(i)' = Pending(i)
      BY <2>1, <2>2 DEF Recorded, Pending
    <3>2. Good(i)' = Good(i) /\ GoodPending(i)' = GoodPending(i)
      BY <3>1 DEF Good, GoodPending
    <3>3. Made(i)' = Made(i) /\ GoodFrom(i)' = GoodFrom(i)
      BY <3>1, <3>2, Zenon DEF Made, GoodFrom
    <3> QED
      BY <3>2, <3>3, Zenon DEF AtMostOneGood
  <2>5. LedgerInv'
    BY <1>1, <2>1, <2>2, <2>4 DEF LedgerInv, Started, Used, Stands, Agrees
  <2> QED
    BY <2>3, <2>5
<1> QED
  BY <1>2, <1>3, <1>4, <1>5, <1>6 DEF Next

\* The tables agree: a request row counts the attempts of its id, names the provider of
\* the one that was good, and calls a failover what had several; and a call that is over
\* has been recorded (the emits of router.ts, record of the repository), for any number
\* of calls, candidates and turns.  An id of which a write failed or an event was
\* dropped, whose call died or was left, or that came twice, is not spoken of.
THEOREM Agree == Spec => []TablesAgree
<1>1. ASSUME AgreeInv PROVE TablesAgree
  <2>1. SoundInv /\ LifeInv /\ LedgerInv /\ TypeOK
    BY <1>1 DEF AgreeInv, SoundInv, TypeInv
  <2>2. ASSUME gone = {}, NEW r \in requests, life[r.id] = "used"
        PROVE  LET rows == {a \in attempts : a.id = r.id}
                   good == {a \in rows : a.outcome = "ok"}
               IN  /\ Cardinality(rows) = r.attempts
                   /\ Cardinality(good) <= 1
                   /\ \A a \in good : a.provider = r.provider
                   /\ r.outcome = "ok" => good # {}
                   /\ r.attempts > 1 => r.mode = "failover"
    <3> DEFINE i == r.id
    <3>1. i \in Ids /\ Used(i)
      BY <2>1, <2>2 DEF TypeOK, RequestRows, Used
    <3>2. Agrees(i, r.attempts, r.provider, r.mode, r.outcome = "ok")
      BY <2>1, <2>2, <3>1 DEF LedgerInv
    <3>3. Pending(i) = {}
      <4>1. [id |-> r.id, at |-> r.at] \in ended
        BY <2>1 DEF SoundInv, TablesSound, RowInv
      <4> QED
        BY <2>1, <3>1, <4>1 DEF LifeInv, EndInv, Pending
    <3>4. IsFiniteSet(Recorded(i)) /\ Cardinality(Recorded(i)) \in Nat
      BY <2>1, FS_Subset, FS_CardinalityType DEF SoundInv, TablesSound, RowInv, Recorded
    <3>5. Cardinality(Recorded(i)) = r.attempts
      BY <3>2, <3>3, <3>4 DEF Agrees, Made
    <3>6. \A a, b \in Good(i) : a = b
      BY <3>2 DEF Agrees, AtMostOneGood
    <3>7. Cardinality(Good(i)) <= 1
      <4>1. CASE Good(i) = {}
        BY <4>1, FS_EmptySet
      <4>2. ASSUME NEW a \in Good(i) PROVE Cardinality(Good(i)) <= 1
        <5>1. Good(i) = {a}
          BY <3>6, <4>2
        <5>2. Cardinality({a}) = 1
          BY FS_Singleton
        <5> QED
          BY <5>1, <5>2
      <4> QED
        BY <4>1, <4>2
    <3>8. GoodFrom(i) = {a.provider : a \in Good(i)}
      BY <3>3 DEF GoodFrom, GoodPending
    <3>9. /\ \A a \in Good(i) : a.provider = r.provider
          /\ r.outcome = "ok" => Good(i) # {}
          /\ r.attempts > 1 => r.mode = "failover"
      BY <3>2, <3>8 DEF Agrees
    <3> QED
      BY <3>5, <3>7, <3>9 DEF Good, Recorded
  <2>3. ASSUME NEW c \in Calls, call[c].step = "over", life[call[c].id] = "used", out = <<>>
        PROVE  \E f \in ended : f.id = call[c].id
    <3>1. Waiting = {}
      BY <2>3, NoBlock DEF Waiting
    <3> QED
      BY <2>1, <2>3, <3>1 DEF LifeInv, EndInv, Used
  <2> QED
    BY <2>2, <2>3 DEF TablesAgree
<1> QED
  BY <1>1, AgreeInit, AgreeStep, PTL DEF Spec
=============================================================================
