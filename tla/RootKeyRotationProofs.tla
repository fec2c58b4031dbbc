------------------------- MODULE RootKeyRotationProofs -------------------------
(***************************************************************************)
(* What holds of the rotation for any number of secrets, keys, crashes and *)
(* attempts: as long as no two processes have had the data directory open  *)
(* at once and no rename of the staging slot has failed (MCRootKeyRotation *)
(* keeps that history), in a directory where neither can happen, and with  *)
(* any number of processes.  The runs RotationFailedPromote and            *)
(* RotationSecondOpener show what becomes of the first when they do.       *)
(***************************************************************************)
EXTENDS MCRootKeyRotation, TLAPS

\* The custody of the code's comments: one process, and a rename that works.
SoleOwner ==
  /\ \A p, q \in Processes : p = q
  /\ "promote" \notin Faults

\* What is on disk wherever the process stands.
DiskInv ==
  /\ live <= minted /\ staged <= minted
  /\ staged # 0 => staged # live
  /\ recorded = 0 => staged = 0
  /\ recorded # 0 => recorded \in {live, staged}
  /\ recorded # 0 => live # 0

\* What a process knows of the disk, by where it stands.
PlaceInv(p) ==
  /\ at[p] = "loaded" => kek[p] = live /\ live # 0
  /\ at[p] = "open" => recorded = live /\ kek[p] = live /\ live # 0
  /\ at[p] = "truncated" =>
       /\ recorded = live /\ kek[p] = live /\ staged = 0 /\ live # 0
       /\ next[p] \notin {0, live} /\ next[p] <= minted
  /\ at[p] = "staged" =>
       /\ recorded = live /\ kek[p] = live /\ live # 0
       /\ staged = next[p] /\ next[p] # 0
  /\ at[p] = "rewrapped" =>
       recorded = staged /\ kek[p] = staged /\ next[p] = staged /\ staged # 0

\* The inductive strengthening of KeyNeverLost.
RotationInv ==
  /\ TypeOK
  /\ DiskInv
  /\ \A p \in Processes : PlaceInv(p)
  /\ RowsUnderRecordedKey

-----------------------------------------------------------------------------

\* The invariant holds of an empty data directory.
LEMMA InitRotationInv == Init => RotationInv
<1> SUFFICES ASSUME Init PROVE RotationInv
  OBVIOUS
<1> USE RotationAssumption DEF Init, Key, Places
<1>1. TypeOK
  BY DEF TypeOK
<1>2. DiskInv /\ RowsUnderRecordedKey
  BY DEF DiskInv, RowsUnderRecordedKey
<1>3. \A p \in Processes : PlaceInv(p)
  BY DEF PlaceInv
<1> QED
  BY <1>1, <1>2, <1>3 DEF RotationInv

\* Whoever is at work, every step keeps the types.
LEMMA TypeStep ==
  ASSUME TypeOK, [Next]_vars
  PROVE  TypeOK'
<1> USE RotationAssumption DEF TypeOK, Key, Places, files, database, memory, Goto, Forget
<1>1. CASE UNCHANGED vars
  BY <1>1 DEF vars
<1>2. ASSUME NEW p \in Processes,
             LoadKek(p) \/ RecordFirst(p) \/ OpenMatching(p) \/ Recover(p) \/ Mismatch(p)
      PROVE  TypeOK'
  BY <1>2 DEF LoadKek, RecordFirst, OpenMatching, Recover, Mismatch, DiscardStaged
<1>3. ASSUME NEW p \in Processes, NEW n \in Names, Put(p, n) \/ Delete(p, n)
      PROVE  TypeOK'
  BY <1>3 DEF Put, Delete
<1>4. ASSUME NEW p \in Processes, Close(p) \/ Crash(p)
      PROVE  TypeOK'
  BY <1>4 DEF Close, Crash
<1>5. ASSUME NEW p \in Processes, BeginRotation(p) \/ WriteSlot(p)
      PROVE  TypeOK'
  BY <1>5 DEF BeginRotation, WriteSlot
<1>6. ASSUME NEW p \in Processes, RewrapAll(p)
      PROVE  TypeOK'
  BY <1>6 DEF RewrapAll, DiscardStaged
<1>7. ASSUME NEW p \in Processes, Promote(p)
      PROVE  TypeOK'
  BY <1>7 DEF Promote
<1> QED
  BY <1>1, <1>2, <1>3, <1>4, <1>5, <1>6, <1>7 DEF Next, Rotate

\* What a process may do.
Step(p) ==
  \/ LoadKek(p) \/ RecordFirst(p) \/ OpenMatching(p) \/ Recover(p) \/ Mismatch(p)
  \/ \E n \in Names : Put(p, n) \/ Delete(p, n)
  \/ Close(p) \/ Crash(p)
  \/ Rotate(p)

\* A step of a process that has the directory to itself, and does not fail to
\* promote, keeps what it relies on: one step of the proof per action.
LEMMA OwnStep ==
  ASSUME NEW p \in Processes, TypeOK, DiskInv, PlaceInv(p), RowsUnderRecordedKey,
         Step(p), ~ (Promote(p) /\ UNCHANGED files)
  PROVE  TypeOK' /\ DiskInv' /\ PlaceInv(p)' /\ RowsUnderRecordedKey'
<1> USE RotationAssumption DEF TypeOK, DiskInv, PlaceInv, RowsUnderRecordedKey, Key, Places,
        files, database, memory, Goto, Forget
<1>1. CASE LoadKek(p)
  BY <1>1 DEF LoadKek
<1>2. CASE RecordFirst(p)
  BY <1>2 DEF RecordFirst
<1>3. CASE OpenMatching(p)
  BY <1>3 DEF OpenMatching, DiscardStaged
<1>4. CASE Recover(p)
  BY <1>4 DEF Recover
<1>5. CASE Mismatch(p)
  BY <1>5 DEF Mismatch, DiscardStaged
<1>6. ASSUME NEW n \in Names, Put(p, n) \/ Delete(p, n)
      PROVE  TypeOK' /\ DiskInv' /\ PlaceInv(p)' /\ RowsUnderRecordedKey'
  BY <1>6 DEF Put, Delete
<1>7. CASE Close(p) \/ Crash(p)
  BY <1>7 DEF Close, Crash
<1>8. CASE BeginRotation(p)
  BY <1>8 DEF BeginRotation
<1>9. CASE WriteSlot(p)
  BY <1>9 DEF WriteSlot
<1>10. CASE RewrapAll(p)
  BY <1>10 DEF RewrapAll, DiscardStaged
<1>11. CASE Promote(p)
  BY <1>11 DEF Promote
<1> QED
  BY <1>1, <1>2, <1>3, <1>4, <1>5, <1>6, <1>7, <1>8, <1>9, <1>10, <1>11
  DEF Step, Rotate

\* Where nobody else may open the directory, every step is such a step.
LEMMA NextRotationInv ==
  ASSUME SoleOwner
  PROVE  RotationInv /\ [Next]_vars => RotationInv'
<1> SUFFICES ASSUME RotationInv, [Next]_vars
             PROVE  RotationInv'
  OBVIOUS
<1>1. CASE UNCHANGED vars
  BY <1>1 DEF vars, files, database, memory, RotationInv, TypeOK, DiskInv,
              PlaceInv, RowsUnderRecordedKey
<1>2. ASSUME NEW p \in Processes, Step(p)
      PROVE  RotationInv'
  <2>1. \A q \in Processes : q = p
    BY SoleOwner, <1>2 DEF SoleOwner
  <2>2. TypeOK /\ DiskInv /\ PlaceInv(p) /\ RowsUnderRecordedKey
    BY <1>2 DEF RotationInv
  <2>3. ~ (Promote(p) /\ UNCHANGED files)
    BY SoleOwner, <2>2 DEF SoleOwner, Promote, PlaceInv, files
  <2>4. TypeOK' /\ DiskInv' /\ PlaceInv(p)' /\ RowsUnderRecordedKey'
    BY <1>2, <2>2, <2>3, OwnStep
  <2> QED
    BY <2>1, <2>4, Zenon DEF RotationInv
<1> QED
  BY <1>1, <1>2 DEF Next, Step

\* The invariant holds throughout, for a sole owner of the directory.
LEMMA RotationInvHolds ==
  ASSUME SoleOwner
  PROVE  Spec => []RotationInv
  BY InitRotationInv, NextRotationInv, PTL DEF Spec

-----------------------------------------------------------------------------

\* Wherever a crash falls, a key on disk opens the database
\* (rotateManagedRootKey with openSecretStorage's recovery).
THEOREM NoKeyLost ==
  ASSUME SoleOwner
  PROVE  Spec => []KeyNeverLost
<1>1. RotationInv => KeyNeverLost
  BY DEF RotationInv, DiskInv, KeyNeverLost
<1> QED
  BY <1>1, RotationInvHolds, PTL

\* No row is left wrapped under a key other than the recorded one (rewrapAll
\* and put).
THEOREM NoRowStranded ==
  ASSUME SoleOwner
  PROVE  Spec => []RowsUnderRecordedKey
<1>1. RotationInv => RowsUnderRecordedKey
  BY DEF RotationInv
<1> QED
  BY <1>1, RotationInvHolds, PTL

\* A process drops no slot that the database needs, as far as it goes by what it
\* relies on.
LEMMA OwnDrops ==
  ASSUME NEW p \in Processes, DiskInv, PlaceInv(p), Step(p),
         staged # 0, staged' # staged, live' # staged
  PROVE  recorded # staged
BY DEF DiskInv, PlaceInv, Step, LoadKek, RecordFirst, OpenMatching, Recover, Mismatch, Put,
       Delete, Close, Crash, Rotate, BeginRotation, WriteSlot, RewrapAll, Promote, files

\* discardStaged and a new rotation only ever drop a key nothing needs.
THEOREM NoNeededSlotDropped ==
  ASSUME SoleOwner
  PROVE  Spec => OnlyStaleSlotsDropped
<1> DEFINE Drops == staged # 0 /\ staged' # staged /\ live' # staged
<1>1. RotationInv /\ [Next]_vars => (Drops => recorded # staged)
  <2> SUFFICES ASSUME RotationInv, [Next]_vars, Drops
               PROVE  recorded # staged
    OBVIOUS
  <2>1. PICK p \in Processes : Step(p)
    BY DEF Next, Step, vars, files
  <2> QED
    BY <2>1, OwnDrops DEF RotationInv
<1> QED
  BY <1>1, RotationInvHolds, PTL DEF Spec, OnlyStaleSlotsDropped, Drops

-----------------------------------------------------------------------------
(* As long as the directory has been one process's at a time               *)

\* One process after another, none of which has failed to promote.
OwnerInv ==
  /\ TypeOK
  /\ ~excused => /\ ~Shared
                 /\ DiskInv
                 /\ \A p \in Processes : PlaceInv(p)
                 /\ RowsUnderRecordedKey

LEMMA OwnerInit == MCInit => OwnerInv
<1> SUFFICES ASSUME MCInit PROVE OwnerInv
  OBVIOUS
<1>1. RotationInv
  BY InitRotationInv DEF MCInit
<1>2. ~Shared
  BY DEF MCInit, Init, Shared, Users
<1> QED
  BY <1>1, <1>2 DEF OwnerInv, RotationInv

\* Another process is closed before a step of the owner, and after it.
LEMMA OwnerNext == OwnerInv /\ [MCNext]_<<vars, excused>> => OwnerInv'
<1> SUFFICES ASSUME OwnerInv, [MCNext]_<<vars, excused>>
             PROVE  OwnerInv'
  OBVIOUS
<1>1. CASE UNCHANGED <<vars, excused>>
  BY <1>1 DEF vars, files, database, memory, OwnerInv, TypeOK, DiskInv, PlaceInv,
              RowsUnderRecordedKey, Shared, Users
<1>2. CASE MCNext
  <2>1. PICK p \in Processes : Step(p)
    BY <1>2 DEF MCNext, Next, Step
  <2>2. TypeOK'
    BY <1>2, TypeStep DEF MCNext, OwnerInv
  <2>3. ASSUME ~excused'
        PROVE  /\ ~Shared' /\ DiskInv' /\ RowsUnderRecordedKey'
               /\ \A q \in Processes : PlaceInv(q)'
    <3>1. ~excused /\ ~Shared' /\ ~FailedPromotion
      BY <1>2, <2>3 DEF MCNext
    <3>2. TypeOK /\ ~Shared /\ DiskInv /\ PlaceInv(p) /\ RowsUnderRecordedKey
      BY <3>1 DEF OwnerInv
    <3>3. ~ (Promote(p) /\ UNCHANGED files)
      BY <3>1 DEF FailedPromotion, Users, Promote
    <3>4. DiskInv' /\ PlaceInv(p)' /\ RowsUnderRecordedKey'
      BY <2>1, <3>2, <3>3, OwnStep
    <3>5. ASSUME NEW q \in Processes, q # p PROVE PlaceInv(q)'
      <4>1. at'[q] = at[q]
        BY <2>1, <3>2, <3>5 DEF TypeOK, Step, LoadKek, RecordFirst, OpenMatching, Recover,
           Mismatch, Put, Delete, Close, Crash, Rotate, BeginRotation, WriteSlot, RewrapAll,
           Promote, Goto, Forget, memory
      <4>2. at[p] # "closed" \/ at'[p] # "closed"
        BY <2>1, <3>2 DEF TypeOK, Step, LoadKek, RecordFirst, OpenMatching, Recover,
           Mismatch, Put, Delete, Close, Crash, Rotate, BeginRotation, WriteSlot, RewrapAll,
           Promote, Goto
      <4>3. at'[q] = "closed"
        BY <3>1, <3>2, <3>5, <4>1, <4>2 DEF Shared, Users
      <4> QED
        BY <4>3 DEF PlaceInv
    <3> QED
      BY <3>1, <3>4, <3>5
  <2> QED
    BY <2>2, <2>3 DEF OwnerInv
<1> QED
  BY <1>1, <1>2

LEMMA OwnerAlways == MCSpec => []OwnerInv
  BY OwnerInit, OwnerNext, PTL DEF MCSpec

\* However often the directory changes hands, and whatever is interrupted: as
\* long as it has been one process's at a time and no promotion has failed, a key
\* on disk opens the database (openSecretStorage, rotateManagedRootKey).
THEOREM OwnerKeepsKeyAlways == MCSpec => []OwnerKeepsKey
<1>1. OwnerInv => OwnerKeepsKey
  BY DEF OwnerInv, DiskInv, OwnerKeepsKey, KeyNeverLost
<1> QED
  BY <1>1, OwnerAlways, PTL

\* And up to the step at which one of these happens, no slot that the database
\* needs is dropped (beginRotation, discardRotation).
THEOREM OwnerKeepsSlotAlways == MCSpec => OwnerKeepsSlot
<1> DEFINE Keeps == ~excused' /\ staged # 0 /\ staged' # staged /\ live' # staged
                      => recorded # staged
<1>1. OwnerInv /\ [MCNext]_<<vars, excused>> => Keeps
  <2> SUFFICES ASSUME OwnerInv, [MCNext]_<<vars, excused>>, ~excused', staged # 0,
                      staged' # staged, live' # staged
               PROVE  recorded # staged
    OBVIOUS
  <2>1. PICK p \in Processes : Step(p)
    BY DEF MCNext, Next, Step, vars, files
  <2>2. ~excused
    BY DEF MCNext
  <2> QED
    BY <2>1, <2>2, OwnDrops DEF OwnerInv
<1> QED
  BY <1>1, OwnerAlways, PTL DEF MCSpec, OwnerKeepsSlot, Keeps

-----------------------------------------------------------------------------
(* With any number of processes                                            *)

\* A process that is closed holds no key, one that rotates carries its
\* replacement, and every variable keeps its type, whoever else is at work.
THEOREM TypeCorrect == Spec => []TypeOK
<1>1. Init => TypeOK
  BY RotationAssumption DEF Init, TypeOK, Key, Places
<1>2. TypeOK /\ [Next]_vars => TypeOK'
  BY TypeStep
<1> QED
  BY <1>1, <1>2, PTL DEF Spec

\* What a rotator knows of the slot while others may open: it is still its own
\* or it has been discarded.
SlotInv ==
  \A p \in Processes :
    /\ at[p] \in {"truncated", "staged", "rewrapped"} => p \in Rotators
    /\ at[p] \in {"staged", "rewrapped"} => staged \in {0, next[p]} /\ next[p] # 0
    /\ at[p] = "rewrapped" => recorded = next[p]

\* Whatever else opens the directory while its one rotator works, and whatever
\* fails, only the recorded key is promoted (promoteStaged, both callers).
THEOREM NoSecondKeyAccepted ==
  ASSUME \A p, q \in Rotators : p = q
  PROVE  Spec => OnlyRecordedKeyPromoted
<1> DEFINE Inv == TypeOK /\ SlotInv
<1>1. Init => SlotInv
  BY DEF Init, SlotInv
<1>2. Inv /\ [Next]_vars => SlotInv'
  <2> SUFFICES ASSUME Inv, [Next]_vars
               PROVE  SlotInv'
    OBVIOUS
  <2> USE DEF TypeOK, SlotInv, files, database, memory, Goto, Forget
  <2>1. CASE UNCHANGED vars
    BY <2>1 DEF vars
  <2>2. ASSUME NEW p \in Processes,
               LoadKek(p) \/ RecordFirst(p) \/ OpenMatching(p) \/ Recover(p) \/ Mismatch(p)
        PROVE  SlotInv'
    BY <2>2 DEF LoadKek, RecordFirst, OpenMatching, Recover, Mismatch, DiscardStaged
  <2>3. ASSUME NEW p \in Processes, NEW n \in Names, Put(p, n) \/ Delete(p, n)
        PROVE  SlotInv'
    BY <2>3 DEF Put, Delete
  <2>4. ASSUME NEW p \in Processes, Close(p) \/ Crash(p)
        PROVE  SlotInv'
    BY <2>4 DEF Close, Crash
  <2>5. ASSUME NEW p \in Processes, BeginRotation(p)
        PROVE  SlotInv'
    BY <2>5 DEF BeginRotation
  <2>6. ASSUME NEW p \in Processes, WriteSlot(p)
        PROVE  SlotInv'
    BY <2>6 DEF WriteSlot
  <2>7. ASSUME NEW p \in Processes, RewrapAll(p)
        PROVE  SlotInv'
    BY <2>7 DEF RewrapAll, DiscardStaged
  <2>8. ASSUME NEW p \in Processes, Promote(p)
        PROVE  SlotInv'
    BY <2>8 DEF Promote
  <2> QED
    BY <2>1, <2>2, <2>3, <2>4, <2>5, <2>6, <2>7, <2>8 DEF Next, Rotate
<1>3. SlotInv /\ [Next]_vars => (live # 0 /\ live' # live => live' = recorded)
  BY DEF SlotInv, Next, vars, files, LoadKek, RecordFirst, OpenMatching, Recover,
     Mismatch, Put, Delete, Close, Crash, Rotate, BeginRotation, WriteSlot,
     RewrapAll, Promote, database
<1> QED
  BY <1>1, <1>2, <1>3, TypeCorrect, PTL DEF Spec, OnlyRecordedKeyPromoted
=============================================================================
