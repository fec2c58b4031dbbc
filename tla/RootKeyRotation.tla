---------------------------- MODULE RootKeyRotation ----------------------------
(***************************************************************************)
(* The root key of the secret store and its managed rotation:              *)
(* openSecretStorage and rotateManagedRootKey of                           *)
(* packages/storage/src/secret-repository.ts over SecureFileKeyProvider of *)
(* key-provider.ts.                                                        *)
(*                                                                         *)
(* Two stores have to move together and cannot: the key file with its      *)
(* staging slot, and the database, whose rows are wrapped under the key    *)
(* that `active_key_id` records.  Every file operation and every           *)
(* transaction is one step, and a crash may fall between any two.          *)
(*                                                                         *)
(* A key is the number at which it was generated, so no two are equal; a   *)
(* fingerprint is its key.  0 stands for none.                             *)
(***************************************************************************)
EXTENDS Integers

CONSTANTS
  Processes,  \* processes that may open the data directory
  Rotators,   \* those that may be asked to rotate the key
  Names,      \* names of secrets
  Faults,     \* what may go wrong beside a crash: a subset of AllFaults
  MaxKeys     \* bound of the model: keys generated

\* "stage": writing the slot fails.  "rewrap": the transaction fails.
\* "promote": renaming the slot over the key file fails.  "discard": removing
\* the slot fails, and nobody is told.
AllFaults == {"stage", "rewrap", "promote", "discard"}

ASSUME RotationAssumption ==
  /\ Rotators \subseteq Processes
  /\ Faults \subseteq AllFaults
  /\ MaxKeys \in Nat \ {0}

VARIABLES
  live,      \* the key file
  staged,    \* the staging slot; 0 also when its length is wrong
  recorded,  \* active_key_id
  rows,      \* name -> the key its row is wrapped under, 0: no row
  minted,    \* keys generated so far
  at,        \* process -> where it stands
  kek,       \* process -> the key it holds in memory
  next       \* process -> the replacement its rotation handle carries

files == <<live, staged>>
database == <<recorded, rows>>
memory == <<at, kek, next>>
vars == <<files, database, minted, memory>>

\* "loaded":    the key is read, the database not yet looked at
\* "truncated": the staging slot is being written
\* "staged":    the replacement is on disk, the rewrap has not committed
\* "rewrapped": the rewrap has committed, the slot is not yet promoted
Places == {"closed", "loaded", "open", "truncated", "staged", "rewrapped"}

Key == 0..MaxKeys

Init ==
  /\ live = 0 /\ staged = 0
  /\ recorded = 0 /\ rows = [n \in Names |-> 0]
  /\ minted = 0
  /\ at = [p \in Processes |-> "closed"]
  /\ kek = [p \in Processes |-> 0]
  /\ next = [p \in Processes |-> 0]

Goto(p, place) == at' = [at EXCEPT ![p] = place]

\* For mutation: the key outlives the storage.
ForgetNothing(p) == Goto(p, "closed") /\ UNCHANGED <<kek, next>>

\* The process is gone, or the storage closed, and the key with it.
Forget(p) ==
  /\ Goto(p, "closed")
  /\ kek' = [kek EXCEPT ![p] = 0]
  /\ next' = [next EXCEPT ![p] = 0]

\* discardStaged: the failure to remove the slot is swallowed.
DiscardStaged == staged' = 0 \/ ("discard" \in Faults /\ staged' = staged)

-----------------------------------------------------------------------------
(* Opening                                                                 *)

\* loadKek: the key file is read, or created exclusively on the first start.
LoadKek(p) ==
  /\ at[p] = "closed"
  /\ IF live # 0
     THEN UNCHANGED <<live, minted>>
     ELSE /\ minted < MaxKeys
          /\ minted' = minted + 1
          /\ live' = minted'
  /\ Goto(p, "loaded")
  /\ kek' = [kek EXCEPT ![p] = live']
  /\ UNCHANGED <<staged, database, next>>

\* A new database records the fingerprint of the key it is opened with.
RecordFirst(p) ==
  /\ at[p] = "loaded" /\ recorded = 0
  /\ recorded' = kek[p]
  /\ Goto(p, "open")
  /\ UNCHANGED <<files, rows, minted, kek, next>>

\* The key is the recorded one: whatever is staged is dropped as stale.
OpenMatching(p) ==
  /\ at[p] = "loaded" /\ recorded = kek[p]
  /\ DiscardStaged
  /\ Goto(p, "open")
  /\ UNCHANGED <<live, database, minted, kek, next>>

\* For mutation: the fingerprint of the staged key is not compared.
RecoverUnchecked(p) ==
  /\ at[p] = "loaded" /\ recorded \notin {0, kek[p]}
  /\ staged # 0
  /\ live' = staged /\ staged' = 0
  /\ kek' = [kek EXCEPT ![p] = staged]
  /\ Goto(p, "open")
  /\ UNCHANGED <<database, minted, next>>

\* The key is not the recorded one but the staged key is: it is promoted.
Recover(p) ==
  /\ at[p] = "loaded" /\ recorded \notin {0, kek[p]}
  /\ staged # 0 /\ staged = recorded
  /\ \/ /\ live' = staged /\ staged' = 0
        /\ kek' = [kek EXCEPT ![p] = staged]
        /\ Goto(p, "open")
        /\ UNCHANGED next
     \/ /\ "promote" \in Faults
        /\ Forget(p)
        /\ UNCHANGED files
  /\ UNCHANGED <<database, minted>>

\* Neither is: the slot is dropped and the open refused.
Mismatch(p) ==
  /\ at[p] = "loaded" /\ recorded \notin {0, kek[p]}
  /\ staged # recorded
  /\ DiscardStaged
  /\ Forget(p)
  /\ UNCHANGED <<live, database, minted>>

-----------------------------------------------------------------------------
(* Using                                                                   *)

\* A secret is sealed under the key in memory, or deleted.
Put(p, n) ==
  /\ at[p] = "open"
  /\ rows' = [rows EXCEPT ![n] = kek[p]]
  /\ UNCHANGED <<files, recorded, minted, memory>>

Delete(p, n) ==
  /\ at[p] = "open"
  /\ rows' = [rows EXCEPT ![n] = 0]
  /\ UNCHANGED <<files, recorded, minted, memory>>

Close(p) ==
  /\ at[p] = "open"
  /\ Forget(p)
  /\ UNCHANGED <<files, database, minted>>

Crash(p) ==
  /\ at[p] # "closed"
  /\ Forget(p)
  /\ UNCHANGED <<files, database, minted>>

-----------------------------------------------------------------------------
(* Rotating                                                                *)

\* beginRotation generates a key and opens the staging slot for writing, which
\* empties it.
BeginRotation(p) ==
  /\ p \in Rotators
  /\ at[p] = "open"
  /\ minted < MaxKeys
  /\ minted' = minted + 1
  /\ next' = [next EXCEPT ![p] = minted']
  /\ staged' = 0
  /\ Goto(p, "truncated")
  /\ UNCHANGED <<live, database, kek>>

\* For mutation: the replacement exists in memory only.
WriteNoSlot(p) ==
  /\ at[p] = "truncated"
  /\ Goto(p, "staged")
  /\ UNCHANGED <<files, database, minted, kek, next>>

\* The slot is written, or the write fails and the rotation is refused.
WriteSlot(p) ==
  /\ at[p] = "truncated"
  /\ \/ /\ staged' = next[p]
        /\ Goto(p, "staged")
        /\ UNCHANGED next
     \/ /\ "stage" \in Faults
        /\ next' = [next EXCEPT ![p] = 0]
        /\ Goto(p, "open")
        /\ UNCHANGED staged
  /\ UNCHANGED <<live, database, minted, kek>>

\* For mutation: the record is written in a transaction of its own, later.
RewrapWithoutRecord(p) ==
  /\ at[p] = "staged"
  /\ \A n \in Names : rows[n] \in {0, kek[p]}
  /\ rows' = [n \in Names |-> IF rows[n] = 0 THEN 0 ELSE next[p]]
  /\ kek' = [kek EXCEPT ![p] = next[p]]
  /\ Goto(p, "rewrapped")
  /\ UNCHANGED <<files, recorded, minted, next>>

\* rewrapAll: one transaction moves every row and the record to the new key,
\* and the key in memory follows.  A row the key in memory cannot unwrap, or a
\* failing database, unwinds it, and the slot is discarded.
RewrapAll(p) ==
  /\ at[p] = "staged"
  /\ \/ /\ \A n \in Names : rows[n] \in {0, kek[p]}
        /\ rows' = [n \in Names |-> IF rows[n] = 0 THEN 0 ELSE next[p]]
        /\ recorded' = next[p]
        /\ kek' = [kek EXCEPT ![p] = next[p]]
        /\ Goto(p, "rewrapped")
        /\ UNCHANGED <<staged, next>>
     \/ /\ "rewrap" \in Faults \/ \E n \in Names : rows[n] \notin {0, kek[p]}
        /\ DiscardStaged
        /\ next' = [next EXCEPT ![p] = 0]
        /\ Goto(p, "open")
        /\ UNCHANGED <<database, kek>>
  /\ UNCHANGED <<live, minted>>

\* For mutation: the slot is cleaned up, not promoted.
PromoteDiscards(p) ==
  /\ at[p] = "rewrapped"
  /\ staged' = 0
  /\ next' = [next EXCEPT ![p] = 0]
  /\ Goto(p, "open")
  /\ UNCHANGED <<live, database, minted, kek>>

\* The slot is renamed over the key file.  The rename fails too when the slot
\* is gone; the storage stays in use either way.
Promote(p) ==
  /\ at[p] = "rewrapped"
  /\ \/ staged # 0 /\ live' = staged /\ staged' = 0
     \/ ("promote" \in Faults \/ staged = 0) /\ UNCHANGED files
  /\ next' = [next EXCEPT ![p] = 0]
  /\ Goto(p, "open")
  /\ UNCHANGED <<database, minted, kek>>

Rotate(p) == BeginRotation(p) \/ WriteSlot(p) \/ RewrapAll(p) \/ Promote(p)

Next ==
  \E p \in Processes :
    \/ LoadKek(p) \/ RecordFirst(p) \/ OpenMatching(p) \/ Recover(p) \/ Mismatch(p)
    \/ \E n \in Names : Put(p, n) \/ Delete(p, n)
    \/ Close(p) \/ Crash(p)
    \/ Rotate(p)

Spec == Init /\ [][Next]_vars

-----------------------------------------------------------------------------
(* Properties                                                              *)

TypeOK ==
  /\ live \in Key /\ staged \in Key /\ recorded \in Key
  /\ rows \in [Names -> Key]
  /\ minted \in Key
  /\ at \in [Processes -> Places]
  /\ kek \in [Processes -> Key]
  /\ next \in [Processes -> Key]
  /\ \A p \in Processes : kek[p] = 0 <=> at[p] = "closed"
  /\ \A p \in Processes : next[p] # 0 <=> at[p] \in {"truncated", "staged", "rewrapped"}

\* At every instant, so at every crash, a key on disk is the one the database
\* is wrapped under: the failure windows of a rotation "are both recoverable
\* rather than destructive" (key-provider.ts).
KeyNeverLost == recorded # 0 => recorded \in {live, staged}

\* No row is stranded: each is wrapped under the recorded key, whatever mix of
\* writes, half-done rotations and restarts went before.
RowsUnderRecordedKey == \A n \in Names : rows[n] \in {0, recorded}

\* A slot is only dropped or overwritten when it is stale: "a leftover slot
\* from an abandoned attempt is stale by definition" (key-provider.ts).
OnlyStaleSlotsDropped ==
  [][(staged # 0 /\ staged' # staged /\ live' # staged) => recorded # staged]_vars

\* The key file is only ever replaced by the key the database is wrapped
\* under, whatever a second process finds staged when it opens: recovery "is
\* not a second accepted key" (secret-repository.ts).
OnlyRecordedKeyPromoted ==
  [][(live # 0 /\ live' # live) => live' = recorded]_vars
=============================================================================
