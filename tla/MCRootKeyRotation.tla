--------------------------- MODULE MCRootKeyRotation ---------------------------
(***************************************************************************)
(* Instances of RootKeyRotation.  The owner of the directory is guaranteed *)
(* more than processes that share it, or a process that goes on after a    *)
(* failed promotion: a history variable says which of these has happened.  *)
(***************************************************************************)
EXTENDS RootKeyRotation, TLC

VARIABLE excused  \* the directory was shared, or a promotion failed

Users == {p \in Processes : at[p] # "closed"}
Shared == \E p, q \in Users : p # q
FailedPromotion == (\E p \in Users : Promote(p)) /\ UNCHANGED files

MCInit == Init /\ excused = FALSE
MCNext == Next /\ excused' = (excused \/ Shared' \/ FailedPromotion)
MCSpec == MCInit /\ [][MCNext]_<<vars, excused>>

\* A process that has the directory to itself never loses the key the database
\* is wrapped under, whatever is interrupted (secret-repository.ts open,
\* rotateManagedRootKey; key-provider.ts).
OwnerKeepsKey == excused \/ KeyNeverLost

\* Nor does it drop a slot that the database needs (key-provider.ts
\* beginRotation, discardRotation).
OwnerKeepsSlot ==
  [][~excused' /\ staged # 0 /\ staged' # staged /\ live' # staged
       => recorded # staged]_<<vars, excused>>

NameSymmetry == Permutations(Names)
=============================================================================
