-------------------------- MODULE DataDirectoryProofs --------------------------
(***************************************************************************)
(* What the data directory keeps, for any numbers of servers, releases,    *)
(* opens, faults and interventions.                                        *)
(***************************************************************************)
EXTENDS DataDirectory, WellFoundedInduction, TLAPS

\* A database tells the truth about its rows: the seal is not ahead of them,
\* what was edited has outrun it, and what differs from it has a reason.
DataSound(db) ==
  /\ db.seal <= db.rows
  /\ "edited" \in db.past => db.seal < db.rows
  /\ db.seal \notin {-1, db.rows} => db.past \cap {"edited", "unsealed"} # {}

\* The witness beside a database is not ahead of it unless it was put there so.
Witnessed(d) == d.witness <= d.live.opens \/ d.behind

SoundInv ==
  /\ DataSound(dir.main) /\ DataSound(dir.live)
  /\ DataSound(aside.main) /\ DataSound(aside.live)
  /\ DataSound(archive.db)

\* Where servers are, and that a directory somebody has open is there.
PlaceInv ==
  /\ ~dir.there => dir = Gone
  /\ ~aside.there => aside = Gone
  /\ \A p \in Pids : srv[p].phase \in {"none", "spawned"} => srv[p].in = "none"
  /\ \A p \in Pids : srv[p].phase = "none" => srv[p] = NoServer
  /\ \A p \in Pids : srv[p].in = "dir" => dir.there
  /\ \A p \in Pids : cmd.at = "swap" /\ srv[p].in = "aside" => aside.there

\* What a command knows at each of its steps: while it works nothing runs but
\* what a start gave up on, and it has the process id that the pidfile names.
CmdInv ==
  /\ cmd.at = "idle" => cmd = Idle
  /\ cmd.at \notin {"idle", "wait"} /\ cmd.op # "stop" => Alive # Pids
  /\ cmd.at = "start" => cmd.op # "stop"
  /\ cmd.at \in {"stop", "term"} => cmd.op \in {"stop", "restart", "backup", "restore"}
  /\ cmd.at \in {"work", "staged", "swap", "moved"} => cmd.op \in {"backup", "restore"}
  /\ cmd.at \in {"term", "wait"} => cmd.pid = dir.pid /\ cmd.pid \in Pids
  /\ cmd.at \in {"work", "staged", "swap", "moved"} => \A p \in Alive : srv[p].astray
  /\ ~gaveUp => \A p \in Alive : ~srv[p].astray

\* What holds as long as no start was given up, when there is one server at most:
\* it knows the head and the counter, and the log is in the main file once it
\* has closed.
LoneInv ==
  ~gaveUp =>
    /\ Witnessed(dir)
    /\ Connected = {} => dir.main = dir.live \/ dir.unclean
    /\ \A p \in Connected :
         /\ srv[p].phase = "open" => dir.live.head <= srv[p].build
         /\ srv[p].phase # "open" => dir.live.head = srv[p].build
         /\ srv[p].phase = "counted" => srv[p].opens = dir.live.opens
    /\ cmd.at \in {"swap", "moved"} =>
         /\ Witnessed(aside)
         /\ aside.main = aside.live \/ aside.unclean

\* A restore under way has copied what it moves.
CopyInv ==
  ~gaveUp =>
    /\ cmd.at = "staged" => dir.unclean \/ dir = Gone \/ safety = dir.main
    /\ cmd.at \in {"swap", "moved"} => aside.unclean \/ aside = Gone \/ safety = aside.main

DirInv == /\ TypeOK /\ PlaceInv /\ CmdInv /\ SoundInv /\ LoneInv /\ CopyInv
          /\ ServerIsFindable /\ SnapshotIsWhole

USE DirectoryAssumption

-----------------------------------------------------------------------------
(* Helpers                                                                 *)

LEMMA MinOfTwo ==
  ASSUME NEW a \in Int, NEW b \in Int
  PROVE  Min({a, b}) = IF a <= b THEN a ELSE b
BY DEF Min

LEMMA MaxOfTwo ==
  ASSUME NEW a \in Int, NEW b \in Int
  PROVE  Max({a, b}) = IF a >= b THEN a ELSE b
BY DEF Max

\* A nonempty set of process ids has a least one.
LEMMA LeastPid ==
  ASSUME NEW S \in SUBSET Pids, S # {}
  PROVE  Min(S) \in S
<1>1. S \subseteq Nat
  BY DEF Pids
<1>2. PICK m \in S : \A i \in S : ~ (<<i, m>> \in OpToRel(<, Nat))
  BY <1>1, NatLessThanWellFounded, WFMin
<1>3. ASSUME NEW i \in S PROVE m <= i
  <2>1. ~ (i < m)
    BY <1>1, <1>2 DEF OpToRel
  <2> QED
    BY <1>1, <2>1
<1> QED
  BY <1>2, <1>3 DEF Min

-----------------------------------------------------------------------------
(* Types                                                                   *)

LEMMA Constants ==
  /\ Empty.past = {} /\ Empty.rows = 0 /\ Empty.seal = -1 /\ Empty.opens = 0
  /\ Fresh.main = Empty /\ Fresh.live = Empty /\ Fresh.witness = 0
  /\ Gone.main = Empty /\ Gone.live = Empty /\ Gone.witness = 0
  /\ Gone.pid = NoPid /\ Fresh.pid = NoPid /\ NoPid \notin Pids
  /\ ~Gone.there /\ Fresh.there
BY DEF Empty, Gone, Fresh, NoPid, Pids

LEMMA Types == Empty \in Database /\ Fresh \in Directory /\ Gone \in Directory
<1>1. Empty \in Database
  BY DEF Empty, Database, Builds
<1>2. Fresh \in Directory
  BY <1>1 DEF Empty, Fresh, Directory, NoPid, Pids
<1>3. Gone \in Directory
  BY <1>2 DEF Gone, Directory
<1> QED
  BY <1>1, <1>2, <1>3

LEMMA InitDirInv == Init => DirInv
<1> SUFFICES ASSUME Init PROVE DirInv
  OBVIOUS
<1> USE DEF Init
<1>1. TypeOK
  <2>1. dir \in Directory /\ aside \in Directory /\ safety \in Database
    BY Types
  <2>2. /\ NoServer \in Servers /\ Idle \in Commands
    BY DEF NoServer, Servers, Idle, Commands, Builds, Opening
  <2>3. NoArchive \in Archives
    BY Types DEF NoArchive, Archives
  <2>4. srv \in [Pids -> Servers] /\ faults \in 0..MaxFaults /\ meddling \in 0..MaxMeddling
    BY <2>2
  <2> QED
    BY <2>1, <2>2, <2>3, <2>4, Zenon DEF TypeOK
<1>2. Alive = {} /\ Connected = {}
  BY DEF Alive, Connected, NoServer, Opening
<1>3. PlaceInv /\ CmdInv
  BY <1>2 DEF PlaceInv, CmdInv, NoServer, Idle
<1>4. SoundInv
  BY Constants DEF SoundInv, DataSound, Witnessed, NoArchive, Empty
<1>5. LoneInv /\ CopyInv
  BY <1>2, Constants DEF LoneInv, CopyInv, Witnessed, Idle, Gone, Fresh, Empty
<1>6. ServerIsFindable /\ SnapshotIsWhole
  BY <1>2 DEF ServerIsFindable, SnapshotIsWhole, NoArchive
<1> QED
  BY <1>1, <1>3, <1>4, <1>5, <1>6 DEF DirInv

-----------------------------------------------------------------------------
(* Each step keeps the types                                               *)

\* The parts of the type invariant that the steps of a server may change.
ServerTypes == /\ dir \in Directory /\ srv \in [Pids -> Servers]
               /\ faults \in 0..MaxFaults

LEMMA PhaseTypes ==
  ASSUME TypeOK, NEW p \in Pids
  PROVE  /\ srv[p] \in Servers
         /\ \A phase \in Opening \cup {"up", "stopping"} :
              Phase(p, phase) => srv' \in [Pids -> Servers]
         /\ Ends(p) => srv' \in [Pids -> Servers]
         /\ \A d \in Directory : Closed(p, d) \in Directory
         /\ Die(p) => dir' \in Directory /\ srv' \in [Pids -> Servers]
         /\ MayFault => faults' \in 0..MaxFaults
<1>1. srv[p] \in Servers
  BY DEF TypeOK
<1>2. NoServer \in Servers
  BY DEF NoServer, Servers, Builds
<1>3. ASSUME NEW phase \in Opening \cup {"up", "stopping"}, Phase(p, phase)
      PROVE  srv' \in [Pids -> Servers]
  BY <1>1, <1>3 DEF Phase, TypeOK, Servers
<1>4. Ends(p) => srv' \in [Pids -> Servers]
  BY <1>2 DEF Ends, TypeOK
<1>5. \A d \in Directory : Closed(p, d) \in Directory
  BY DEF Closed, Directory
<1>6. Die(p) => dir' \in Directory /\ srv' \in [Pids -> Servers]
  BY <1>4 DEF Die, TypeOK, Directory
<1>7. MayFault => faults' \in 0..MaxFaults
  BY DEF MayFault, TypeOK
<1> QED
  BY <1>1, <1>3, <1>4, <1>5, <1>6, <1>7

\* Rows change, are sealed, and a database is put in place.
LEMMA LiveTypes ==
  ASSUME NEW db \in Database
  PROVE  /\ \A why \in {"edited", "unsealed"} : db.rows < MaxChanges =>
              [db EXCEPT !.rows = @ + 1, !.past = @ \cup {why}] \in Database
         /\ [db EXCEPT !.seal = db.rows, !.past = @ \ {"edited", "unsealed"}] \in Database
<1>1. /\ db.past \subseteq {"edited", "unsealed"}
      /\ db.rows \in 0..MaxChanges /\ db.seal \in -1..MaxChanges
  BY DEF Database
<1>2. ASSUME NEW why \in {"edited", "unsealed"}, db.rows < MaxChanges
      PROVE  [db EXCEPT !.rows = @ + 1, !.past = @ \cup {why}] \in Database
  <2>1. db.past \cup {why} \in SUBSET {"edited", "unsealed"}
    BY <1>1
  <2>2. db.rows + 1 \in 0..MaxChanges
    BY <1>1, <1>2
  <2> QED
    BY <2>1, <2>2 DEF Database
<1>3. [db EXCEPT !.seal = db.rows, !.past = @ \ {"edited", "unsealed"}] \in Database
  <2>1. db.past \ {"edited", "unsealed"} \in SUBSET {"edited", "unsealed"}
    BY <1>1
  <2>2. db.rows \in -1..MaxChanges
    BY <1>1
  <2> QED
    BY <2>1, <2>2 DEF Database
<1> QED
  BY <1>2, <1>3

\* What is put in place beside a witness.
InPlace(d, db, witness) ==
  /\ d.main = db /\ d.live = db /\ d.witness = witness
  /\ d.behind = (db.opens < witness)
Restored == Placed([Fresh EXCEPT !.witness = archive.witness])

LEMMA PlacedTypes ==
  ASSUME NEW d \in Directory, archive.db \in Database
  PROVE  /\ Placed(d) \in Directory /\ Placed(d).there = d.there
         /\ InPlace(Placed(d), archive.db, d.witness)
<1> DEFINE behind == archive.db.opens < d.witness
<1>1. behind \in BOOLEAN
  OBVIOUS
<1> HIDE DEF behind
<1>2. LET e == [d EXCEPT !.main = archive.db, !.live = archive.db, !.behind = behind]
      IN  /\ e \in Directory /\ e.there = d.there
          /\ e.main = archive.db /\ e.live = archive.db /\ e.witness = d.witness
          /\ e.behind = behind
  BY <1>1 DEF Directory
<1> QED
  BY <1>2 DEF Placed, InPlace, behind

LEMMA RestoredTypes ==
  ASSUME archive \in Archives
  PROVE  /\ Restored \in Directory /\ Restored.there
         /\ InPlace(Restored, archive.db, archive.witness)
<1> DEFINE d == [Fresh EXCEPT !.witness = archive.witness]
<1>1. d \in Directory /\ d.there /\ d.witness = archive.witness
  BY Types DEF Archives, Directory, Fresh
<1> QED
  BY <1>1, PlacedTypes DEF Restored, Archives

LEMMA ServerKeepsTypes ==
  ASSUME TypeOK, NEW p \in Pids, Server(p) \/ Crash(p)
  PROVE  ServerTypes'
<1> USE DEF OnlyServers
<1>0. /\ dir \in Directory /\ srv \in [Pids -> Servers] /\ faults \in 0..MaxFaults
      /\ srv[p] \in Servers
  BY PhaseTypes DEF TypeOK
<1>1. CASE Open(p)
  <2> DEFINE d == IF dir.there THEN dir ELSE Fresh
  <2>1. d \in Directory
    BY <1>0, Types
  <2>2. CASE d.live.head > srv[p].build
    BY <1>0, <1>1, <2>1, <2>2, PhaseTypes DEF Open, ServerTypes
  <2>3. CASE ~(d.live.head > srv[p].build)
    BY <1>0, <1>1, <2>1, <2>3 DEF Open, ServerTypes, Servers, Opening
  <2> QED
    BY <2>2, <2>3
<1>2. CASE Migrate(p)
  <2>1. dir.live.head + 1 \in {0} \cup Builds
    BY <1>0, <1>2 DEF Migrate, Directory, Database, Servers, Builds
  <2> QED
    BY <1>0, <1>2, <2>1 DEF Migrate, ServerTypes, Directory, Database
<1>3. CASE Check(p)
  <2>1. ChainOf(p) \in {0} \cup Builds
    BY <1>0, MinOfTwo DEF ChainOf, Directory, Database, Servers, Builds
  <2>2. CASE RefusesChain(p)
    BY <1>0, <1>3, <2>2, PhaseTypes DEF Check, ServerTypes
  <2>3. CASE ~RefusesChain(p)
    <3>1. dir' \in Directory
      BY <1>0, <1>3, <2>1, <2>3 DEF Check, Directory, Database
    <3> QED
      BY <1>0, <1>3, <2>3, <3>1, PhaseTypes DEF Check, ServerTypes, Opening
  <2> QED
    BY <2>2, <2>3
<1>4. CASE Count(p)
  <2> DEFINE behind == dir.behind /\ dir.live.opens + 1 < dir.witness
  <2>0. behind \in BOOLEAN
    OBVIOUS
  <2> HIDE DEF behind
  <2>1. dir' \in Directory
    <3>1. dir' = [dir EXCEPT !.live.opens = @ + 1, !.behind = behind]
      BY <1>4 DEF Count, behind
    <3>2. [dir.live EXCEPT !.opens = @ + 1] \in Database
      BY <1>0 DEF Directory, Database
    <3>3. dir' = [dir EXCEPT !.live = [dir.live EXCEPT !.opens = @ + 1], !.behind = behind]
      BY <3>1
    <3> QED
      BY <1>0, <2>0, <3>2, <3>3, Zenon DEF Directory
  <2>2. dir.live.opens + 1 \in Nat
    BY <1>0 DEF Directory, Database
  <2>3. srv' \in [Pids -> Servers]
    BY <1>0, <1>4, <2>2 DEF Count, Servers, Opening
  <2> QED
    BY <1>0, <1>4, <2>1, <2>3 DEF Count, ServerTypes
<1>5. CASE Witness(p)
  <2>1. dir' \in Directory
    BY <1>0, <1>5, MaxOfTwo DEF Witness, Directory, Servers
  <2>2. srv' \in [Pids -> Servers]
    BY <1>0, <1>5 DEF Witness, Servers, Opening
  <2> QED
    BY <1>0, <1>5, <2>1, <2>2, PhaseTypes DEF Witness, ServerTypes
<1>6. CASE Ready(p) \/ OpenUnlinked(p)
  BY <1>0, <1>6, PhaseTypes DEF Ready, OpenUnlinked, ServerTypes, Opening
<1>7. CASE Listen(p)
  <2>1. dir' \in Directory
    <3>1. dir' = dir \/ dir' = [dir EXCEPT !.ready = TRUE] \/ Die(p)
      BY <1>7 DEF Listen
    <3> QED
      BY <1>0, <3>1, PhaseTypes DEF Directory
  <2> QED
    BY <1>0, <1>7, <2>1, PhaseTypes DEF Listen, ServerTypes, Opening
<1>8. CASE Change(p)
  <2>1. [dir.live EXCEPT !.rows = @ + 1, !.past = @ \cup {"unsealed"}] \in Database
    <3>1. dir.live \in Database /\ dir.live.rows < MaxChanges
      BY <1>0, <1>8 DEF Change, Directory
    <3> QED
      BY <3>1, LiveTypes
  <2> QED
    BY <1>0, <1>8, <2>1 DEF Change, ServerTypes, Directory
<1>9. CASE Finish(p)
  <2> DEFINE d == [dir EXCEPT !.live.seal = dir.live.rows,
                              !.live.past = @ \ {"edited", "unsealed"}]
  <2>1. d \in Directory
    BY <1>0, LiveTypes DEF Directory
  <2> QED
    BY <1>0, <1>9, <2>1, PhaseTypes DEF Finish, ServerTypes
<1>10. CASE Crash(p)
  BY <1>0, <1>10, PhaseTypes DEF Crash, ServerTypes
<1> QED
  BY <1>1, <1>2, <1>3, <1>4, <1>5, <1>6, <1>7, <1>8, <1>9, <1>10 DEF Server

\* Commands.
CommandTypes == /\ dir \in Directory /\ aside \in Directory /\ safety \in Database
                /\ srv \in [Pids -> Servers] /\ cmd \in Commands /\ archive \in Archives
                /\ gaveUp \in BOOLEAN /\ faults \in 0..MaxFaults

LEMMA GoOnTypes ==
  ASSUME TypeOK
  PROVE  /\ Over => cmd' \in Commands
         /\ GoOn(AfterStop) \/ GoOn(AfterWork) => cmd' \in Commands
         /\ \A at \in {"staged", "swap", "moved"} : At(at) => cmd' \in Commands
         /\ removePid => dir' \in Directory
         /\ \A a, b \in {"dir", "aside", "lost"} : Moved(a, b) \in [Pids -> Servers]
<1>1. Idle \in Commands /\ cmd \in Commands
  BY DEF TypeOK, Idle, Commands
<1>2. Over => cmd' \in Commands
  BY <1>1 DEF Over
<1>3. ASSUME NEW at \in {"idle", "start", "work"}, GoOn(at) PROVE cmd' \in Commands
  BY <1>1, <1>2, <1>3 DEF GoOn, Idle, Commands
<1>4. AfterStop \in {"idle", "start", "work"} /\ AfterWork \in {"idle", "start", "work"}
  BY DEF AfterStop, AfterWork
<1>5. \A at \in {"staged", "swap", "moved"} : At(at) => cmd' \in Commands
  BY <1>1 DEF At, Commands
<1>6. removePid => dir' \in Directory
  BY DEF removePid, TypeOK, Directory
<1>7. \A a, b \in {"dir", "aside", "lost"} : Moved(a, b) \in [Pids -> Servers]
  BY DEF Moved, TypeOK, Servers
<1> QED
  BY <1>2, <1>3, <1>4, <1>5, <1>6, <1>7

LEMMA CommandKeepsTypes ==
  ASSUME TypeOK, CmdInv, Command
  PROVE  CommandTypes'
<1> USE DEF OnlyCommand, Files
<1>0. CommandTypes /\ TypeOK
  BY DEF TypeOK, CommandTypes
<1>1. CASE StopSignal
  <2>1. CASE ~isAlive(readPid)
    BY <1>0, <1>1, <2>1, GoOnTypes DEF StopSignal, CommandTypes
  <2>2. CASE isAlive(readPid)
    <3>1. PICK p \in Pids : p = readPid
      BY <2>2 DEF isAlive, Alive
    <3>2. dir' \in Directory /\ srv' \in [Pids -> Servers]
      <4>1. (Phase(p, "stopping") /\ UNCHANGED dir) \/ Die(p)
        BY <1>1, <2>2, <3>1 DEF StopSignal, Sigterm
      <4> QED
        BY <1>0, <4>1, PhaseTypes DEF CommandTypes
    <3>3. cmd' \in Commands
      BY <1>0, <1>1, <2>2, <3>1 DEF StopSignal, Commands, CommandTypes
    <3> QED
      BY <1>0, <1>1, <2>2, <3>2, <3>3 DEF StopSignal, CommandTypes
  <2> QED
    BY <2>1, <2>2
<1>2. CASE StopKill
  BY <1>0, <1>2, PhaseTypes DEF StopKill, CommandTypes, isAlive, Alive
<1>3. CASE StopDone
  BY <1>0, <1>3, GoOnTypes DEF StopDone, CommandTypes
<1>4. CASE Start
  <2>1. CASE isAlive(readPid)
    BY <1>0, <1>4, <2>1, GoOnTypes DEF Start, CommandTypes
  <2>2. CASE ~isAlive(readPid)
    <3> DEFINE p == Min(Pids \ Alive)
    <3>1. p \in Pids
      BY <1>4, LeastPid DEF CmdInv, Start, Alive
    <3>2. [NoServer EXCEPT !.phase = "spawned", !.build = build] \in Servers
      BY <1>0 DEF NoServer, Servers, Opening, CommandTypes, TypeOK
    <3>3. srv' \in [Pids -> Servers]
      BY <1>0, <1>4, <2>2, <3>1, <3>2 DEF Start, CommandTypes
    <3>4. dir' \in Directory
      BY <1>0, <1>4, <2>2, <3>1, Types DEF Start, CommandTypes, Directory
    <3>5. cmd' \in Commands
      BY <1>0, <1>4, <2>2, <3>1 DEF Start, CommandTypes, Commands
    <3> QED
      BY <1>0, <1>4, <3>3, <3>4, <3>5 DEF Start, CommandTypes
  <2> QED
    BY <2>1, <2>2
<1>5. CASE WaitReady
  BY <1>0, <1>5, GoOnTypes DEF WaitReady, CommandTypes
<1>6. CASE WaitFails
  <2>1. dir' \in Directory /\ cmd' \in Commands
    BY <1>0, <1>6, GoOnTypes DEF WaitFails
  <2>2. srv' \in [Pids -> Servers] /\ faults' \in 0..MaxFaults /\ gaveUp' \in BOOLEAN
    <3>1. CASE UNCHANGED <<srv, gaveUp, faults>>
      BY <1>0, <3>1 DEF CommandTypes
    <3>2. CASE /\ isAlive(cmd.pid) /\ MayFault /\ gaveUp' = TRUE
               /\ srv' = [srv EXCEPT ![cmd.pid].astray = TRUE]
      <4>1. cmd.pid \in Pids
        BY <3>2 DEF isAlive, Alive
      <4>2. [srv[cmd.pid] EXCEPT !.astray = TRUE] \in Servers
        BY ZenonT(60), <1>0, <4>1 DEF CommandTypes, Servers
      <4>3. srv' \in [Pids -> Servers]
        BY <1>0, <3>2, <4>2 DEF CommandTypes
      <4> QED
        BY <1>0, <3>2, <4>1, <4>3, PhaseTypes
    <3> QED
      BY <1>6, <3>1, <3>2 DEF WaitFails
  <2> QED
    BY <1>0, <1>6, <2>1, <2>2 DEF WaitFails, CommandTypes
<1>7. CASE Backup
  <2>1. dir.main \in Database
    BY <1>0 DEF CommandTypes, Directory
  <2>2. archive' \in Archives
    BY <1>0, <1>7, <2>1 DEF Backup, CommandTypes, Archives, Directory
  <2> QED
    BY <1>0, <1>7, <2>2, GoOnTypes DEF Backup, CommandTypes
<1>8. CASE \E replace \in BOOLEAN : Stage(replace)
  BY <1>0, <1>8, GoOnTypes DEF Stage, CommandTypes, Directory
<1>9. CASE MoveAside
  BY <1>0, <1>9, Types, GoOnTypes DEF MoveAside, CommandTypes
<1>10. CASE MoveIn
  <2>1. CASE /\ ~dir.there /\ At("moved") /\ UNCHANGED <<srv, aside, safety, faults>>
             /\ dir' = Restored
    <3>1. dir' \in Directory
      BY <1>0, <2>1, RestoredTypes DEF CommandTypes, Archives
    <3> QED
      BY <1>0, <1>10, <2>1, <3>1, GoOnTypes DEF MoveIn, CommandTypes
  <2>2. CASE /\ IF dir.there THEN UNCHANGED faults ELSE MayFault
             /\ GoOn(AfterWork)
             /\ IF aside.there
                THEN dir' = aside /\ srv' = Moved("lost", "dir")
                ELSE UNCHANGED <<dir, srv>>
             /\ aside' = Gone /\ safety' = Empty
    <3>1. faults' \in 0..MaxFaults
      BY <1>0, <2>2 DEF CommandTypes, MayFault
    <3>2. dir' \in Directory /\ srv' \in [Pids -> Servers]
      BY <1>0, <2>2, GoOnTypes DEF CommandTypes
    <3> QED
      BY <1>0, <1>10, <2>2, <3>1, <3>2, Types, GoOnTypes DEF MoveIn, CommandTypes
  <2> QED
    BY <1>10, <2>1, <2>2 DEF MoveIn, Restored
<1>11. CASE RemoveOld
  BY <1>0, <1>11, Types, GoOnTypes DEF RemoveOld, CommandTypes
<1> QED
  BY <1>1, <1>2, <1>3, <1>4, <1>5, <1>6, <1>7, <1>8, <1>9, <1>10, <1>11 DEF Command

-----------------------------------------------------------------------------
(* What a step of a server does to processes and directories               *)

LEMMA PhaseEffects ==
  ASSUME TypeOK, PlaceInv, NEW p \in Pids
  PROVE  /\ Ends(p) => /\ srv'[p] = NoServer
                       /\ \A q \in Pids \ {p} : srv'[q] = srv[q]
         /\ \A d \in Directory : /\ Closed(p, d).there = d.there
                                 /\ Closed(p, d).pid = d.pid
                                 /\ Closed(p, d).witness = d.witness
                                 /\ Closed(p, d).live = d.live
         /\ Die(p) => /\ dir'.there = dir.there /\ dir'.pid = dir.pid
                      /\ dir'.live = dir.live /\ dir'.main = dir.main
                      /\ dir'.witness = dir.witness
                      /\ dir' = dir \/ dir.there
                      /\ p \in Connected => dir'.unclean
                      /\ dir.unclean => dir'.unclean
<1>1. Ends(p) => /\ srv'[p] = NoServer
                 /\ \A q \in Pids \ {p} : srv'[q] = srv[q]
  BY DEF Ends, TypeOK
<1>2. \A d \in Directory : /\ Closed(p, d).there = d.there
                           /\ Closed(p, d).pid = d.pid
                           /\ Closed(p, d).witness = d.witness
                           /\ Closed(p, d).live = d.live
  BY DEF Closed, Directory
<1>3. Die(p) => /\ dir'.there = dir.there /\ dir'.pid = dir.pid
                /\ dir'.live = dir.live /\ dir'.main = dir.main
                /\ dir'.witness = dir.witness
                /\ dir' = dir \/ dir.there
                /\ p \in Connected => dir'.unclean
                /\ dir.unclean => dir'.unclean
  <2>1. p \in Connected => dir.there
    BY DEF PlaceInv, Connected, Alive
  <2> QED
    BY <2>1 DEF Die, TypeOK, Directory
<1> QED
  BY <1>1, <1>2, <1>3

\* A server that goes on stays itself, in its directory or in the one it opens;
\* it neither removes a directory nor touches the pidfile.
ServerStays(p) ==
  \/ srv'[p] = NoServer
  \/ /\ srv'[p].phase \in {"open", "checked", "counted", "witnessed", "ready", "up", "stopping"}
     /\ srv'[p].in \in {srv[p].in, "dir"}
     /\ srv'[p].in = "dir" => dir'.there
     /\ srv'[p].astray = srv[p].astray
     /\ srv'[p].build = srv[p].build

ServerEffect(p) ==
  /\ p \in Alive
  /\ \A q \in Pids \ {p} : srv'[q] = srv[q]
  /\ ServerStays(p)
  /\ dir' = dir \/ dir'.there
  /\ dir.there => dir'.there
  /\ dir'.pid = dir.pid

LEMMA ServerEffects ==
  ASSUME TypeOK, PlaceInv, NEW p \in Pids, Server(p) \/ Crash(p)
  PROVE  ServerEffect(p)
<1>0. /\ dir \in Directory /\ srv \in [Pids -> Servers] /\ srv[p] \in Servers
      /\ srv[p].in = "dir" => dir.there
      /\ ~dir.there => dir = Gone
  BY DEF TypeOK, PlaceInv
<1> USE DEF ServerEffect, ServerStays
<1>1. CASE Open(p)
  <2> DEFINE d == IF dir.there THEN dir ELSE Fresh
  <2>1. d \in Directory /\ d.there /\ d.pid = dir.pid
    BY <1>0, Types, Constants
  <2>2. p \in Alive
    BY <1>1 DEF Open, Alive, Opening
  <2>3. CASE d.live.head > srv[p].build
    BY <1>0, <1>1, <2>1, <2>2, <2>3, PhaseEffects DEF Open
  <2>4. CASE ~(d.live.head > srv[p].build)
    BY <1>0, <1>1, <2>1, <2>2, <2>4 DEF Open, Servers
  <2> QED
    BY <2>3, <2>4
<1>2. CASE Migrate(p)
  BY <1>0, <1>2 DEF Migrate, Directory, Alive, Opening
<1>3. CASE Check(p)
  <2>1. p \in Alive
    BY <1>3 DEF Check, Alive, Opening
  <2>2. CASE RefusesChain(p)
    BY <1>0, <1>3, <2>1, <2>2, PhaseEffects DEF Check
  <2>3. CASE ~RefusesChain(p)
    BY <1>0, <1>3, <2>1, <2>3 DEF Check, Phase, Directory, Servers
  <2> QED
    BY <2>2, <2>3
<1>4. CASE Count(p)
  BY <1>0, <1>4 DEF Count, Directory, Servers, Alive, Opening
<1>5. CASE Witness(p)
  BY <1>0, <1>5 DEF Witness, Directory, Servers, Alive, Opening
<1>6. CASE Ready(p) \/ OpenUnlinked(p)
  BY <1>0, <1>6 DEF Ready, OpenUnlinked, Phase, Servers, Alive, Opening
<1>7. CASE Listen(p)
  <2>1. p \in Alive
    BY <1>7 DEF Listen, Alive, Opening
  <2>2. CASE Die(p)
    BY <1>0, <2>1, <2>2, PhaseEffects DEF Die
  <2>3. CASE /\ Phase(p, "up")
             /\ dir' = IF srv[p].in = "dir" THEN [dir EXCEPT !.ready = TRUE] ELSE dir
    BY <1>0, <2>1, <2>3 DEF Phase, Servers, Directory
  <2> QED
    BY <1>7, <2>2, <2>3 DEF Listen
<1>8. CASE Change(p)
  BY <1>0, <1>8 DEF Change, Directory, Alive, Opening
<1>9. CASE Finish(p)
  <2> DEFINE d == [dir EXCEPT !.live.seal = dir.live.rows,
                              !.live.past = @ \ {"edited", "unsealed"}]
  <2>1. p \in Alive
    BY <1>9 DEF Finish, Alive
  <2>2. d.there = dir.there /\ d.pid = dir.pid /\ d \in Directory
    BY <1>0, LiveTypes DEF Directory
  <2> QED
    BY <1>0, <1>9, <2>1, <2>2, PhaseEffects DEF Finish
<1>10. CASE Crash(p)
  BY <1>0, <1>10, PhaseEffects DEF Crash, Die
<1> QED
  BY <1>1, <1>2, <1>3, <1>4, <1>5, <1>6, <1>7, <1>8, <1>9, <1>10 DEF Server

LEMMA ServerKeepsPlaces ==
  ASSUME TypeOK, PlaceInv, CmdInv, ServerIsFindable,
         NEW p \in Pids, Server(p) \/ Crash(p)
  PROVE  PlaceInv' /\ CmdInv' /\ ServerIsFindable'
<1>1. ServerEffect(p) /\ UNCHANGED <<cmd, aside, gaveUp>>
  BY ServerEffects DEF Server, Crash, OnlyServers, Open, Migrate, Check, Count, Witness,
     Ready, OpenUnlinked, Listen, Change, Finish
<1>2. Alive' \subseteq Alive
  BY <1>1 DEF ServerEffect, Alive
<1>3. \A q \in Alive' : srv'[q].astray = srv[q].astray
  BY <1>1 DEF ServerEffect, ServerStays, Alive, NoServer, Opening
<1>4. PlaceInv'
  <2>1. dir'.there \/ dir' = Gone
    BY <1>1 DEF PlaceInv, ServerEffect
  <2>2. ASSUME NEW q \in Pids
        PROVE  /\ srv'[q].phase \in {"none", "spawned"} => srv'[q].in = "none"
               /\ srv'[q].phase = "none" => srv'[q] = NoServer
               /\ srv'[q].in = "dir" => dir'.there
               /\ cmd'.at = "swap" /\ srv'[q].in = "aside" => aside'.there
    <3>1. CASE q # p
      BY <1>1, <3>1 DEF PlaceInv, ServerEffect
    <3>2. CASE q = p
      BY <1>1, <3>2 DEF PlaceInv, ServerEffect, ServerStays, NoServer
    <3> QED
      BY <3>1, <3>2
  <2> QED
    BY <1>1, <2>1, <2>2 DEF PlaceInv
<1>5. CmdInv'
  BY <1>1, <1>2, <1>3 DEF CmdInv, ServerEffect, Alive
<1>6. ServerIsFindable'
  BY <1>1, <1>2, <1>3 DEF ServerIsFindable, ServerEffect, readPid
<1> QED
  BY <1>4, <1>5, <1>6

-----------------------------------------------------------------------------
(* What a step of a command does to them                                   *)

LEMMA GoesOn ==
  ASSUME TypeOK
  PROVE  /\ Over => cmd' = Idle
         /\ GoOn(AfterStop) =>
              /\ cmd'.at \in {"idle", "start", "work"}
              /\ cmd.op = "stop" => cmd' = Idle
              /\ cmd'.at = "idle" => cmd' = Idle
              /\ cmd'.at = "start" => cmd'.op = "start"
              /\ cmd'.at = "work" => cmd'.op = cmd.op /\ cmd.op \notin {"stop", "restart"}
         /\ GoOn(AfterWork) =>
              /\ cmd'.at \in {"idle", "start"}
              /\ cmd'.at = "idle" => cmd' = Idle
              /\ cmd'.at = "start" => cmd'.op = "start"
         /\ \A at \in {"staged", "swap", "moved"} :
              At(at) => cmd'.at = at /\ cmd'.op = cmd.op
         /\ removePid => /\ dir' \in Directory /\ dir'.pid = NoPid
                         /\ dir'.there = dir.there /\ dir'.live = dir.live
                         /\ dir'.main = dir.main /\ dir'.witness = dir.witness
                         /\ dir'.unclean = dir.unclean /\ dir'.behind = dir.behind
                         /\ dir = Gone => dir' = Gone
<1>1. Idle \in Commands /\ cmd \in Commands /\ dir \in Directory /\ Idle.at = "idle"
  BY DEF TypeOK, Idle, Commands
<1>2. Over => cmd' = Idle
  BY DEF Over
<1>3. ASSUME NEW at \in {"idle", "start", "work"}, GoOn(at)
      PROVE  /\ at = "idle" => cmd' = Idle
             /\ at = "start" => cmd'.at = "start" /\ cmd'.op = "start"
             /\ at = "work" => cmd'.at = "work" /\ cmd'.op = cmd.op
  BY <1>1, <1>2, <1>3 DEF GoOn, Idle, Commands
<1>4. GoOn(AfterStop) =>
        /\ cmd'.at \in {"idle", "start", "work"}
        /\ cmd.op = "stop" => cmd' = Idle
        /\ cmd'.at = "idle" => cmd' = Idle
        /\ cmd'.at = "start" => cmd'.op = "start"
        /\ cmd'.at = "work" => cmd'.op = cmd.op /\ cmd.op \notin {"stop", "restart"}
  BY <1>1, <1>3 DEF AfterStop
<1>5. GoOn(AfterWork) =>
        /\ cmd'.at \in {"idle", "start"}
        /\ cmd'.at = "idle" => cmd' = Idle
        /\ cmd'.at = "start" => cmd'.op = "start"
  BY <1>1, <1>3 DEF AfterWork
<1>6. \A at \in {"staged", "swap", "moved"} : At(at) => cmd'.at = at /\ cmd'.op = cmd.op
  BY <1>1 DEF At, Commands
<1>7. removePid => /\ dir' \in Directory /\ dir'.pid = NoPid
                   /\ dir'.there = dir.there /\ dir'.live = dir.live
                   /\ dir'.main = dir.main /\ dir'.witness = dir.witness
                   /\ dir'.unclean = dir.unclean /\ dir'.behind = dir.behind
                   /\ dir = Gone => dir' = Gone
  <2>1. [Gone EXCEPT !.pid = NoPid] = Gone
    BY Types, Constants DEF Directory
  <2> QED
    BY <1>1, <2>1 DEF removePid, Directory
<1> QED
  BY <1>2, <1>4, <1>5, <1>6, <1>7

LEMMA SignalEffects ==
  ASSUME TypeOK, PlaceInv, NEW p \in Pids, Sigterm(p) \/ Die(p), p \in Alive
  PROVE  ServerEffect(p)
<1>0. /\ dir \in Directory /\ srv \in [Pids -> Servers] /\ srv[p] \in Servers
      /\ srv[p].in = "dir" => dir.there
  BY DEF TypeOK, PlaceInv
<1>1. CASE Die(p)
  BY <1>0, <1>1, PhaseEffects DEF Die, ServerEffect, ServerStays
<1>2. CASE Phase(p, "stopping") /\ UNCHANGED dir
  BY <1>0, <1>2 DEF Phase, ServerEffect, ServerStays, Servers
<1> QED
  BY <1>1, <1>2 DEF Sigterm

\* Renaming moves servers, and nothing else about them.
LEMMA MovedServers ==
  ASSUME TypeOK, NEW a \in {"dir", "aside", "lost"}, NEW b \in {"dir", "aside", "lost"},
         NEW p \in Pids
  PROVE  /\ Moved(a, b)[p].phase = srv[p].phase
         /\ Moved(a, b)[p].astray = srv[p].astray
         /\ Moved(a, b)[p].in = CASE srv[p].in = "dir" -> a
                                  [] srv[p].in = "aside" -> b
                                  [] OTHER -> srv[p].in
         /\ srv[p].in = "none" => Moved(a, b)[p] = srv[p]
BY DEF Moved, TypeOK, Servers

LEMMA CommandKeepsPlaces ==
  ASSUME TypeOK, PlaceInv, CmdInv, Command
  PROVE  PlaceInv'
<1> USE DEF OnlyCommand, Files
<1>0. /\ dir \in Directory /\ aside \in Directory /\ srv \in [Pids -> Servers]
      /\ cmd \in Commands
  BY DEF TypeOK
<1>1. CASE StopSignal
  <2>1. CASE ~isAlive(readPid)
    BY <1>0, <1>1, <2>1, GoesOn DEF StopSignal, PlaceInv, Idle
  <2>2. CASE isAlive(readPid)
    <3>1. PICK p \in Pids : p = readPid /\ p \in Alive
      BY <2>2 DEF isAlive, Alive
    <3>2. ServerEffect(p)
      <4>1. Sigterm(p)
        BY <1>1, <2>2, <3>1 DEF StopSignal, Sigterm, Phase, Die, Ends
      <4> QED
        BY <3>1, <4>1, SignalEffects
    <3>3. cmd'.at = "term" /\ aside' = aside
      BY <1>0, <1>1, <2>2 DEF StopSignal, Commands
    <3> QED
      BY <3>2, <3>3 DEF PlaceInv, ServerEffect, ServerStays, NoServer
  <2> QED
    BY <2>1, <2>2
<1>2. CASE StopKill
  <2>1. PICK p \in Pids : p = cmd.pid /\ p \in Alive
    BY <1>2 DEF StopKill, isAlive, Alive
  <2>2. ServerEffect(p)
    BY <1>2, <2>1, SignalEffects DEF StopKill, Die, Ends
  <2> QED
    BY <1>2, <2>2 DEF StopKill, PlaceInv, ServerEffect, ServerStays, NoServer
<1>3. CASE StopDone
  BY <1>0, <1>3, GoesOn DEF StopDone, PlaceInv, Idle
<1>4. CASE Start
  <2>1. CASE isAlive(readPid)
    BY <1>4, <2>1, GoesOn DEF Start, PlaceInv, Idle
  <2>2. CASE ~isAlive(readPid)
    <3>1. PICK p \in Pids : p = Min(Pids \ Alive)
      <4>1. Min(Pids \ Alive) \in Pids
        BY <1>4, LeastPid DEF CmdInv, Start, Alive
      <4> QED
        BY <4>1
    <3>2. srv' = [srv EXCEPT ![p] = [NoServer EXCEPT !.phase = "spawned", !.build = build]]
      BY <1>4, <2>2, <3>1 DEF Start
    <3>3. dir'.there /\ cmd'.at = "wait" /\ aside' = aside
      <4>1. cmd'.at = "wait" /\ aside' = aside
        BY <1>0, <1>4, <2>2 DEF Start, Commands
      <4>2. \E d \in Directory : d.there /\ dir' = [d EXCEPT !.pid = p]
        BY <1>0, <1>4, <2>2, <3>1, Types DEF Start, Fresh
      <4> QED
        BY <4>1, <4>2 DEF Directory
    <3> QED
      BY <1>0, <3>2, <3>3 DEF PlaceInv, NoServer
  <2> QED
    BY <2>1, <2>2
<1>5. CASE WaitReady
  BY <1>5, GoesOn DEF WaitReady, PlaceInv, Idle
<1>6. CASE WaitFails
  <2>1. /\ removePid /\ cmd' = Idle /\ aside' = aside
    BY <1>6, GoesOn DEF WaitFails
  <2>2. CASE UNCHANGED srv
    BY <2>1, <2>2, GoesOn DEF PlaceInv, Idle
  <2>3. CASE isAlive(cmd.pid) /\ srv' = [srv EXCEPT ![cmd.pid].astray = TRUE]
    <3>1. PICK p \in Pids : p = cmd.pid /\ srv[p].phase # "none"
      BY <2>3 DEF isAlive, Alive, Opening
    <3>2. /\ \A q \in Pids : srv'[q].phase = srv[q].phase /\ srv'[q].in = srv[q].in
          /\ \A q \in Pids : q # p => srv'[q] = srv[q]
      BY <1>0, <2>3, <3>1 DEF Servers
    <3> QED
      BY <2>1, <3>1, <3>2, GoesOn DEF PlaceInv, Idle
  <2> QED
    BY <1>6, <2>2, <2>3 DEF WaitFails
<1>7. CASE Backup
  BY <1>7, GoesOn DEF Backup, PlaceInv, Idle
<1>8. CASE \E replace \in BOOLEAN : Stage(replace)
  BY <1>8, GoesOn DEF Stage, PlaceInv, Idle
<1>9. CASE MoveAside
  <2>1. dir' = Gone /\ aside' = dir /\ srv' = Moved("aside", "lost")
    BY <1>9 DEF MoveAside
  <2>2. ASSUME NEW q \in Pids
        PROVE  /\ srv'[q].phase \in {"none", "spawned"} => srv'[q].in = "none"
               /\ srv'[q].phase = "none" => srv'[q] = NoServer
               /\ srv'[q].in # "dir"
               /\ srv'[q].in = "aside" => aside'.there
    <3>1. /\ srv'[q].phase = srv[q].phase
          /\ srv'[q].in = CASE srv[q].in = "dir" -> "aside"
                           [] srv[q].in = "aside" -> "lost"
                           [] OTHER -> srv[q].in
          /\ srv[q].in = "none" => srv'[q] = srv[q]
      BY <2>1, MovedServers
    <3> QED
      BY <2>1, <3>1 DEF PlaceInv, NoServer
  <2> QED
    BY <2>1, <2>2 DEF PlaceInv
<1>10. CASE MoveIn
  <2>1. CASE /\ ~dir.there /\ At("moved") /\ UNCHANGED <<srv, aside, safety, faults>>
             /\ dir' = Restored
    <3>1. dir'.there /\ cmd'.at = "moved"
      BY <2>1, RestoredTypes, GoesOn DEF TypeOK, Archives
    <3> QED
      BY <2>1, <3>1 DEF PlaceInv
  <2>2. CASE /\ GoOn(AfterWork)
             /\ IF aside.there
                THEN dir' = aside /\ srv' = Moved("lost", "dir")
                ELSE UNCHANGED <<dir, srv>>
             /\ aside' = Gone /\ safety' = Empty
    <3>1. cmd'.at # "swap"
      BY <2>2, GoesOn
    <3>2. CASE aside.there
      BY <2>2, <3>1, <3>2, MovedServers DEF PlaceInv, NoServer
    <3>3. CASE ~aside.there
      BY <2>2, <3>1, <3>3 DEF PlaceInv
    <3> QED
      BY <3>2, <3>3
  <2> QED
    BY <1>10, <2>1, <2>2 DEF MoveIn, Restored
<1>11. CASE RemoveOld
  BY <1>11, GoesOn, MovedServers DEF RemoveOld, PlaceInv, NoServer
<1> QED
  BY <1>1, <1>2, <1>3, <1>4, <1>5, <1>6, <1>7, <1>8, <1>9, <1>10, <1>11 DEF Command

\* A step of a command that starts nothing keeps what commands know, if it keeps
\* the server that it waits for and knows of no other when it goes to work.
LEMMA CmdInvKept ==
  ASSUME TypeOK, CmdInv, TypeOK', Alive' \subseteq Alive,
         \A p \in Alive' : srv'[p].astray = srv[p].astray, gaveUp' = gaveUp,
         cmd'.at \notin {"stop", "term", "wait"},
         cmd'.at = "idle" => cmd' = Idle,
         cmd'.at = "start" => cmd'.op # "stop",
         cmd'.at # "idle" => cmd.at \notin {"idle", "wait"} /\ cmd.op # "stop",
         cmd'.at \in {"work", "staged", "swap", "moved"} =>
           cmd'.op \in {"backup", "restore"} /\ \A p \in Alive' : srv'[p].astray
  PROVE  CmdInv'
<1>1. Alive' # Pids \/ cmd'.at = "idle"
  BY DEF CmdInv, Alive
<1> QED
  BY <1>1 DEF CmdInv

LEMMA CommandKeepsCmdInv ==
  ASSUME TypeOK, PlaceInv, CmdInv, ServerIsFindable, Command, TypeOK'
  PROVE  CmdInv' /\ ServerIsFindable'
<1> USE DEF OnlyCommand, Files
<1>0. /\ dir \in Directory /\ aside \in Directory /\ srv \in [Pids -> Servers]
      /\ cmd \in Commands
  BY DEF TypeOK
<1>1. CASE StopSignal
  <2>1. CASE ~isAlive(readPid)
    <3>1. /\ \A p \in Alive : srv[p].astray
          /\ Alive' = Alive /\ UNCHANGED <<srv, gaveUp>>
      BY <1>1, <2>1 DEF StopSignal, ServerIsFindable, isAlive, Alive
    <3>2. GoOn(AfterStop) /\ cmd.at = "stop"
      BY <1>1, <2>1 DEF StopSignal
    <3>3. CmdInv'
      <4>1. cmd.op \in {"stop", "restart", "backup", "restore"}
        BY <3>2 DEF CmdInv
      <4> QED
        BY <3>1, <3>2, <4>1, GoesOn, CmdInvKept DEF Idle
    <3> QED
      BY <3>1, <3>3 DEF ServerIsFindable
  <2>2. CASE isAlive(readPid)
    <3>1. PICK p \in Pids : p = readPid /\ p \in Alive
      BY <2>2 DEF isAlive, Alive
    <3>2. ServerEffect(p)
      <4>1. Sigterm(p)
        BY <1>1, <2>2, <3>1 DEF StopSignal, Sigterm, Phase, Die, Ends
      <4> QED
        BY <3>1, <4>1, SignalEffects
    <3>3. /\ cmd'.at = "term" /\ cmd'.pid = p /\ cmd'.op = cmd.op /\ gaveUp' = gaveUp
          /\ cmd.at = "stop"
      BY <1>0, <1>1, <2>2, <3>1 DEF StopSignal, Commands
    <3>4. /\ Alive' \subseteq Alive
          /\ \A q \in Alive' : srv'[q].astray = srv[q].astray
      BY <3>2 DEF ServerEffect, ServerStays, Alive, NoServer, Opening
    <3> QED
      BY <3>1, <3>2, <3>3, <3>4 DEF CmdInv, ServerIsFindable, ServerEffect, readPid, Alive
  <2> QED
    BY <2>1, <2>2
<1>2. CASE StopKill
  <2>1. PICK p \in Pids : p = cmd.pid /\ p \in Alive
    BY <1>2 DEF StopKill, isAlive, Alive
  <2>2. ServerEffect(p)
    BY <1>2, <2>1, SignalEffects DEF StopKill, Die, Ends
  <2>3. cmd' = cmd /\ cmd.at = "term" /\ gaveUp' = gaveUp
    BY <1>2 DEF StopKill
  <2>4. /\ Alive' \subseteq Alive
        /\ \A q \in Alive' : srv'[q].astray = srv[q].astray
    BY <2>2 DEF ServerEffect, ServerStays, Alive, NoServer, Opening
  <2> QED
    BY <2>2, <2>3, <2>4 DEF CmdInv, ServerIsFindable, ServerEffect, readPid, Alive
<1>3. CASE StopDone
  <2>1. /\ Alive' = Alive /\ UNCHANGED <<srv, gaveUp>>
        /\ cmd.at = "term" /\ GoOn(AfterStop)
    BY <1>3 DEF StopDone, Alive
  <2>2. \A p \in Alive : srv[p].astray
    BY <1>3 DEF StopDone, isAlive, CmdInv, ServerIsFindable, readPid
  <2>3. CmdInv'
    <3>1. cmd.op \in {"stop", "restart", "backup", "restore"}
      BY <2>1 DEF CmdInv
    <3> QED
      BY <2>1, <2>2, <3>1, GoesOn, CmdInvKept DEF Idle
  <2> QED
    BY <2>1, <2>2, <2>3 DEF ServerIsFindable
<1>4. CASE Start
  <2>1. CASE isAlive(readPid)
    <3>1. cmd' = Idle /\ UNCHANGED <<dir, srv, gaveUp>> /\ Alive' = Alive
      BY <1>4, <2>1, GoesOn DEF Start, Alive
    <3> QED
      BY <3>1 DEF CmdInv, ServerIsFindable, Idle, readPid
  <2>2. CASE ~isAlive(readPid)
    <3>1. PICK p \in Pids : p = Min(Pids \ Alive)
      <4>1. Min(Pids \ Alive) \in Pids
        BY <1>4, LeastPid DEF CmdInv, Start, Alive
      <4> QED
        BY <4>1
    <3>2. srv' = [srv EXCEPT ![p] = [NoServer EXCEPT !.phase = "spawned", !.build = build]]
      BY <1>4, <2>2, <3>1 DEF Start
    <3>3. cmd'.at = "wait" /\ cmd'.pid = p /\ dir'.pid = p /\ gaveUp' = gaveUp
      BY <1>0, <1>4, <2>2, <3>1, Types DEF Start, Commands, Directory
    <3>4. \A q \in Pids : q # p => srv'[q] = srv[q]
      BY <1>0, <3>2
    <3>5. ~srv'[p].astray
      BY <1>0, <3>2 DEF NoServer
    <3>6. \A q \in Alive : srv[q].astray
      BY <2>2 DEF isAlive, ServerIsFindable, readPid
    <3>7. \A q \in Alive' : q = p \/ (q \in Alive /\ srv'[q] = srv[q])
      <4> SUFFICES ASSUME NEW q \in Alive', q # p
                   PROVE  q \in Alive /\ srv'[q] = srv[q]
        OBVIOUS
      <4>1. q \in Pids /\ srv'[q].phase \in Opening \cup {"up", "stopping"}
        BY DEF Alive
      <4> QED
        BY <3>4, <4>1 DEF Alive
    <3> QED
      BY <3>3, <3>5, <3>6, <3>7 DEF CmdInv, ServerIsFindable, readPid
  <2> QED
    BY <2>1, <2>2
<1>5. CASE WaitReady
  <2>1. cmd' = Idle /\ UNCHANGED <<dir, srv, gaveUp>> /\ Alive' = Alive
    BY <1>5, GoesOn DEF WaitReady, Alive
  <2> QED
    BY <2>1 DEF CmdInv, ServerIsFindable, Idle, readPid
<1>6. CASE WaitFails
  <2>1. cmd' = Idle /\ cmd.at = "wait"
    BY <1>6, GoesOn DEF WaitFails
  <2>2. CASE ~isAlive(cmd.pid) /\ UNCHANGED <<srv, gaveUp>>
    <3>1. Alive' = Alive
      BY <2>2 DEF Alive
    <3>2. \A p \in Alive : srv[p].astray
      BY <2>1, <2>2 DEF isAlive, CmdInv, ServerIsFindable, readPid
    <3> QED
      BY <2>1, <2>2, <3>1, <3>2 DEF CmdInv, ServerIsFindable, Idle
  <2>3. CASE /\ isAlive(cmd.pid) /\ gaveUp'
             /\ srv' = [srv EXCEPT ![cmd.pid].astray = TRUE]
    <3>1. PICK p \in Pids : p = cmd.pid
      BY <2>3 DEF isAlive, Alive
    <3>2. /\ \A q \in Pids : srv'[q].phase = srv[q].phase
          /\ \A q \in Pids : q # p => srv'[q] = srv[q]
          /\ srv'[p].astray
      BY <1>0, <2>3, <3>1 DEF Servers
    <3>3. Alive' = Alive
      BY <3>2 DEF Alive
    <3>4. \A q \in Alive' : srv'[q].astray
      BY <2>1, <3>1, <3>2, <3>3 DEF CmdInv, ServerIsFindable, readPid, Alive
    <3> QED
      BY <2>1, <2>3, <3>4 DEF CmdInv, ServerIsFindable, Idle
  <2> QED
    BY <1>6, <2>2, <2>3 DEF WaitFails
<1>7. CASE Backup \/ \E replace \in BOOLEAN : Stage(replace)
  <2>1. /\ UNCHANGED <<dir, srv, gaveUp>> /\ Alive' = Alive /\ cmd.at = "work"
        /\ GoOn(AfterWork) \/ At("staged")
    BY <1>7 DEF Backup, Stage, Alive
  <2>2. CmdInv'
    BY <2>1, GoesOn, CmdInvKept DEF CmdInv, Idle
  <2> QED
    BY <2>1, <2>2 DEF ServerIsFindable, readPid
<1>8. CASE MoveAside \/ RemoveOld
  <2>1. /\ srv' = Moved("aside", "lost") \/ srv' = Moved("dir", "lost")
        /\ gaveUp' = gaveUp /\ cmd.at \in {"staged", "moved"}
        /\ GoOn(AfterWork) \/ At("swap")
    BY <1>8 DEF MoveAside, RemoveOld
  <2>2. \A p \in Pids : srv'[p].phase = srv[p].phase /\ srv'[p].astray = srv[p].astray
    BY <2>1, MovedServers
  <2>3. Alive' = Alive
    BY <2>2 DEF Alive
  <2>4. \A p \in Alive : srv[p].astray
    BY <2>1 DEF CmdInv
  <2>5. CmdInv'
    BY <2>1, <2>2, <2>3, <2>4, GoesOn, CmdInvKept DEF CmdInv, Idle, Alive
  <2> QED
    BY <2>2, <2>3, <2>4, <2>5 DEF ServerIsFindable, Alive
<1>9. CASE MoveIn
  <2>1. /\ srv' = srv \/ srv' = Moved("lost", "dir")
        /\ gaveUp' = gaveUp /\ cmd.at = "swap"
        /\ GoOn(AfterWork) \/ At("moved")
    BY <1>9 DEF MoveIn
  <2>2. \A p \in Pids : srv'[p].phase = srv[p].phase /\ srv'[p].astray = srv[p].astray
    BY <2>1, MovedServers
  <2>3. Alive' = Alive
    BY <2>2 DEF Alive
  <2>4. \A p \in Alive : srv[p].astray
    BY <2>1 DEF CmdInv
  <2>5. CmdInv'
    BY <2>1, <2>2, <2>3, <2>4, GoesOn, CmdInvKept DEF CmdInv, Idle, Alive
  <2> QED
    BY <2>2, <2>3, <2>4, <2>5 DEF ServerIsFindable, Alive
<1> QED
  BY <1>1, <1>2, <1>3, <1>4, <1>5, <1>6, <1>7, <1>8, <1>9 DEF Command

-----------------------------------------------------------------------------
(* The rest of the next-state relation: a command begins or is             *)
(* interrupted, and what the operator does beside the commands.            *)

Beside ==
  \/ \E op \in {"start", "stop", "restart", "backup", "restore"} : Begin(op)
  \/ Quit
  \/ \E b \in Builds : Install(b)
  \/ Edit
  \/ PutBack

LEMMA BesideKeepsTypes ==
  ASSUME TypeOK, Beside
  PROVE  TypeOK'
<1> USE DEF TypeOK
<1>1. CASE \E op \in {"start", "stop", "restart", "backup", "restore"} : Begin(op)
  <2>1. PICK op \in {"start", "stop", "restart", "backup", "restore"} : Begin(op)
    BY <1>1
  <2> DEFINE at == CASE op = "start" -> "start"
                     [] op \in {"stop", "restart"} \/ wasRunning(op) -> "stop"
                     [] OTHER -> "work"
  <2>2. cmd' \in Commands
    <3>1. cmd' = [op |-> op, pid |-> NoPid, wasUp |-> wasRunning(op), at |-> at]
      BY <2>1 DEF Begin
    <3>2. wasRunning(op) \in BOOLEAN
      BY DEF wasRunning
    <3>3. at \in {"start", "stop", "work"}
      OBVIOUS
    <3> HIDE DEF at
    <3> QED
      BY <3>1, <3>2, <3>3 DEF Commands
  <2> QED
    BY <2>1, <2>2, Types DEF Begin, OnlyCommand
<1>2. CASE Quit
  BY <1>2, GoOnTypes DEF Quit, Files, OnlyCommand, MayFault
<1>3. CASE \E b \in Builds : Install(b)
  BY <1>3 DEF Install, MayMeddle, OnlyFiles
<1>4. CASE Edit
  <2>1. meddling' \in 0..MaxMeddling
    BY <1>4 DEF Edit, MayMeddle
  <2>2. [dir.live EXCEPT !.rows = @ + 1, !.past = @ \cup {"edited"}] \in Database
    <3>1. dir.live \in Database /\ dir.live.rows < MaxChanges
      BY <1>4 DEF Edit, Directory
    <3> QED
      BY <3>1, LiveTypes
  <2>3. dir' \in Directory
    BY <1>4, <2>2 DEF Edit, Directory
  <2> QED
    BY <1>4, <2>1, <2>3 DEF Edit, OnlyFiles
<1>5. CASE PutBack
  <2>1. meddling' \in 0..MaxMeddling
    BY <1>5 DEF PutBack, MayMeddle
  <2>3. dir' \in Directory
    BY <1>5, PlacedTypes DEF PutBack, Archives
  <2> QED
    BY <1>5, <2>1, <2>3 DEF PutBack, OnlyFiles
<1> QED
  BY <1>1, <1>2, <1>3, <1>4, <1>5 DEF Beside

LEMMA BesideKeepsPlaces ==
  ASSUME TypeOK, PlaceInv, CmdInv, ServerIsFindable, Beside
  PROVE  PlaceInv' /\ CmdInv' /\ ServerIsFindable'
<1>0. dir \in Directory /\ srv' = srv /\ gaveUp' = gaveUp /\ Alive' = Alive
  BY DEF TypeOK, Beside, Begin, Quit, Install, Edit, PutBack, OnlyFiles, OnlyCommand, Alive
<1>1. CASE \E op \in {"start", "stop", "restart", "backup", "restore"} : Begin(op)
  <2>1. PICK op \in {"start", "stop", "restart", "backup", "restore"} : Begin(op)
    BY <1>1
  <2>2. /\ cmd'.op = op /\ dir' = dir /\ aside' = Gone
        /\ cmd'.at = CASE op = "start" -> "start"
                       [] op \in {"stop", "restart"} \/ wasRunning(op) -> "stop"
                       [] OTHER -> "work"
        /\ op # "stop" => Alive # Pids
    BY <2>1 DEF Begin
  <2>3. cmd'.at = "work" => \A p \in Alive : srv[p].astray
    BY <2>2 DEF wasRunning, isAlive, ServerIsFindable
  <2>4. cmd'.at \in {"start", "stop", "work"}
    BY <2>2
  <2>5. PlaceInv'
    BY <1>0, <2>2, <2>4 DEF PlaceInv
  <2>6. CmdInv'
    <3>1. /\ cmd'.at = "start" => op = "start"
          /\ cmd'.at = "stop" => op # "start"
          /\ cmd'.at = "work" => op \in {"backup", "restore"}
      BY <2>2 DEF wasRunning
    <3>2. /\ Alive' # Pids \/ op = "stop"
          /\ \A p \in Alive' : srv'[p].astray = srv[p].astray
      BY <1>0, <2>2
    <3>3. \A p \in Alive' : (cmd'.at = "work" => srv'[p].astray) /\ (~gaveUp' => ~srv'[p].astray)
      BY <1>0, <2>3 DEF CmdInv
    <3> QED
      BY <2>2, <2>4, <3>1, <3>2, <3>3 DEF CmdInv
  <2> QED
    BY <1>0, <2>2, <2>5, <2>6 DEF ServerIsFindable, readPid
<1>2. CASE Quit
  <2>1. cmd' = Idle /\ dir' = dir /\ aside' = aside
    BY <1>2 DEF Quit, Over, Files
  <2> QED
    BY <1>0, <2>1 DEF PlaceInv, CmdInv, ServerIsFindable, Idle, readPid
<1>3. CASE (\E b \in Builds : Install(b)) \/ Edit \/ PutBack
  <2>1. cmd' = cmd /\ aside' = aside /\ cmd = Idle
    BY <1>3 DEF Install, Edit, PutBack, MayMeddle, OnlyFiles
  <2>2. dir' = dir \/ (dir.there /\ dir'.there /\ dir'.pid = dir.pid)
    BY <1>0, <1>3 DEF Install, Edit, PutBack, Placed, Directory
  <2> QED
    BY <1>0, <2>1, <2>2 DEF PlaceInv, CmdInv, ServerIsFindable, Idle, readPid
<1> QED
  BY <1>1, <1>2, <1>3 DEF Beside

-----------------------------------------------------------------------------
(* Seals, and what was done to the rows                                    *)

\* What may happen to a database keeps it sound.
LEMMA SoundSteps ==
  ASSUME NEW db \in Database, DataSound(db)
  PROVE  /\ \A why \in {"edited", "unsealed"} : db.rows < MaxChanges =>
              DataSound([db EXCEPT !.rows = @ + 1, !.past = @ \cup {why}])
         /\ DataSound([db EXCEPT !.seal = db.rows, !.past = @ \ {"edited", "unsealed"}])
<1>0. /\ db.rows \in Int /\ db.seal \in Int
      /\ db.rows + 1 \in Int
  BY DEF Database
<1>1. ASSUME NEW why \in {"edited", "unsealed"}
      PROVE  DataSound([db EXCEPT !.rows = @ + 1, !.past = @ \cup {why}])
  <2> DEFINE e == [db EXCEPT !.rows = @ + 1, !.past = @ \cup {why}]
  <2>1. e.rows = db.rows + 1 /\ e.seal = db.seal /\ e.past = db.past \cup {why}
    BY DEF Database
  <2> HIDE DEF e
  <2>2. DataSound(e)
    BY <1>0, <2>1 DEF DataSound
  <2> QED
    BY <2>2 DEF e
<1>2. DataSound([db EXCEPT !.seal = db.rows, !.past = @ \ {"edited", "unsealed"}])
  <2> DEFINE e == [db EXCEPT !.seal = db.rows, !.past = @ \ {"edited", "unsealed"}]
  <2>1. e.rows = db.rows /\ e.seal = db.rows /\ e.past = db.past \ {"edited", "unsealed"}
    BY DEF Database
  <2> HIDE DEF e
  <2>2. DataSound(e)
    BY <1>0, <2>1 DEF DataSound
  <2> QED
    BY <2>2 DEF e
<1> QED
  BY <1>1, <1>2

\* What is put in place behind its witness is remembered to be.
LEMMA PlacedIsWitnessed ==
  ASSUME NEW d \in Directory, NEW db \in Database, InPlace(d, db, d.witness)
  PROVE  Witnessed(d)
BY DEF InPlace, Witnessed, Directory, Database

\* A server's step leaves its database sound, and the main file as it was or
\* like the database.
LEMMA ServerSound ==
  ASSUME TypeOK, PlaceInv, SoundInv, NEW p \in Pids, Server(p) \/ Crash(p)
  PROVE  DataSound(dir'.live) /\ dir'.main \in {dir.main, dir'.live}
<1>0. /\ dir \in Directory /\ dir.live \in Database /\ DataSound(dir.live)
      /\ Fresh \in Directory
  BY Types DEF TypeOK, SoundInv, Directory
<1>1. Fresh.live = Fresh.main /\ DataSound(Fresh.live)
  BY Constants DEF DataSound
<1>2. \A d \in Directory : Closed(p, d).live = d.live /\ Closed(p, d).main \in {d.main, d.live}
  BY DEF Closed, Directory
<1>3. CASE Open(p)
  <2>1. CASE dir.there
    BY <1>0, <1>2, <1>3, <2>1 DEF Open
  <2>2. CASE ~dir.there
    BY <1>0, <1>1, <1>2, <1>3, <2>2 DEF Open
  <2> QED
    BY <2>1, <2>2
<1>4. CASE Migrate(p)
  <2>1. /\ dir'.live.rows = dir.live.rows /\ dir'.live.seal = dir.live.seal
        /\ dir'.live.past = dir.live.past /\ dir'.main = dir.main
    BY <1>0, <1>4 DEF Migrate, Directory, Database
  <2> QED
    BY <1>0, <2>1 DEF DataSound
<1>5. CASE Check(p)
  <2>1. CASE RefusesChain(p)
    BY <1>0, <1>2, <1>5, <2>1 DEF Check
  <2>2. CASE ~RefusesChain(p)
    <3>1. /\ dir'.live.rows = dir.live.rows /\ dir'.live.seal = dir.live.seal
          /\ dir'.live.past = dir.live.past /\ dir'.main = dir.main
      BY <1>0, <1>5, <2>2 DEF Check, Directory, Database
    <3> QED
      BY <1>0, <3>1 DEF DataSound
  <2> QED
    BY <2>1, <2>2
<1>6. CASE Count(p)
  <2>1. /\ dir'.live.rows = dir.live.rows /\ dir'.live.seal = dir.live.seal
        /\ dir'.live.past = dir.live.past /\ dir'.main = dir.main
    BY <1>0, <1>6 DEF Count, Directory, Database
  <2> QED
    BY <1>0, <2>1 DEF DataSound
<1>7. CASE Witness(p) \/ Ready(p) \/ OpenUnlinked(p) \/ Crash(p)
  BY <1>0, <1>7 DEF Witness, Ready, OpenUnlinked, Crash, Die, Directory
<1>8. CASE Listen(p)
  BY <1>0, <1>8 DEF Listen, Die, Directory
<1>9. CASE Change(p)
  <2>1. /\ dir'.live = [dir.live EXCEPT !.rows = @ + 1, !.past = @ \cup {"unsealed"}]
        /\ dir'.main = dir.main /\ dir.live.rows < MaxChanges
    BY <1>0, <1>9 DEF Change, Directory
  <2> QED
    BY <1>0, <2>1, SoundSteps
<1>10. CASE Finish(p)
  <2> DEFINE d == [dir EXCEPT !.live.seal = dir.live.rows,
                              !.live.past = @ \ {"edited", "unsealed"}]
  <2>1. CASE srv[p].in # "dir"
    BY <1>0, <1>10, <2>1 DEF Finish
  <2>2. CASE srv[p].in = "dir"
    <3>1. /\ d.live = [dir.live EXCEPT !.seal = dir.live.rows,
                                      !.past = @ \ {"edited", "unsealed"}]
          /\ d.main = dir.main
      BY <1>0 DEF Directory
    <3>2. d \in Directory
      BY <1>0, <3>1, LiveTypes DEF Directory
    <3>3. dir'.live = d.live /\ dir'.main \in {d.main, d.live}
      BY <1>2, <1>10, <2>2, <3>2 DEF Finish
    <3> QED
      BY <1>0, <3>1, <3>3, SoundSteps
  <2> QED
    BY <2>1, <2>2
<1> QED
  BY <1>3, <1>4, <1>5, <1>6, <1>7, <1>8, <1>9, <1>10 DEF Server

LEMMA ServerKeepsSound ==
  ASSUME TypeOK, PlaceInv, SoundInv, NEW p \in Pids, Server(p) \/ Crash(p)
  PROVE  SoundInv'
<1>1. UNCHANGED <<aside, archive>>
  BY DEF Server, Crash, OnlyServers, Open, Migrate, Check, Count, Witness,
     Ready, OpenUnlinked, Listen, Change, Finish
<1> QED
  BY <1>1, ServerSound DEF SoundInv

LEMMA CommandKeepsSound ==
  ASSUME TypeOK, PlaceInv, SoundInv, Command
  PROVE  SoundInv'
<1> USE DEF OnlyCommand, Files
<1>0. dir \in Directory /\ dir.main \in Database /\ archive \in Archives /\ archive.db \in Database
  BY DEF TypeOK, Directory, Archives
<1>1. DataSound(Empty)
  BY Constants DEF DataSound
<1>2. CASE StopSignal \/ StopKill \/ StopDone \/ WaitReady \/ WaitFails
           \/ \E replace \in BOOLEAN : Stage(replace)
  <2>1. dir'.live = dir.live /\ dir'.main = dir.main /\ UNCHANGED <<aside, archive>>
    BY <1>0, <1>2 DEF StopSignal, StopKill, StopDone, WaitReady, WaitFails, Stage,
       removePid, Sigterm, Die, Directory
  <2> QED
    BY <2>1 DEF SoundInv
<1>3. CASE Start
  <2>1. /\ UNCHANGED <<aside, archive>>
        /\ \/ dir'.live = dir.live /\ dir'.main = dir.main
           \/ dir'.live = Empty /\ dir'.main = Empty
    BY <1>0, <1>3, Types, Constants DEF Start, Directory
  <2> QED
    BY <1>1, <2>1 DEF SoundInv
<1>4. CASE Backup
  <2>1. UNCHANGED <<dir, aside>>
    BY <1>4 DEF Backup
  <2>2. archive'.db \in {archive.db, dir.main}
    BY <1>4 DEF Backup
  <2> QED
    BY <2>1, <2>2 DEF SoundInv
<1>5. CASE MoveAside
  BY <1>1, <1>5, Constants DEF MoveAside, SoundInv
<1>6. CASE MoveIn
  <2>1. \/ dir' \in {dir, aside}
        \/ dir' = Restored
    BY <1>6 DEF MoveIn, Restored
  <2>2. dir' \in {dir, aside} \/ (DataSound(dir'.main) /\ DataSound(dir'.live))
    <3>1. CASE dir' = Restored
      <4>1. InPlace(dir', archive.db, archive.witness)
        BY <1>0, <3>1, RestoredTypes
      <4> QED
        BY <4>1 DEF InPlace, SoundInv
    <3> QED
      BY <2>1, <3>1
  <2>3. aside' \in {Gone, aside} /\ archive' = archive
    BY <1>6 DEF MoveIn
  <2> QED
    BY <1>1, <2>2, <2>3, Constants DEF SoundInv
<1>7. CASE RemoveOld
  BY <1>1, <1>7, Constants DEF RemoveOld, SoundInv
<1> QED
  BY <1>2, <1>3, <1>4, <1>5, <1>6, <1>7 DEF Command

LEMMA BesideKeepsSound ==
  ASSUME TypeOK, SoundInv, Beside
  PROVE  SoundInv'
<1>0. /\ dir \in Directory /\ dir.live \in Database
      /\ archive \in Archives /\ archive.db \in Database /\ archive' = archive
  BY DEF TypeOK, Directory, Archives, Beside, Begin, Quit, Install, Edit, PutBack,
     OnlyFiles, Files
<1>1. CASE (\E op \in {"start", "stop", "restart", "backup", "restore"} : Begin(op))
           \/ Quit \/ \E b \in Builds : Install(b)
  <2>1. dir' = dir /\ aside' \in {Gone, aside}
    BY <1>1 DEF Begin, Quit, Install, OnlyFiles, Files
  <2>2. DataSound(Empty)
    BY Constants DEF DataSound
  <2> QED
    BY <1>0, <2>1, <2>2, Constants DEF SoundInv
<1>2. CASE Edit
  <2> DEFINE db == [dir.live EXCEPT !.rows = @ + 1, !.past = @ \cup {"edited"}]
  <2>1. dir'.main = db /\ dir'.live = db /\ aside' = aside /\ dir.live.rows < MaxChanges
    BY <1>0, <1>2 DEF Edit, OnlyFiles, Directory
  <2>2. DataSound(db)
    BY <1>0, <2>1, SoundSteps DEF SoundInv
  <2> QED
    BY <1>0, <2>1, <2>2 DEF SoundInv
<1>3. CASE PutBack
  <2>1. dir'.main = archive.db /\ dir'.live = archive.db /\ aside' = aside
    BY <1>0, <1>3, PlacedTypes DEF PutBack, OnlyFiles, InPlace
  <2> QED
    BY <1>0, <2>1 DEF SoundInv
<1> QED
  BY <1>1, <1>2, <1>3 DEF Beside

-----------------------------------------------------------------------------
(* One server at most, as long as no start was given up                    *)

LEMMA OneServer ==
  ASSUME CmdInv, ServerIsFindable, ~gaveUp
  PROVE  \A p, q \in Alive : p = q
BY DEF CmdInv, ServerIsFindable

\* What LoneInv says of the one server and its directory.
LoneServer(d, r) ==
  /\ Witnessed(d)
  /\ r.in # "dir" => d.main = d.live \/ d.unclean
  /\ r.in = "dir" =>
       /\ r.phase = "open" => d.live.head <= r.build
       /\ r.phase # "open" => d.live.head = r.build
       /\ r.phase = "counted" => r.opens = d.live.opens

LEMMA DieKeepsLoneServer ==
  ASSUME TypeOK, PlaceInv, NEW p \in Pids, Die(p), LoneServer(dir, srv[p])
  PROVE  LoneServer(dir', srv'[p])
<1>1. /\ srv'[p] = NoServer /\ dir'.live = dir.live /\ dir'.main = dir.main
      /\ dir'.witness = dir.witness /\ dir'.behind = dir.behind
      /\ p \in Connected => dir'.unclean
      /\ dir.unclean => dir'.unclean
  BY PhaseEffects DEF Die
<1>2. srv[p].in = "dir" => p \in Connected
  BY DEF PlaceInv, Connected, Alive, TypeOK, Servers, Opening
<1> QED
  BY <1>1, <1>2 DEF LoneServer, NoServer, Witnessed

LEMMA ServerKeepsLoneServer ==
  ASSUME TypeOK, PlaceInv, NEW p \in Pids, Server(p) \/ Crash(p),
         Connected \subseteq {p}, LoneServer(dir, srv[p])
  PROVE  LoneServer(dir', srv'[p])
<1>0. /\ dir \in Directory /\ dir.live \in Database /\ srv \in [Pids -> Servers]
      /\ srv[p] \in Servers /\ srv[p].opens \in Nat /\ srv[p].build \in Nat
      /\ dir.live.opens \in Nat /\ dir.live.head \in Nat /\ dir.witness \in Nat
      /\ srv[p].phase = "spawned" => srv[p].in = "none"
      /\ NoServer.in = "none"
  BY DEF TypeOK, PlaceInv, Directory, Database, Servers, Builds, NoServer
<1>1. \A d \in Directory :
        /\ Closed(p, d).main = Closed(p, d).live
        /\ Closed(p, d).live = d.live /\ Closed(p, d).witness = d.witness
        /\ Closed(p, d).behind = d.behind
  BY DEF Closed, Directory
<1> USE DEF LoneServer
<1>2. CASE Open(p)
  <2> DEFINE d == IF dir.there THEN dir ELSE Fresh
  <2>1. d \in Directory /\ Witnessed(d) /\ d.live.head \in Nat
    BY <1>0, Types, Constants DEF Witnessed, Directory, Database, Builds
  <2>2. CASE d.live.head > srv[p].build
    <3>1. srv'[p] = NoServer /\ dir' = Closed(p, d)
      BY <1>2, <2>2, PhaseEffects DEF Open
    <3> QED
      BY <1>0, <1>1, <2>1, <3>1 DEF Witnessed
  <2>3. CASE ~(d.live.head > srv[p].build)
    <3>1. /\ srv'[p].phase = "open" /\ srv'[p].in = "dir"
          /\ srv'[p].build = srv[p].build /\ dir' = d
      BY <1>0, <1>2, <2>3 DEF Open, Servers
    <3> QED
      BY <1>0, <2>1, <2>3, <3>1
  <2> QED
    BY <2>2, <2>3
<1>3. CASE Migrate(p)
  <2>1. /\ dir'.live.head = dir.live.head + 1 /\ dir'.live.opens = dir.live.opens
        /\ dir'.behind = dir.behind /\ dir'.witness = dir.witness /\ srv' = srv
        /\ srv[p].phase = "open" /\ srv[p].in = "dir" /\ dir.live.head < srv[p].build
    BY <1>0, <1>3 DEF Migrate, Directory, Database
  <2> QED
    BY <1>0, <2>1 DEF Witnessed
<1>4. CASE Check(p)
  <2>1. CASE RefusesChain(p)
    <3>1. srv'[p] = NoServer /\ dir' = Closed(p, dir)
      BY <1>4, <2>1, PhaseEffects DEF Check
    <3> QED
      BY <1>0, <1>1, <3>1 DEF Witnessed
  <2>2. CASE ~RefusesChain(p)
    <3>1. /\ dir'.live.head = dir.live.head /\ dir'.live.opens = dir.live.opens
          /\ dir'.behind = dir.behind /\ dir'.witness = dir.witness
      BY <1>0, <1>4, <2>2 DEF Check, Directory, Database
    <3>2. /\ srv'[p].in = "dir" /\ srv'[p].phase = "checked"
          /\ srv'[p].build = srv[p].build
          /\ srv[p].phase = "open" /\ srv[p].in = "dir" /\ dir.live.head >= srv[p].build
      BY <1>0, <1>4, <2>2 DEF Check, Phase, Servers
    <3> QED
      BY <1>0, <3>1, <3>2 DEF Witnessed
  <2> QED
    BY <2>1, <2>2
<1>5. CASE Count(p)
  <2>1. /\ dir'.live.head = dir.live.head /\ dir'.live.opens = dir.live.opens + 1
        /\ dir'.behind = (dir.behind /\ dir.live.opens + 1 < dir.witness)
        /\ dir'.witness = dir.witness
    BY <1>0, <1>5 DEF Count, Directory, Database
  <2>2. /\ srv'[p].opens = dir.live.opens + 1 /\ srv'[p].phase = "counted"
        /\ srv'[p].in = "dir" /\ srv'[p].build = srv[p].build /\ srv[p].phase = "checked"
        /\ srv[p].in = "dir"
    BY <1>0, <1>5 DEF Count, Servers
  <2>3. Witnessed(dir)'
    <3>1. CASE dir.live.opens + 1 < dir.witness
      <4>1. dir.behind
        BY <1>0, <3>1 DEF Witnessed
      <4> QED
        BY <2>1, <3>1, <4>1 DEF Witnessed
    <3>2. CASE ~(dir.live.opens + 1 < dir.witness)
      BY <1>0, <2>1, <3>2 DEF Witnessed
    <3> QED
      BY <3>1, <3>2
  <2> QED
    BY <1>0, <2>1, <2>2, <2>3
<1>6. CASE Witness(p)
  <2>1. /\ dir'.live = dir.live /\ dir'.behind = dir.behind
        /\ dir'.witness \in {dir.witness, Max({dir.witness, srv[p].opens})}
    BY <1>0, <1>6 DEF Witness, Directory
  <2>2. /\ srv'[p].phase = "witnessed" /\ srv[p].phase = "counted" /\ srv[p].in = "dir"
        /\ srv'[p].in = "dir" /\ srv'[p].build = srv[p].build
    BY <1>0, <1>6 DEF Witness, Servers
  <2>3. dir'.witness \in {dir.witness, dir.live.opens}
    BY SMTT(30), <1>0, <2>1, <2>2, MaxOfTwo
  <2> QED
    BY <1>0, <2>1, <2>2, <2>3 DEF Witnessed
<1>7. CASE Ready(p) \/ OpenUnlinked(p)
  <2>1. /\ dir' = dir
        /\ srv[p].phase # "open" \/ srv[p].in # "dir"
        /\ srv'[p].in = srv[p].in /\ srv'[p].phase = "ready"
        /\ srv'[p].build = srv[p].build
    BY <1>0, <1>7 DEF Ready, OpenUnlinked, Phase, Servers
  <2> QED
    BY <2>1
<1>8. Die(p) => LoneServer(dir', srv'[p])
  BY DieKeepsLoneServer
<1>9. CASE Listen(p)
  <2>1. CASE Die(p)
    BY <1>8, <2>1
  <2>2. CASE /\ Phase(p, "up")
             /\ dir' = IF srv[p].in = "dir" THEN [dir EXCEPT !.ready = TRUE] ELSE dir
    <3>1. /\ dir'.live = dir.live /\ dir'.main = dir.main /\ dir'.witness = dir.witness
          /\ dir'.unclean = dir.unclean /\ dir'.behind = dir.behind
          /\ srv[p].phase = "ready"
      BY <1>0, <1>9, <2>2 DEF Listen, Directory
    <3>2. /\ srv'[p].in = srv[p].in /\ srv'[p].phase = "up"
          /\ srv'[p].build = srv[p].build
      BY <1>0, <2>2 DEF Phase, Servers
    <3> QED
      BY <3>1, <3>2 DEF Witnessed
  <2> QED
    BY <1>9, <2>1, <2>2 DEF Listen
<1>10. CASE Change(p)
  <2>1. /\ dir'.live.head = dir.live.head /\ dir'.live.opens = dir.live.opens
        /\ dir'.behind = dir.behind /\ dir'.witness = dir.witness
        /\ srv' = srv /\ srv[p].in = "dir"
    BY <1>0, <1>10 DEF Change, Directory, Database
  <2> QED
    BY <2>1 DEF Witnessed
<1>11. CASE Finish(p)
  <2>1. srv'[p] = NoServer
    BY <1>11, PhaseEffects DEF Finish
  <2>2. CASE srv[p].in # "dir"
    BY <1>0, <1>11, <2>1, <2>2 DEF Finish
  <2>3. CASE srv[p].in = "dir"
    <3> DEFINE d == [dir EXCEPT !.live.seal = dir.live.rows,
                                !.live.past = @ \ {"edited", "unsealed"}]
    <3>1. d \in Directory
      BY <1>0, LiveTypes DEF Directory
    <3>2. /\ d.live.opens = dir.live.opens /\ d.witness = dir.witness
          /\ d.behind = dir.behind
      BY <1>0 DEF Directory, Database
    <3>3. dir' = Closed(p, d)
      BY <1>11, <2>3 DEF Finish
    <3> HIDE DEF d
    <3> QED
      BY <1>0, <1>1, <2>1, <3>1, <3>2, <3>3 DEF Witnessed
  <2> QED
    BY <2>2, <2>3
<1>12. CASE Crash(p)
  BY <1>8, <1>12 DEF Crash
<1> QED
  BY <1>2, <1>3, <1>4, <1>5, <1>6, <1>7, <1>9, <1>10, <1>11, <1>12 DEF Server

LoneParts == LoneInv /\ CopyInv /\ SnapshotIsWhole

\* One server's step is enough: there is no other.
LEMMA LoneFromServer ==
  ASSUME TypeOK, PlaceInv, CmdInv, ServerIsFindable, LoneInv, ~gaveUp,
         NEW p \in Pids, p \in Alive
  PROVE  /\ Connected \subseteq {p}
         /\ LoneServer(dir, srv[p])
         /\ /\ ServerEffect(p) /\ LoneServer(dir', srv'[p]) /\ UNCHANGED aside
            /\ cmd'.at \in {"swap", "moved"} => cmd.at \in {"swap", "moved"}
            => LoneInv'
<1>1. Connected \subseteq {p}
  BY OneServer DEF Connected
<1>2. LoneServer(dir, srv[p])
  BY <1>1 DEF LoneInv, LoneServer, Connected
<1>3. ASSUME ServerEffect(p), LoneServer(dir', srv'[p]), UNCHANGED aside,
             cmd'.at \in {"swap", "moved"} => cmd.at \in {"swap", "moved"}
      PROVE  LoneInv'
  <2>1. Connected' \subseteq {p}
    <3> SUFFICES ASSUME NEW q \in Connected', q # p PROVE FALSE
      OBVIOUS
    <3>1. q \in Pids /\ srv'[q].phase \in Opening \cup {"up", "stopping"} /\ srv'[q].in = "dir"
      BY DEF Connected, Alive
    <3>2. srv'[q] = srv[q]
      BY <1>3, <3>1 DEF ServerEffect
    <3> QED
      BY <1>1, <3>1, <3>2 DEF Connected, Alive
  <2>2. srv'[p].in = "dir" => p \in Connected'
    BY <1>3 DEF ServerEffect, ServerStays, Connected, Alive, NoServer, Opening
  <2>3. p \in Connected' => srv'[p].in = "dir"
    BY DEF Connected
  <2> QED
    BY <1>3, <2>1, <2>2, <2>3 DEF LoneInv, LoneServer
<1> QED
  BY <1>1, <1>2, <1>3

LEMMA ServerKeepsLone ==
  ASSUME TypeOK, PlaceInv, CmdInv, ServerIsFindable, LoneParts,
         NEW p \in Pids, Server(p) \/ Crash(p)
  PROVE  LoneParts'
<1>1. ServerEffect(p) /\ UNCHANGED <<cmd, aside, safety, archive, gaveUp>>
  BY ServerEffects DEF Server, Crash, OnlyServers, Open, Migrate, Check, Count, Witness,
     Ready, OpenUnlinked, Listen, Change, Finish
<1>2. p \in Alive
  BY <1>1 DEF ServerEffect
<1>3. ASSUME ~gaveUp PROVE LoneInv'
  BY <1>1, <1>2, <1>3, LoneFromServer, ServerKeepsLoneServer DEF LoneParts
<1>4. ~gaveUp => cmd.at # "staged"
  BY <1>2 DEF CmdInv
<1>5. CopyInv' /\ SnapshotIsWhole'
  BY <1>1, <1>4 DEF CopyInv, SnapshotIsWhole, LoneParts
<1> QED
  BY <1>1, <1>3, <1>5 DEF LoneInv, LoneParts

\* The same with nobody in the directory.
Vacant(d) == Witnessed(d) /\ (d.main = d.live \/ d.unclean)

LEMMA LoneFromVacant ==
  ASSUME Vacant(dir)', Connected' = {},
         cmd'.at \in {"swap", "moved"} => Vacant(aside)'
  PROVE  LoneInv'
BY DEF LoneInv, Vacant

LEMMA CommandKeepsLone ==
  ASSUME TypeOK, PlaceInv, CmdInv, SoundInv, ServerIsFindable, LoneParts, Command
  PROVE  LoneParts'
<1> USE DEF OnlyCommand, Files, LoneParts
<1>0. /\ dir \in Directory /\ aside \in Directory /\ srv \in [Pids -> Servers]
      /\ cmd \in Commands /\ archive \in Archives /\ gaveUp \in BOOLEAN
  BY DEF TypeOK
<1>1. \A d \in Directory : /\ d.main = Empty /\ d.live = Empty /\ d.witness = 0 => Vacant(d)
  BY Constants DEF Vacant, Witnessed
<1>2. ASSUME NEW p \in Pids, p \in Alive, Sigterm(p) \/ Die(p), UNCHANGED <<aside, gaveUp>>,
             cmd'.at \notin {"swap", "moved"}
      PROVE  LoneInv'
  <2>1. CASE gaveUp
    BY <1>2, <2>1 DEF LoneInv
  <2>2. CASE ~gaveUp
    <3>1. ServerEffect(p)
      BY <1>2, SignalEffects
    <3>2. LoneServer(dir, srv[p])
      BY <1>2, <2>2, LoneFromServer
    <3>3. CASE Die(p)
      BY <1>2, <2>2, <3>1, <3>2, <3>3, DieKeepsLoneServer, LoneFromServer
    <3>4. CASE Phase(p, "stopping") /\ UNCHANGED dir /\ srv[p].phase \in {"ready", "up"}
      <4>1. /\ srv'[p].phase = "stopping" /\ srv'[p].in = srv[p].in
            /\ srv'[p].build = srv[p].build
        BY <1>0, <3>4 DEF Phase, Servers
      <4>2. LoneServer(dir', srv'[p])
        BY <3>2, <3>4, <4>1 DEF LoneServer
      <4> QED
        BY <1>2, <2>2, <3>1, <4>2, LoneFromServer
    <3> QED
      BY <1>2, <3>3, <3>4 DEF Sigterm
  <2> QED
    BY <2>1, <2>2
<1>3. CASE StopSignal
  <2>1. /\ UNCHANGED <<aside, safety, archive, gaveUp>>
        /\ cmd'.at \notin {"staged", "swap", "moved"}
    BY <1>0, <1>3, GoesOn DEF StopSignal, Commands
  <2>2. CopyInv' /\ SnapshotIsWhole'
    BY <2>1 DEF CopyInv, SnapshotIsWhole
  <2>3. CASE ~isAlive(readPid)
    <3>1. /\ dir'.live = dir.live /\ dir'.main = dir.main /\ dir'.witness = dir.witness
          /\ dir'.unclean = dir.unclean /\ dir'.behind = dir.behind /\ srv' = srv
      BY <1>3, <2>3, GoesOn DEF StopSignal
    <3> QED
      BY <2>1, <2>2, <3>1 DEF LoneInv, Witnessed, Connected, Alive
  <2>4. CASE isAlive(readPid)
    <3>1. PICK p \in Pids : p = readPid /\ p \in Alive
      BY <2>4 DEF isAlive, Alive
    <3>2. Sigterm(p)
      BY <1>3, <2>4, <3>1 DEF StopSignal, Sigterm, Phase, Die, Ends
    <3> QED
      BY <1>2, <2>1, <2>2, <3>1, <3>2
  <2> QED
    BY <2>3, <2>4
<1>4. CASE StopKill
  <2>1. PICK p \in Pids : p = cmd.pid /\ p \in Alive
    BY <1>4 DEF StopKill, isAlive, Alive
  <2>2. Die(p) /\ UNCHANGED <<aside, safety, archive, gaveUp>> /\ cmd'.at = "term"
    BY <1>4, <2>1 DEF StopKill, Die, Ends
  <2> QED
    BY <1>2, <2>1, <2>2 DEF CopyInv, SnapshotIsWhole
<1>5. CASE StopDone \/ WaitReady \/ (WaitFails /\ UNCHANGED <<srv, gaveUp>>)
  <2>1. /\ UNCHANGED <<srv, aside, safety, archive, gaveUp>>
        /\ cmd'.at \notin {"staged", "swap", "moved"}
    BY <1>5, GoesOn DEF StopDone, WaitReady, WaitFails, Idle
  <2>2. /\ dir'.live = dir.live /\ dir'.main = dir.main /\ dir'.witness = dir.witness
        /\ dir'.unclean = dir.unclean /\ dir'.behind = dir.behind
    BY <1>5, GoesOn DEF StopDone, WaitReady, WaitFails
  <2> QED
    BY <2>1, <2>2 DEF LoneInv, CopyInv, SnapshotIsWhole, Connected, Alive, Witnessed
<1>6. CASE WaitFails /\ gaveUp'
  BY <1>6 DEF WaitFails, LoneInv, CopyInv, SnapshotIsWhole
<1>7. CASE Start
  <2>1. /\ UNCHANGED <<aside, safety, archive, gaveUp>>
        /\ cmd'.at \notin {"staged", "swap", "moved"}
    <3>1. cmd' = Idle \/ cmd'.at = "wait"
      BY <1>0, <1>7, GoesOn DEF Start, Commands
    <3> QED
      BY <1>7, <3>1 DEF Start, Idle
  <2>2. CASE isAlive(readPid)
    BY <1>7, <2>1, <2>2 DEF Start, LoneInv, CopyInv, SnapshotIsWhole, Connected, Alive
  <2>3. CASE ~isAlive(readPid) /\ ~gaveUp
    <3>1. Alive = {}
      BY <2>3 DEF CmdInv, ServerIsFindable, isAlive
    <3>2. Vacant(dir)
      BY <2>3, <3>1 DEF LoneInv, Connected, Vacant
    <3>3. \/ /\ dir'.live = dir.live /\ dir'.main = dir.main /\ dir'.witness = dir.witness
             /\ dir'.unclean = dir.unclean /\ dir'.behind = dir.behind
          \/ dir'.live = Empty /\ dir'.main = Empty /\ dir'.witness = 0
      BY <1>0, <1>7, <2>3, Types, Constants DEF Start, Directory
    <3>4. Vacant(dir)'
      BY <3>2, <3>3, Constants DEF Vacant, Witnessed
    <3>5. \A q \in Pids : srv'[q].in = "dir" => srv[q].in = "dir"
      <4>1. PICK p :
              srv' = [srv EXCEPT ![p] = [NoServer EXCEPT !.phase = "spawned",
                                                         !.build = build]]
        BY <1>7, <2>3 DEF Start
      <4> QED
        BY SMTT(30), <1>0, <4>1 DEF NoServer
    <3>6. Connected' = {}
      <4>1. \A q \in Pids : srv[q].in # "dir"
        BY <1>0, <3>1 DEF PlaceInv, Alive, Servers, NoServer, Opening
      <4> QED
        BY <3>5, <4>1 DEF Connected, Alive
    <3> QED
      BY <2>1, <3>4, <3>6, LoneFromVacant DEF CopyInv, SnapshotIsWhole
  <2>4. CASE gaveUp
    BY <2>1, <2>4 DEF LoneInv, CopyInv, SnapshotIsWhole
  <2> QED
    BY <2>2, <2>3, <2>4
<1>8. ASSUME ~gaveUp, cmd.at \in {"work", "staged", "swap", "moved"}
      PROVE  /\ Alive = {} /\ Vacant(dir)
             /\ Alive' = {} => Connected' = {}
  BY <1>8 DEF CmdInv, LoneInv, Connected, Vacant
<1>9. CASE Backup
  <2>1. /\ UNCHANGED <<dir, srv, aside, safety, gaveUp>> /\ cmd.at = "work"
        /\ cmd'.at \notin {"staged", "swap", "moved"}
    BY <1>9, GoesOn DEF Backup
  <2>2. SnapshotIsWhole'
    BY <1>8, <1>9, <2>1 DEF Backup, SnapshotIsWhole, Vacant
  <2> QED
    BY <2>1, <2>2 DEF LoneInv, CopyInv, Connected, Alive
<1>10. CASE \E replace \in BOOLEAN : Stage(replace)
  <2>1. /\ UNCHANGED <<dir, srv, aside, archive, gaveUp>> /\ cmd.at = "work"
        /\ cmd'.at \notin {"swap", "moved"}
        /\ cmd'.at = "staged" => safety' = dir.main
    BY <1>10, GoesOn DEF Stage
  <2> QED
    BY <2>1 DEF LoneInv, CopyInv, SnapshotIsWhole, Connected, Alive
<1>11. CASE MoveAside \/ RemoveOld
  <2>1. /\ srv' = Moved("aside", "lost") \/ srv' = Moved("dir", "lost")
        /\ UNCHANGED <<archive, gaveUp>> /\ cmd.at \in {"staged", "moved"}
    BY <1>11 DEF MoveAside, RemoveOld
  <2>2. \A p \in Pids : srv'[p].phase = srv[p].phase
    BY <2>1, MovedServers
  <2>3. Alive' = Alive
    BY <2>2 DEF Alive
  <2>4. SnapshotIsWhole'
    BY <2>1 DEF SnapshotIsWhole
  <2>5. CASE gaveUp
    BY <2>1, <2>4, <2>5 DEF LoneInv, CopyInv
  <2>6. CASE ~gaveUp /\ MoveAside
    <3>1. Connected' = {} /\ Vacant(dir)
      BY <1>8, <2>1, <2>3, <2>6
    <3>2. dir' = Gone /\ aside' = dir /\ cmd'.at = "swap" /\ safety' = safety /\ cmd.at = "staged"
      BY <2>6, GoesOn DEF MoveAside
    <3>3. Vacant(dir)'
      BY <1>1, <3>2, Types, Constants DEF Vacant
    <3>4. Vacant(aside)'
      BY <3>1, <3>2 DEF Vacant
    <3>5. CopyInv'
      BY <2>6, <3>2 DEF CopyInv
    <3> QED
      BY <2>4, <3>1, <3>3, <3>4, <3>5, LoneFromVacant
  <2>7. CASE ~gaveUp /\ RemoveOld
    <3>1. Connected' = {} /\ Vacant(dir)
      BY <1>8, <2>1, <2>3, <2>7
    <3>2. dir' = dir /\ cmd'.at \notin {"staged", "swap", "moved"}
      BY <2>7, GoesOn DEF RemoveOld
    <3>3. Vacant(dir)'
      BY <3>1, <3>2 DEF Vacant
    <3> QED
      BY <2>4, <3>1, <3>2, <3>3, LoneFromVacant DEF CopyInv
  <2> QED
    BY <1>11, <2>5, <2>6, <2>7
<1>12. CASE MoveIn
  <2>1. /\ srv' = srv \/ srv' = Moved("lost", "dir")
        /\ UNCHANGED <<archive, gaveUp>> /\ cmd.at = "swap"
    BY <1>12 DEF MoveIn
  <2>2. \A p \in Pids : srv'[p].phase = srv[p].phase
    BY <2>1, MovedServers
  <2>3. Alive' = Alive
    BY <2>2 DEF Alive
  <2>4. SnapshotIsWhole'
    BY <2>1 DEF SnapshotIsWhole
  <2>5. CASE gaveUp
    BY <2>1, <2>4, <2>5 DEF LoneInv, CopyInv
  <2>6. CASE ~gaveUp
    <3>1. Connected' = {} /\ Vacant(dir) /\ Vacant(aside)
      BY <1>8, <2>1, <2>3, <2>6 DEF LoneInv, Vacant
    <3>2. CASE /\ At("moved") /\ UNCHANGED <<aside, safety>>
               /\ dir' = Restored
      <4>1. archive.db \in Database /\ dir' \in Directory
            /\ InPlace(dir', archive.db, dir'.witness)
        BY <1>0, <3>2, RestoredTypes DEF Archives, InPlace
      <4>2. Vacant(dir)'
        BY <4>1, PlacedIsWitnessed DEF InPlace, Vacant
      <4>3. Vacant(aside)' /\ CopyInv'
        BY <2>1, <3>1, <3>2, GoesOn DEF Vacant, CopyInv
      <4> QED
        BY <2>4, <3>1, <4>2, <4>3, LoneFromVacant
    <3>3. CASE GoOn(AfterWork) /\ dir' \in {dir, aside}
      <4>1. Vacant(dir)'
        BY <3>1, <3>3 DEF Vacant
      <4> QED
        BY <2>4, <3>1, <3>3, <4>1, GoesOn, LoneFromVacant DEF CopyInv
    <3> QED
      BY <1>12, <3>2, <3>3 DEF MoveIn, Restored
  <2> QED
    BY <1>0, <2>5, <2>6
<1> QED
  BY <1>3, <1>4, <1>5, <1>6, <1>7, <1>9, <1>10, <1>11, <1>12 DEF Command, WaitFails

LEMMA BesideKeepsLone ==
  ASSUME TypeOK, PlaceInv, SoundInv, LoneParts, Beside
  PROVE  LoneParts'
<1>0. /\ dir \in Directory /\ dir.live \in Database /\ archive \in Archives
      /\ archive.db \in Database
      /\ UNCHANGED <<srv, archive, gaveUp>> /\ Connected' = Connected
  BY DEF TypeOK, Directory, Archives, Beside, Begin, Quit, Install, Edit, PutBack,
     OnlyFiles, OnlyCommand, Files, Connected, Alive
<1>1. SnapshotIsWhole'
  BY <1>0 DEF LoneParts, SnapshotIsWhole
<1>2. CASE (\E op \in {"start", "stop", "restart", "backup", "restore"} : Begin(op))
           \/ Quit \/ \E b \in Builds : Install(b)
  <2>1. /\ dir' = dir
        /\ cmd'.at \notin {"staged", "swap", "moved"}
    BY <1>2 DEF Begin, Quit, Over, Install, MayMeddle, OnlyFiles, Idle
  <2> QED
    BY <1>0, <1>1, <2>1 DEF LoneParts, LoneInv, CopyInv
<1>3. CASE Edit \/ PutBack
  <2>1. cmd' = Idle /\ Connected = {}
    BY <1>3 DEF Edit, PutBack, MayMeddle, OnlyFiles
  <2>2. ~gaveUp => Vacant(dir)'
    <3>1. CASE Edit
      <4>1. /\ dir'.main = dir'.live /\ dir'.witness = dir.witness
            /\ dir'.live.opens = dir.live.opens
            /\ dir'.behind = dir.behind
        BY <1>0, <3>1 DEF Edit, Directory, Database
      <4> QED
        BY <4>1 DEF LoneParts, LoneInv, Vacant, Witnessed
    <3>2. CASE PutBack
      <4>1. dir' \in Directory /\ InPlace(dir', archive.db, dir'.witness)
        BY <1>0, <3>2, PlacedTypes DEF PutBack, InPlace
      <4> QED
        BY <1>0, <4>1, PlacedIsWitnessed DEF InPlace, Vacant
    <3> QED
      BY <1>3, <3>1, <3>2
  <2>3. LoneInv'
    BY <1>0, <2>1, <2>2 DEF LoneInv, Vacant, Idle
  <2> QED
    BY <1>1, <2>1, <2>3 DEF LoneParts, CopyInv, Idle
<1> QED
  BY <1>2, <1>3 DEF Beside

-----------------------------------------------------------------------------
(* The invariant, and what follows from it                                 *)

LEMMA NextCases ==
  ASSUME Next
  PROVE  (\E p \in Pids : Server(p) \/ Crash(p)) \/ Command \/ Beside
BY DEF Next, Beside

LEMMA NextKeepsTypes ==
  ASSUME DirInv, Next
  PROVE  TypeOK'
<1> USE DEF DirInv
<1>1. CASE \E p \in Pids : Server(p) \/ Crash(p)
  <2>1. PICK p \in Pids : Server(p) \/ Crash(p)
    BY <1>1
  <2>2. ServerTypes'
    BY <2>1, ServerKeepsTypes
  <2>3. UNCHANGED <<cmd, build, archive, aside, safety, gaveUp, meddling>>
    BY <2>1 DEF Server, Crash, OnlyServers, Open, Migrate, Check, Count, Witness,
       Ready, OpenUnlinked, Listen, Change, Finish
  <2> QED
    BY <2>2, <2>3 DEF TypeOK, ServerTypes
<1>2. CASE Command
  <2>1. CommandTypes'
    BY <1>2, CommandKeepsTypes
  <2>2. UNCHANGED <<build, meddling>>
    BY <1>2 DEF Command, StopSignal, StopKill, StopDone, Start, WaitReady, WaitFails,
       Backup, Stage, MoveAside, MoveIn, RemoveOld, OnlyCommand
  <2> QED
    BY <2>1, <2>2 DEF TypeOK, CommandTypes
<1>3. CASE Beside
  BY <1>3, BesideKeepsTypes
<1> QED
  BY <1>1, <1>2, <1>3, NextCases

LEMMA NextDirInv == DirInv /\ [Next]_vars => DirInv'
<1> SUFFICES ASSUME DirInv, [Next]_vars PROVE DirInv'
  OBVIOUS
<1> USE DEF DirInv
<1>1. CASE Next
  <2>1. TypeOK'
    BY <1>1, NextKeepsTypes
  <2>2. PlaceInv' /\ CmdInv' /\ ServerIsFindable'
    BY <1>1, <2>1, NextCases, ServerKeepsPlaces, CommandKeepsPlaces, CommandKeepsCmdInv,
       BesideKeepsPlaces
  <2>3. SoundInv'
    BY <1>1, NextCases, ServerKeepsSound, CommandKeepsSound, BesideKeepsSound
  <2>4. LoneParts'
    BY <1>1, NextCases, ServerKeepsLone, CommandKeepsLone, BesideKeepsLone DEF LoneParts
  <2> QED
    BY <2>1, <2>2, <2>3, <2>4 DEF LoneParts
<1>2. CASE UNCHANGED vars
  BY <1>2 DEF vars, TypeOK, PlaceInv, CmdInv, SoundInv, LoneInv, CopyInv, ServerIsFindable,
     SnapshotIsWhole, Alive, Connected, readPid
<1> QED
  BY <1>1, <1>2

LEMMA DirInvHolds == Spec => []DirInv
  BY InitDirInv, NextDirInv, PTL DEF Spec

\* Files, processes and commands keep their types, for any numbers of them.
THEOREM TypeCorrect == Spec => []TypeOK
<1>1. DirInv => TypeOK
  BY DEF DirInv
<1> QED
  BY <1>1, DirInvHolds, PTL

\* stop, backup and restore find the server that is alive, whatever signals,
\* kills, interrupted commands and replaced directories went before; only a
\* start that gave up waiting loses one (lifecycle-lib.mjs, stopServer).
THEOREM Findable == Spec => []ServerIsFindable
<1>1. DirInv => ServerIsFindable
  BY DEF DirInv
<1> QED
  BY <1>1, DirInvHolds, PTL

\* A backup leaves nothing in the write-ahead log that it does not copy, unless a
\* server was killed or out of sight (backup-lib.mjs, createBackup).
THEOREM SnapshotWhole == Spec => []SnapshotIsWhole
<1>1. DirInv => SnapshotIsWhole
  BY DEF DirInv
<1> QED
  BY <1>1, DirInvHolds, PTL

\* A server reads rows of its own schema, through upgrades, roll-backs, restores
\* and files put back (database.ts, migrations.ts).
THEOREM SchemaKnown == Spec => []SchemaIsKnown
<1>1. DirInv => SchemaIsKnown
  BY DEF DirInv, LoneInv, SchemaIsKnown
<1> QED
  BY <1>1, DirInvHolds, PTL

\* The directory that a restore removes has left a copy of what was committed to
\* it (backup-lib.mjs, restoreBackup).
THEOREM ReplacedKept == Spec => ReplacedIsKept
<1> DEFINE Kept == cmd.at = "moved" /\ aside'.there = FALSE /\ cmd'.at # "moved"
                     => gaveUp \/ aside.unclean \/ aside = Gone \/ safety = aside.live
<1>1. DirInv => Kept
  BY DEF DirInv, LoneInv, CopyInv
<1>2. DirInv /\ [Next]_vars => [Kept]_vars
  BY <1>1
<1> QED
  BY <1>2, DirInvHolds, PTL DEF Spec, ReplacedIsKept

\* A rollback is reported only of a database that was put in place behind its
\* witness, a mismatch only of rows that were edited or left unsealed, and edited
\* rows never pass (integrity.ts, checkRollback, verifyConfigHmac).
THEOREM VerdictsCaused == Spec => VerdictsHaveCause
<1> DEFINE Right(p) ==
      /\ Witness(p) /\ ReportsRollback(p) /\ ~gaveUp => dir.behind
      /\ Ready(p) /\ "edited" \in dir.live.past => verifyConfigHmac # "ok"
      /\ Ready(p) /\ verifyConfigHmac = "mismatch"
           => dir.live.past \cap {"edited", "unsealed"} # {}
<1>1. ASSUME DirInv, NEW p \in Pids PROVE Right(p)
  <2>0. /\ dir.live.rows \in Nat /\ dir.live.seal \in Int /\ dir.live.opens \in Nat
        /\ dir.witness \in Nat /\ DataSound(dir.live)
    BY <1>1 DEF DirInv, TypeOK, SoundInv, Directory, Database
  <2>1. ASSUME Witness(p), ReportsRollback(p), ~gaveUp PROVE dir.behind
    <3>1. p \in Connected /\ srv[p].phase = "counted"
      BY <2>1 DEF Witness, Connected, Alive, Opening
    <3>2. srv[p].opens = dir.live.opens /\ Witnessed(dir)
      BY <1>1, <2>1, <3>1 DEF DirInv, LoneInv
    <3> QED
      BY <2>0, <2>1, <3>2 DEF ReportsRollback, Witnessed
  <2>2. "edited" \in dir.live.past => verifyConfigHmac # "ok"
    BY <2>0 DEF DataSound, verifyConfigHmac
  <2>3. verifyConfigHmac = "mismatch" => dir.live.past \cap {"edited", "unsealed"} # {}
    BY <2>0 DEF DataSound, verifyConfigHmac
  <2> QED
    BY <2>1, <2>2, <2>3
<1>2. DirInv /\ [Next]_vars => [\A p \in Pids : Right(p)]_vars
  BY <1>1
<1> QED
  BY <1>2, DirInvHolds, PTL DEF Spec, VerdictsHaveCause
=============================================================================
