----------------------------- MODULE DataDirectory -----------------------------
(***************************************************************************)
(* The data directory over the life of an installation: servers that open  *)
(* it, check it, write to it and close it (openSecretStorage and           *)
(* openDatabase, storage/src; index.ts and runtime.ts, server/src), and    *)
(* the commands start, stop, restart, backup and restore that an operator  *)
(* runs beside them (scripts/control.mjs, lifecycle-lib.mjs,               *)
(* backup-lib.mjs), with releases installed over one another               *)
(* (self-update.ts).                                                       *)
(*                                                                         *)
(* Commands and servers are processes of their own: they share files, the  *)
(* port and signals.  One command runs at a time; servers may outlive it.  *)
(* The database is its main file and what the write-ahead log adds to it   *)
(* (SQLite); a clean close of the last connection moves the log into the   *)
(* main file.  The log stays too short to be moved before that.  Keys are  *)
(* the subject of RootKeyRotation.                                         *)
(***************************************************************************)
EXTENDS Integers, FiniteSets, FiniteSetsExt

CONSTANTS
  MaxServers,  \* servers alive at a time; a place stands for a process id
  MaxOpens,    \* opens counted in one database
  Releases,    \* releases in all; each has a schema version of its own
  MaxChanges,  \* changes of configuration rows in one database
  MaxFaults,   \* kills, interrupted commands, slow starts and refused writes
  MaxMeddling  \* changes of the files and of the release by the operator

ASSUME DirectoryAssumption ==
  /\ MaxServers \in Nat \ {0} /\ MaxOpens \in Nat /\ MaxChanges \in Nat
  /\ MaxFaults \in Nat /\ MaxMeddling \in Nat
  /\ Releases \in Nat \ {0}

VARIABLES
  dir,        \* the files of the data directory
  srv,        \* the servers, by process id
  cmd,        \* the running command
  build,      \* the installed release
  archive,    \* the last backup
  aside,      \* .bayz-old: the directory the last restore moved away
  safety,     \* .bayz-pre-restore: the database it copied first
  gaveUp,     \* some start gave up (history)
  faults, meddling

vars == <<dir, srv, cmd, build, archive, aside, safety,
          gaveUp, faults, meddling>>

Pids == 1..MaxServers
NoPid == 0
Builds == 1..Releases
NoServer == [phase |-> "none", build |-> 1, opens |-> 0, in |-> "none",
             astray |-> FALSE]
Idle == [op |-> "none", at |-> "idle", pid |-> NoPid, wasUp |-> FALSE]

\* rows stands for the content of the configuration tables, seal for the
\* HMAC over them.  past is history: how the rows came to differ from it,
\* "edited" from outside or "unsealed" by a server that has not closed yet.  So is
\* behind: the database was put in place with fewer opens than its witness has
\* counted, and has not caught up.
Empty == [rows |-> 0, opens |-> 0, seal |-> -1, head |-> 0, chain |-> 0,
          past |-> {}]
Fresh == [there |-> TRUE, main |-> Empty, live |-> Empty, witness |-> 0,
          behind |-> FALSE, pid |-> NoPid, ready |-> FALSE, unclean |-> FALSE]
Gone == [Fresh EXCEPT !.there = FALSE]
NoArchive == [there |-> FALSE, db |-> Empty, witness |-> 0,
              whole |-> TRUE, excused |-> FALSE]

Opening == {"spawned", "open", "checked", "counted", "witnessed", "ready"}
Alive == {p \in Pids : srv[p].phase \in Opening \cup {"up", "stopping"}}
isAlive(pid) == pid \in Alive
Connected == {p \in Alive : srv[p].in = "dir"}
Listening == {p \in Pids : srv[p].phase = "up"}

MayFault == faults < MaxFaults /\ faults' = faults + 1
MayMeddle == cmd = Idle /\ meddling < MaxMeddling /\ meddling' = meddling + 1

----------------------------------------------------------------------------
(* A server.                                                               *)

Phase(p, phase) == srv' = [srv EXCEPT ![p].phase = phase]
Ends(p) == srv' = [srv EXCEPT ![p] = NoServer]
OnlyServers == UNCHANGED <<cmd, build, archive, aside, safety, gaveUp, meddling>>

\* The connection goes: the last one takes the log into the main file.
Closed(p, d) ==
  IF Connected \subseteq {p} THEN [d EXCEPT !.main = d.live, !.unclean = FALSE] ELSE d

\* The process ends without closing: the log stays as it is.
Die(p) ==
  /\ Ends(p)
  /\ dir' = IF p \in Connected THEN [dir EXCEPT !.unclean = TRUE] ELSE dir

\* For mutation: the head of the database is not compared with the release.
OpenAny(p) ==
  /\ srv[p].phase = "spawned"
  /\ srv' = [srv EXCEPT ![p].phase = "open", ![p].in = "dir"]
  /\ dir' = IF dir.there THEN dir ELSE Fresh
  /\ UNCHANGED faults
  /\ OnlyServers

\* openDatabase: a newer database is refused before anything is applied.
Open(p) ==
  /\ srv[p].phase = "spawned"
  /\ LET d == IF dir.there THEN dir ELSE Fresh IN
     IF d.live.head > srv[p].build
     THEN Ends(p) /\ dir' = Closed(p, d)
     ELSE /\ srv' = [srv EXCEPT ![p].phase = "open", ![p].in = "dir"]
          /\ dir' = d
  /\ UNCHANGED faults
  /\ OnlyServers

\* runMigrations: each migration, with its ledger row and the version, is
\* one transaction.
Migrate(p) ==
  /\ srv[p].phase = "open" /\ srv[p].in = "dir"
  /\ dir.live.head < srv[p].build
  /\ dir' = [dir EXCEPT !.live.head = @ + 1]
  /\ UNCHANGED <<srv, faults>>
  /\ OnlyServers

\* migrationChain folds the migrations that the release has.
ChainOf(p) == Min({dir.live.head, srv[p].build})
RefusesChain(p) == dir.live.chain \notin {0, ChainOf(p)}

\* verifyMigrationChain: recorded by the first open, compared by the others.
Check(p) ==
  /\ srv[p].phase = "open" /\ srv[p].in = "dir"
  /\ dir.live.head >= srv[p].build
  /\ IF RefusesChain(p)
     THEN Ends(p) /\ dir' = Closed(p, dir)
     ELSE Phase(p, "checked") /\ dir' = [dir EXCEPT !.live.chain = ChainOf(p)]
  /\ UNCHANGED faults
  /\ OnlyServers

\* checkRollback, first half: the counter inside the database.
Count(p) ==
  /\ srv[p].phase = "checked" /\ srv[p].in = "dir"
  /\ dir' = [dir EXCEPT !.live.opens = @ + 1,
                        !.behind = @ /\ dir.live.opens + 1 < dir.witness]
  /\ srv' = [srv EXCEPT ![p].phase = "counted", ![p].opens = dir.live.opens + 1]
  /\ UNCHANGED faults
  /\ OnlyServers

ReportsRollback(p) == srv[p].opens < dir.witness

\* Second half: the witness beside the database; the write may be refused.
Witness(p) ==
  /\ srv[p].phase = "counted" /\ srv[p].in = "dir"
  /\ srv' = [srv EXCEPT ![p].phase = "witnessed", ![p].opens = 0]
  /\ \/ /\ dir' = [dir EXCEPT !.witness = Max({@, srv[p].opens})]
        /\ UNCHANGED faults
     \/ MayFault /\ UNCHANGED dir
  /\ OnlyServers

verifyConfigHmac ==
  CASE dir.live.seal = -1 -> "unsealed"
    [] dir.live.seal = dir.live.rows -> "ok"
    [] OTHER -> "mismatch"

\* For mutation: an open that has reported a mismatch seals the rows.
ReadySealing(p) ==
  /\ srv[p].phase = "witnessed" /\ srv[p].in = "dir"
  /\ Phase(p, "ready")
  /\ dir' = [dir EXCEPT !.live.seal = dir.live.rows]
  /\ UNCHANGED faults
  /\ OnlyServers

\* The registries are verified, the runtime is built and "Bayz storage
\* ready" is logged with the process id.
Ready(p) ==
  /\ srv[p].phase = "witnessed" /\ srv[p].in = "dir"
  /\ Phase(p, "ready")
  /\ UNCHANGED <<dir, faults>>
  /\ OnlyServers

\* A server whose directory was replaced under it opens what is unlinked.
OpenUnlinked(p) ==
  /\ srv[p].phase \in Opening \ {"spawned", "ready"} /\ srv[p].in # "dir"
  /\ Phase(p, "ready")
  /\ UNCHANGED <<dir, faults>>
  /\ OnlyServers

\* app.listen: on a port in use it rejects, and nothing closes the database.
Listen(p) ==
  /\ srv[p].phase = "ready"
  /\ \/ /\ Listening = {}
        /\ Phase(p, "up")
        /\ dir' = IF srv[p].in = "dir" THEN [dir EXCEPT !.ready = TRUE] ELSE dir
     \/ Listening # {} /\ Die(p)
  /\ UNCHANGED faults
  /\ OnlyServers

\* A registry is changed through the API.
Change(p) ==
  /\ srv[p].phase = "up" /\ srv[p].in = "dir"
  /\ dir.live.rows < MaxChanges
  /\ dir' = [dir EXCEPT !.live.rows = @ + 1,
                        !.live.past = @ \cup {"unsealed"}]
  /\ UNCHANGED <<srv, faults>>
  /\ OnlyServers

\* shutdown: the last request is over, close() seals the rows and closes.
Finish(p) ==
  /\ srv[p].phase = "stopping"
  /\ Ends(p)
  /\ dir' = IF srv[p].in # "dir" THEN dir
            ELSE Closed(p, [dir EXCEPT !.live.seal = dir.live.rows,
                                       !.live.past = @ \ {"edited", "unsealed"}])
  /\ UNCHANGED faults
  /\ OnlyServers

\* Killed from outside or out of memory.
Crash(p) == p \in Alive /\ MayFault /\ Die(p) /\ OnlyServers

Server(p) ==
  \/ Open(p) \/ Migrate(p) \/ Check(p) \/ Count(p) \/ Witness(p) \/ Ready(p)
  \/ OpenUnlinked(p) \/ Listen(p) \/ Change(p) \/ Finish(p)

----------------------------------------------------------------------------
(* The commands.                                                           *)

At(at) == cmd' = [cmd EXCEPT !.at = at]
Over == cmd' = Idle
readPid == dir.pid
removePid == dir' = [dir EXCEPT !.pid = NoPid]
OnlyCommand == UNCHANGED <<build, gaveUp, meddling>>
Files == <<archive, aside, safety>>

\* The prelude of backup and restore.
wasRunning(op) == op \in {"backup", "restore"} /\ isAlive(readPid)

\* What an earlier restore left beside the directory is never read again.
Begin(op) ==
  /\ cmd = Idle
  /\ op # "stop" => /\ Alive # Pids
                    /\ dir.live.opens + Cardinality(Alive) < MaxOpens
  /\ cmd' = [op |-> op, pid |-> NoPid,
             wasUp |-> wasRunning(op),
             at |-> CASE op = "start" -> "start"
                      [] op \in {"stop", "restart"} \/ wasRunning(op) -> "stop"
                      [] OTHER -> "work"]
  /\ safety' = Empty /\ aside' = Gone
  /\ UNCHANGED <<dir, srv, archive, faults>>
  /\ OnlyCommand

\* Where a command goes on once its server is stopped, and once it has done
\* its work (the finally that restarts).
AfterStop == CASE cmd.op = "stop" -> "idle" [] cmd.op = "restart" -> "start"
               [] OTHER -> "work"
AfterWork == IF cmd.wasUp THEN "start" ELSE "idle"
GoOn(at) == CASE at = "idle" -> Over
              [] at = "start" -> cmd' = [Idle EXCEPT !.op = "start", !.at = at]
              [] OTHER -> cmd' = [cmd EXCEPT !.at = at, !.pid = NoPid]

\* SIGTERM: shutdown is registered once, just before listen; before that,
\* and the second time, the signal ends the process.
Sigterm(p) ==
  \/ srv[p].phase \in {"ready", "up"} /\ Phase(p, "stopping") /\ UNCHANGED dir
  \/ srv[p].phase \in Opening \cup {"stopping"} /\ Die(p)

\* stopServer up to the signal.
StopSignal ==
  /\ cmd.at = "stop"
  /\ \/ /\ ~isAlive(readPid)
        /\ removePid /\ GoOn(AfterStop)
        /\ UNCHANGED srv
     \/ /\ isAlive(readPid)
        /\ Sigterm(readPid)
        /\ cmd' = [cmd EXCEPT !.at = "term", !.pid = readPid]
  /\ UNCHANGED <<Files, faults>>
  /\ OnlyCommand

\* For mutation: nothing follows the grace period.
StopPatiently ==
  /\ cmd.at = "term" /\ isAlive(cmd.pid) /\ Sigterm(cmd.pid)
  /\ srv[cmd.pid].phase \in Opening
  /\ UNCHANGED <<cmd, Files, faults>>
  /\ OnlyCommand

\* The grace period is over.
StopKill ==
  /\ cmd.at = "term" /\ isAlive(cmd.pid)
  /\ Die(cmd.pid)
  /\ UNCHANGED <<cmd, Files, faults>>
  /\ OnlyCommand

\* For mutation: the signal is taken for the end.
StopDoneAtOnce ==
  /\ cmd.at = "term"
  /\ removePid /\ GoOn(AfterStop)
  /\ UNCHANGED <<srv, Files, faults>>
  /\ OnlyCommand

StopDone ==
  /\ cmd.at = "term" /\ ~isAlive(cmd.pid)
  /\ removePid /\ GoOn(AfterStop)
  /\ UNCHANGED <<srv, Files, faults>>
  /\ OnlyCommand

\* cmdStart and startServer: nothing is spawned beside a live pid; the
\* spawned server runs the installed release.
Start ==
  /\ cmd.at = "start"
  /\ \/ /\ isAlive(readPid)
        /\ Over
        /\ UNCHANGED <<dir, srv>>
     \/ /\ ~isAlive(readPid)
        /\ LET p == Min(Pids \ Alive) IN
             /\ srv' = [srv EXCEPT ![p] = [NoServer EXCEPT !.phase = "spawned",
                                                           !.build = build]]
             /\ dir' = [(IF dir.there THEN dir ELSE Fresh) EXCEPT !.pid = p]
             /\ cmd' = [cmd EXCEPT !.at = "wait", !.pid = p]
  /\ UNCHANGED <<Files, faults>>
  /\ OnlyCommand

\* waitForHealthWatching reads two things in the log, which outlives a
\* server: that some server was ready, and a line of this one.
ourReady == dir.ready /\ srv[cmd.pid].phase \in {"ready", "up", "stopping"}

WaitReady ==
  /\ cmd.at = "wait" /\ isAlive(cmd.pid)
  /\ ourReady /\ Listening # {}
  /\ Over
  /\ UNCHANGED <<dir, srv, Files, faults>>
  /\ OnlyCommand

\* The child is gone, or the time is up and it is left to itself.
WaitFails ==
  /\ cmd.at = "wait"
  /\ \/ ~isAlive(cmd.pid) /\ UNCHANGED <<srv, gaveUp, faults>>
     \/ /\ isAlive(cmd.pid) /\ MayFault
        /\ srv' = [srv EXCEPT ![cmd.pid].astray = TRUE] /\ gaveUp' = TRUE
  /\ removePid /\ Over
  /\ UNCHANGED Files
  /\ UNCHANGED <<build, meddling>>

\* createBackup copies bayz.db and integrity.json as they are.  It leaves the log
\* out, and with it opens that the witness may have counted already.
Backup ==
  /\ cmd.at = "work" /\ cmd.op = "backup"
  /\ GoOn(AfterWork)
  /\ archive' =
       IF dir.witness = 0 THEN archive  \* a file is missing
       ELSE [there |-> TRUE, witness |-> dir.witness,
             db |-> dir.main,
             whole |-> dir.main = dir.live,
             excused |-> dir.unclean \/ gaveUp]
  /\ UNCHANGED <<dir, srv, aside, safety, faults>>
  /\ OnlyCommand

\* For mutation: nothing is copied first.
StageUncopied(replace) ==
  /\ cmd.at = "work" /\ cmd.op = "restore"
  /\ \/ (~archive.there \/ (dir.there /\ ~replace)) /\ GoOn(AfterWork)
     \/ archive.there /\ (replace \/ dir.live = Empty) /\ At("staged")
  /\ UNCHANGED <<dir, srv, Files, faults>>
  /\ OnlyCommand

\* restoreBackup up to the copy of what is replaced.  A directory in which no
\* server has written anything yet may lack bayz.db, and is not refused then.
Stage(replace) ==
  /\ cmd.at = "work" /\ cmd.op = "restore"
  /\ \/ /\ ~archive.there \/ (dir.there /\ ~replace)
        /\ GoOn(AfterWork) /\ UNCHANGED safety
     \/ /\ archive.there /\ (replace \/ dir.live = Empty)
        /\ At("staged")
        /\ safety' = dir.main
  /\ UNCHANGED <<dir, srv, archive, aside, faults>>
  /\ OnlyCommand

\* The archived database is put in a directory.
Placed(d) ==
  [d EXCEPT !.main = archive.db, !.live = archive.db,
            !.behind = archive.db.opens < d.witness]

\* Where the servers find what they have open once directories were renamed.
Moved(dirTo, asideTo) ==
  [p \in Pids |-> [srv[p] EXCEPT !.in = CASE @ = "dir" -> dirTo
                                          [] @ = "aside" -> asideTo
                                          [] OTHER -> @]]

\* The first rename: the directory, with all that is in it, moves away.
MoveAside ==
  /\ cmd.at = "staged"
  /\ At("swap")
  /\ aside' = dir /\ dir' = Gone
  /\ srv' = Moved("aside", "lost")
  /\ UNCHANGED <<archive, safety, faults>>
  /\ OnlyCommand

\* The second rename.  It is refused on a directory that a server has made
\* meanwhile, or fails; then the first one is undone.
MoveIn ==
  /\ cmd.at = "swap"
  /\ \/ /\ ~dir.there
        /\ At("moved")
        /\ dir' = Placed([Fresh EXCEPT !.witness = archive.witness])
        /\ UNCHANGED <<srv, aside, safety, faults>>
     \/ /\ IF dir.there THEN UNCHANGED faults ELSE MayFault
        /\ GoOn(AfterWork)
        /\ IF aside.there
           THEN dir' = aside /\ srv' = Moved("lost", "dir")
           ELSE UNCHANGED <<dir, srv>>
        /\ aside' = Gone /\ safety' = Empty
  /\ UNCHANGED <<archive>>
  /\ OnlyCommand

RemoveOld ==
  /\ cmd.at = "moved"
  /\ GoOn(AfterWork)
  /\ aside' = Gone /\ safety' = Empty
  /\ srv' = Moved("dir", "lost")
  /\ UNCHANGED <<dir, archive, faults>>
  /\ OnlyCommand

\* The command is interrupted; servers are detached from it.
Quit ==
  /\ cmd # Idle /\ MayFault
  /\ Over
  /\ UNCHANGED <<dir, srv, Files>>
  /\ OnlyCommand

Command ==
  \/ StopSignal \/ StopKill \/ StopDone \/ Start \/ WaitReady \/ WaitFails
  \/ Backup \/ \E replace \in BOOLEAN : Stage(replace)
  \/ MoveAside \/ MoveIn \/ RemoveOld

----------------------------------------------------------------------------
(* The operator beside the commands, between two of them.                  *)

OnlyFiles == UNCHANGED <<srv, cmd, archive, aside, safety,
                         gaveUp, faults>>

\* Another release is put in place of the installed one, newer (runUpdate) or
\* older (rollback); no server is stopped or started.
Install(b) ==
  /\ MayMeddle
  /\ b # build /\ build' = b
  /\ UNCHANGED dir
  /\ OnlyFiles

\* Rows are changed in the file while nothing has it open.
Edit ==
  /\ MayMeddle
  /\ dir.there /\ Connected = {} /\ dir.live.head > 0
  /\ dir.live.rows < MaxChanges
  /\ LET db == [dir.live EXCEPT !.rows = @ + 1, !.past = @ \cup {"edited"}]
     IN dir' = [dir EXCEPT !.main = db, !.live = db]
  /\ UNCHANGED build
  /\ OnlyFiles

\* An older bayz.db is put back without the witness that belongs to it.
PutBack ==
  /\ MayMeddle
  /\ dir.there /\ Connected = {} /\ archive.there
  /\ dir' = Placed(dir)
  /\ UNCHANGED build
  /\ OnlyFiles

Init ==
  /\ dir = Gone /\ aside = Gone
  /\ srv = [p \in Pids |-> NoServer]
  /\ cmd = Idle
  /\ build \in Builds
  /\ archive = NoArchive
  /\ safety = Empty /\ gaveUp = FALSE
  /\ faults = 0 /\ meddling = 0

Next ==
  \/ \E p \in Pids : Server(p) \/ Crash(p)
  \/ \E op \in {"start", "stop", "restart", "backup", "restore"} : Begin(op)
  \/ Command
  \/ Quit
  \/ \E b \in Builds : Install(b)
  \/ Edit
  \/ PutBack

\* The command and the start of a server run on by themselves; a server that
\* is asked to stop may be held up by its last request for ever.
Starts(p) == Open(p) \/ Migrate(p) \/ Check(p) \/ Count(p) \/ Witness(p) \/ Ready(p)
             \/ OpenUnlinked(p) \/ Listen(p)

Spec == Init /\ [][Next]_vars /\ WF_vars(Command)
        /\ \A p \in Pids : WF_vars(Starts(p))

----------------------------------------------------------------------------
Database == [rows : 0..MaxChanges, opens : Nat,
             seal : -1..MaxChanges, head : {0} \cup Builds, chain : {0} \cup Builds,
             past : SUBSET {"edited", "unsealed"}]
Directory == [there : BOOLEAN, main : Database, live : Database,
              witness : Nat, behind : BOOLEAN, pid : {NoPid} \cup Pids,
              ready : BOOLEAN, unclean : BOOLEAN]

Servers == [phase : Opening \cup {"none", "up", "stopping"}, build : Builds,
            opens : Nat, in : {"none", "dir", "aside", "lost"}, astray : BOOLEAN]
Commands == [op : {"none", "start", "stop", "restart", "backup", "restore"},
             at : {"idle", "start", "stop", "term", "wait", "work", "staged", "swap", "moved"},
             pid : {NoPid} \cup Pids, wasUp : BOOLEAN]
Archives == [there : BOOLEAN, db : Database, witness : Nat,
             whole : BOOLEAN, excused : BOOLEAN]

TypeOK ==
  /\ dir \in Directory /\ aside \in Directory /\ safety \in Database
  /\ srv \in [Pids -> Servers]
  /\ cmd \in Commands
  /\ build \in Builds
  /\ archive \in Archives
  /\ gaveUp \in BOOLEAN
  /\ faults \in 0..MaxFaults /\ meddling \in 0..MaxMeddling

\* A live server is the one the pidfile names, so that stop, backup and
\* restore find it; only a start that gave up waiting loses one
\* (scripts/lifecycle-lib.mjs stopServer, startHealthy; control.mjs).
ServerIsFindable == \A p \in Alive : p = readPid \/ srv[p].astray

\* A backup holds everything the servers have committed, unless one was
\* killed or was out of sight when it was made (backup-lib.mjs createBackup
\* leaves the write-ahead log out and relies on the stop before it).
SnapshotIsWhole == archive.there => archive.whole \/ archive.excused

\* A directory that a restore has removed has left a copy of all that was
\* committed to it, provided its servers had stopped cleanly (backup-lib.mjs
\* restoreBackup: the copies are taken before the directory is moved).
ReplacedIsKept ==
  [][cmd.at = "moved" /\ aside'.there = FALSE /\ cmd'.at # "moved"
       => gaveUp \/ aside.unclean \/ aside = Gone \/ safety = aside.live]_vars

\* The rows have the schema of the release that reads them, however releases,
\* databases and archives were exchanged, as long as no start was given up
\* (database.ts, verifySchemaNotAheadOfHead; migrations.ts runMigrations).
SchemaIsKnown ==
  ~gaveUp => \A p \in Connected :
                      dir.live.head = srv[p].build \/ srv[p].phase = "open"

\* A server's verdicts on the directory it opens have a cause, though not
\* always the one they name.  A rollback is reported only of a database that was
\* put in place behind its witness and has not caught up, by the operator or by
\* the restore of a backup that had left out the log of a killed server (a false
\* alarm: RollbackIsReal): never because a server died between counter and witness or could not write
\* the witness; only two opens that overlap, the first being given up, may
\* mistake each other for one.  Rows changed outside are reported by every open
\* until the next seal; nothing else is reported but rows that a server has
\* changed and not sealed, because it was killed (a false alarm) or still runs
\* (integrity.ts checkRollback, verifyConfigHmac, sealConfigHmac;
\* secret-repository.ts close).
VerdictsHaveCause ==
  [][\A p \in Pids :
       /\ Witness(p) /\ ReportsRollback(p) /\ ~gaveUp
            => dir.behind
       /\ Ready(p) /\ "edited" \in dir.live.past => verifyConfigHmac # "ok"
       /\ Ready(p) /\ verifyConfigHmac = "mismatch"
            => dir.live.past \cap {"edited", "unsealed"} # {}]_vars

\* Too much to ask: a rollback is reported only where the operator has touched
\* the files.  Two servers that were killed, a backup and a restore are enough.
RollbackIsReal ==
  [][\A p \in Pids : Witness(p) /\ ReportsRollback(p) /\ ~gaveUp => meddling > 0]_vars

\* Every command ends, though its server may never finish its last request
\* (lifecycle-lib.mjs stopServer, waitForHealthWatching).
CommandEnds == cmd # Idle ~> cmd = Idle

\* A database that its release has brought up to date is opened by it:
\* upgrade-ladder.test.ts "upgrading BAYZ does not lose data ... then opened
\* with the current code" (integrity.ts verifyMigrationChain).
UpgradeOpens ==
  \A p \in Connected :
    srv[p].phase = "open" /\ dir.live.head = srv[p].build => ~RefusesChain(p)

\* An interrupted restore leaves a usable directory: docs/backup-restore.md
\* "Failed/interrupted restore -> the original runtime stays usable".
RestoreInterrupted == cmd = Idle /\ aside.there => dir.there
=============================================================================
