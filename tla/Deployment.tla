------------------------------ MODULE Deployment ------------------------------
(***************************************************************************)
(* The production host (scripts/daily-figures, scripts/sqlite_backup.py,   *)
(* scripts/sqlite_migration_guard.py, docker-compose.yml): one container   *)
(* over one SQLite file, and the commands that back it up, replace it and  *)
(* move it to the next release.                                            *)
(*                                                                         *)
(* A command holds the lock file and goes step by step; at any step it may *)
(* give up (set -e), be killed, or die with the host.  The kernel then     *)
(* frees the lock, and everything already done stays done.                 *)
(*                                                                         *)
(* The application writes through the file that bears the database's name: *)
(* SQLite refuses a write to one that was moved while it was open.  A      *)
(* transaction that is open while the file is moved is not modelled.       *)
(*                                                                         *)
(* A definition named Faulty... stands in for the one below it when the    *)
(* properties are tested against a plausible mistake; nothing uses it.     *)
(***************************************************************************)
EXTENDS Naturals, Sequences, FiniteSets

CONSTANTS
    Records,    \* what users may enter
    MaxRelease, \* bound on the releases published
    Retention,  \* BACKUP_RETENTION
    MaxRestores \* bound on the restores by the databases they put aside

ASSUME BoundsAssumption == /\ MaxRelease \in Nat \ {0} /\ Retention \in Nat \ {0}
                           /\ MaxRestores \in Nat

Releases == 1 .. MaxRelease
Schemas == 0 .. MaxRelease

(* schema: 0 without tables; a release has the Alembic head of its own     *)
(* number.  temp: an _alembic_tmp_ table that a dead migration has left,   *)
(* empty or with rows.                                                     *)
Database == [schema : Schemas, temp : {"no", "empty", "rows"}, data : SUBSET Records]
NoDatabase == [schema |-> 0, temp |-> "none", data |-> {}]

UpdateSteps == {"backup", "build", "preflight", "mark", "stop", "final_backup", "guard",
                "migrate", "verify", "up", "smoke"}
RestoreSteps == {"backup", "stop", "final_backup", "aside", "install", "migrate", "up"}
InstallSteps == {"build", "stop", "final_backup", "migrate", "up"}
Job == [cmd : {"update"}, pc : UpdateSteps] \cup [cmd : {"restore"}, pc : RestoreSteps]
          \cup [cmd : {"install"}, pc : InstallSteps]
Idle == [cmd |-> "none", pc |-> "idle"]

Phases == {"cutover_pending", "migration_started", "temp_table_guard_failed",
           "migration_failed", "post_migration_integrity_failed",
           "migration_complete_activation_pending", "activation_failed",
           "post_deploy_smoke_failed"}

VARIABLES
    image,     \* the release that the configured image tag names
    container, \* the release the container was created from, and whether it runs
    database,  \* production.db
    backups,   \* database-backups, the newest last
    aside,     \* the production.pre-restore files
    staged,    \* .restore-candidate, from its verification until it is installed
    marker,    \* update-in-progress
    job,       \* what holds the lock
    saved,     \* (history) every record acknowledged to a user
    abandoned  \* (history) the last update, restore or install did not reach its end

vars == <<image, container, database, backups, aside, staged, marker, job, saved, abandoned>>

TypeOK ==
    /\ image \in Releases
    /\ container \in [image : Releases, up : BOOLEAN]
    /\ database \in Database \cup {NoDatabase}
    /\ backups \in Seq(Database) /\ Len(backups) <= Retention
    /\ aside \subseteq Database
    /\ staged \in Database \cup {NoDatabase}
    /\ marker \in Phases \cup {"none"}
    /\ job \in Job \cup {Idle}
    /\ saved \subseteq Records
    /\ abandoned \in BOOLEAN

(* A fresh installation (install_command()). *)
Init ==
    /\ image = 1
    /\ container = [image |-> 1, up |-> TRUE]
    /\ database = [schema |-> 1, temp |-> "no", data |-> {}]
    /\ backups = <<>>
    /\ aside = {}
    /\ staged = NoDatabase
    /\ marker = "none"
    /\ job = Idle
    /\ saved = {}
    /\ abandoned = FALSE

-----------------------------------------------------------------------------
(* The application, and commands of one step. *)

(* A record needs a database with its tables. *)
Record(n) ==
    /\ container.up /\ n \notin saved /\ database.schema > 0
    /\ database' = [database EXCEPT !.data = @ \cup {n}]
    /\ saved' = saved \cup {n}
    /\ UNCHANGED <<image, container, backups, aside, staged, marker, job, abandoned>>

(* Where the file is missing, a request creates it as it connects          *)
(* (sqlite3.connect()), without a table.                                   *)
Recreate ==
    /\ container.up /\ database = NoDatabase
    /\ database' = [schema |-> 0, temp |-> "no", data |-> {}]
    /\ UNCHANGED <<image, container, backups, aside, staged, marker, job, saved, abandoned>>

(* create_backup(): published whole or not at all, the oldest dropped. *)
WithBackup ==
    LET all == Append(backups, database)
    IN  IF Len(all) > Retention THEN Tail(all) ELSE all

(* daily-figures backup, by hand or by the timer, which skips a run when   *)
(* the lock is held.                                                       *)
Backup ==
    /\ job = Idle /\ database # NoDatabase
    /\ backups' = WithBackup
    /\ UNCHANGED <<image, container, database, aside, staged, marker, job, saved, abandoned>>

(* dc up -d: the container is made anew when the image has changed. *)
Start ==
    /\ job = Idle /\ database # NoDatabase
    /\ container' = [image |-> image, up |-> TRUE]
    /\ UNCHANGED <<image, database, backups, aside, staged, marker, job, saved, abandoned>>
Stop ==
    /\ job = Idle
    /\ container' = [container EXCEPT !.up = FALSE]
    /\ UNCHANGED <<image, database, backups, aside, staged, marker, job, saved, abandoned>>
(* dc restart: the container as it was made. *)
Restart ==
    /\ job = Idle /\ database # NoDatabase
    /\ container' = [container EXCEPT !.up = TRUE]
    /\ UNCHANGED <<image, database, backups, aside, staged, marker, job, saved, abandoned>>

-----------------------------------------------------------------------------
(* Steps of a command. *)

At(cmd, pc) == job.cmd = cmd /\ job.pc = pc

Fail == job' = Idle /\ abandoned' = TRUE
FailAt(phase) == marker' = phase /\ Fail
Finish == job' = Idle /\ abandoned' = FALSE
Goto(pc) == job' = [job EXCEPT !.pc = pc] /\ UNCHANGED abandoned

(* A lock that is a file of its own stays behind (DF_TEST_MODE). *)
FaultyGiveUp ==
    /\ job # Idle
    /\ abandoned' = TRUE
    /\ UNCHANGED <<image, container, database, backups, aside, staged, marker, saved, job>>

(* fatal, set -e, a kill or a power cut before the next step.  A container *)
(* that ran is restarted with the host (unless-stopped).                   *)
GiveUp ==
    /\ job # Idle /\ Fail
    /\ staged' = IF job.cmd = "restore" THEN NoDatabase ELSE staged
    /\ UNCHANGED <<image, container, database, backups, aside, marker, saved>>

(* create_backup_locked() *)
TakeBackup ==
    /\ job.pc \in {"backup", "final_backup"}
    /\ backups' = IF database = NoDatabase THEN backups ELSE WithBackup
    /\ Goto(CASE At("update", "backup") -> "build"
              [] At("update", "final_backup") -> "guard"
              [] At("install", "final_backup") -> "migrate"
              [] At("restore", "backup") -> "stop"
              [] At("restore", "final_backup") -> "aside")
    /\ marker' = IF At("update", "final_backup") THEN "migration_started" ELSE marker
    /\ UNCHANGED <<image, container, database, aside, staged, saved>>

(* dc stop.  A restore takes no notice when it fails and goes on before a   *)
(* running application (dc stop || true).                                  *)
StopForJob ==
    /\ job.pc = "stop"
    /\ \/ container' = [container EXCEPT !.up = FALSE]
       \/ job.cmd = "restore" /\ UNCHANGED container
    /\ Goto("final_backup")
    /\ UNCHANGED <<image, database, backups, aside, staged, marker, saved>>

(* flask db upgrade that stops short or is killed: some revisions are in,  *)
(* and the next may have left its temporary table.                         *)
HalfMigrated ==
    \E s \in Schemas, t \in {"no", "empty", "rows"} :
        /\ database.schema <= s /\ s <= image
        /\ database' = [database EXCEPT !.schema = s, !.temp = t]

-----------------------------------------------------------------------------
(* update_command() *)

BeginUpdate ==
    /\ job = Idle /\ marker = "none" /\ database # NoDatabase
    /\ job' = [cmd |-> "update", pc |-> "backup"]
    /\ UNCHANGED <<image, container, database, backups, aside, staged, marker, saved, abandoned>>

(* The operator has looked into it and removes the marker. *)
ClearMarker ==
    /\ job = Idle /\ marker # "none"
    /\ marker' = "none"
    /\ UNCHANGED <<image, container, database, backups, aside, staged, job, saved, abandoned>>

(* git merge and dc build, with whatever has been published; an install    *)
(* builds what has been checked out by hand.                               *)
Build ==
    /\ job.pc = "build"
    /\ image' \in image .. MaxRelease
    /\ Goto(IF job.cmd = "update" THEN "preflight" ELSE "stop")
    /\ UNCHANGED <<container, database, backups, aside, staged, marker, saved>>

(* candidate_database_preflight(), on a copy; the guard inspects the live  *)
(* database and refuses a temporary table with rows, and one without       *)
(* tables.                                                                 *)
Preflight ==
    /\ At("update", "preflight") /\ database.temp # "rows" /\ database.schema > 0
    /\ Goto("mark")
    /\ UNCHANGED <<image, container, database, backups, aside, staged, marker, saved>>

Mark ==
    /\ At("update", "mark")
    /\ marker' = "cutover_pending"
    /\ Goto("stop")
    /\ UNCHANGED <<image, container, database, backups, aside, staged, saved>>

(* migration_guard cleanup *)
Guard ==
    /\ At("update", "guard")
    /\ \/ /\ database.temp # "rows"
          /\ database' = [database EXCEPT !.temp = "no"]
          /\ Goto("migrate")
          /\ UNCHANGED marker
       \/ /\ FailAt("temp_table_guard_failed")
          /\ UNCHANGED database
    /\ UNCHANGED <<image, container, backups, aside, staged, saved>>

(* The exit code of the migration is not looked at. *)
FaultyMigrateForUpdate ==
    /\ At("update", "migrate")
    /\ HalfMigrated
    /\ Goto("verify")
    /\ UNCHANGED <<image, container, backups, aside, staged, marker, saved>>

(* flask db upgrade: to the head, or not. *)
MigrateForUpdate ==
    /\ At("update", "migrate")
    /\ \/ /\ database' = [database EXCEPT !.schema = image]
          /\ Goto("verify")
          /\ UNCHANGED marker
       \/ HalfMigrated /\ FailAt("migration_failed")
       \/ HalfMigrated /\ Fail /\ UNCHANGED marker
    /\ UNCHANGED <<image, container, backups, aside, staged, saved>>

(* verify_database() after the migration. *)
Verify ==
    /\ At("update", "verify")
    /\ \/ marker' = "migration_complete_activation_pending" /\ Goto("up")
       \/ FailAt("post_migration_integrity_failed")
    /\ UNCHANGED <<image, container, database, backups, aside, staged, saved>>

(* dc up -d *)
Activate ==
    /\ At("update", "up")
    /\ \/ /\ container' = [image |-> image, up |-> TRUE]
          /\ Goto("smoke")
          /\ UNCHANGED marker
       \/ /\ FailAt("activation_failed")
          /\ UNCHANGED container
    /\ UNCHANGED <<image, database, backups, aside, staged, saved>>

(* The marker is dropped before the checks. *)
FaultySmoke ==
    /\ At("update", "smoke")
    /\ marker' = "none"
    /\ \/ Finish /\ UNCHANGED container
       \/ Fail /\ container' \in {container, [container EXCEPT !.up = FALSE]}
    /\ UNCHANGED <<image, database, backups, aside, staged, saved>>

(* Health and mount of what now runs; the Alembic head is asked for, but   *)
(* in a condition, where its exit code is lost.  The stop of a candidate   *)
(* that fails may fail too (dc stop || true).                              *)
Smoke ==
    /\ At("update", "smoke")
    /\ \/ marker' = "none" /\ Finish /\ UNCHANGED container
       \/ /\ FailAt("post_deploy_smoke_failed")
          /\ container' \in {container, [container EXCEPT !.up = FALSE]}
    /\ UNCHANGED <<image, database, backups, aside, staged, saved>>

-----------------------------------------------------------------------------
(* restore_command() *)

Snapshots == {backups[i] : i \in 1 .. Len(backups)} \cup aside

(* The candidate is verified and copied beside the database, before the    *)
(* operator confirms and the lock is taken.                                *)
Stage(candidate) ==
    /\ staged = NoDatabase
    /\ staged' = candidate
    /\ UNCHANGED <<image, container, database, backups, aside, marker, job, saved, abandoned>>

(* Not confirmed, or the lock not had in time. *)
Unstage ==
    /\ staged # NoDatabase /\ job.cmd # "restore"
    /\ staged' = NoDatabase
    /\ UNCHANGED <<image, container, database, backups, aside, marker, job, saved, abandoned>>

BeginRestore ==
    /\ job = Idle /\ staged # NoDatabase /\ Cardinality(aside) < MaxRestores
    /\ job' = [cmd |-> "restore", pc |-> "backup"]
    /\ UNCHANGED <<image, container, database, backups, aside, staged, marker, saved, abandoned>>

(* The old database is overwritten. *)
FaultyMoveAside ==
    /\ At("restore", "aside")
    /\ database' = NoDatabase
    /\ Goto("install")
    /\ UNCHANGED <<image, container, backups, aside, staged, marker, saved>>

MoveAside ==
    /\ At("restore", "aside")
    /\ IF database = NoDatabase THEN UNCHANGED <<database, aside>>
       ELSE database' = NoDatabase /\ aside' = aside \cup {database}
    /\ Goto("install")
    /\ UNCHANGED <<image, container, backups, staged, marker, saved>>

InstallStaged ==
    /\ At("restore", "install")
    /\ database' = staged /\ staged' = NoDatabase
    /\ Goto("migrate")
    /\ UNCHANGED <<image, container, backups, aside, marker, saved>>

-----------------------------------------------------------------------------
(* install_command() over an installation that is there, and the end it    *)
(* has in common with a restore.                                           *)

(* It refuses a missing database, and does not look at the marker. *)
BeginInstall ==
    /\ job = Idle /\ database # NoDatabase
    /\ job' = [cmd |-> "install", pc |-> "build"]
    /\ UNCHANGED <<image, container, database, backups, aside, staged, marker, saved, abandoned>>

(* flask db upgrade: a revision that the image does not know is refused. *)
MigrateUnmarked ==
    /\ job.cmd \in {"restore", "install"} /\ job.pc = "migrate"
    /\ \/ /\ database.schema <= image
          /\ database' = [database EXCEPT !.schema = image]
          /\ Goto("up")
       \/ HalfMigrated /\ Fail
    /\ UNCHANGED <<image, container, backups, aside, staged, marker, saved>>

(* dc up -d *)
ActivateUnmarked ==
    /\ job.cmd \in {"restore", "install"} /\ job.pc = "up"
    /\ container' = [image |-> image, up |-> TRUE]
    /\ Finish
    /\ UNCHANGED <<image, database, backups, aside, staged, marker, saved>>

-----------------------------------------------------------------------------
Step ==
    \/ TakeBackup \/ StopForJob
    \/ Build \/ Preflight \/ Mark \/ Guard \/ MigrateForUpdate \/ Verify \/ Activate \/ Smoke
    \/ MoveAside \/ InstallStaged \/ MigrateUnmarked \/ ActivateUnmarked

Next ==
    \/ \E n \in Records : Record(n)
    \/ Recreate \/ Backup \/ Start \/ Stop \/ Restart
    \/ \E candidate \in Snapshots : Stage(candidate)
    \/ Unstage \/ ClearMarker
    \/ BeginUpdate \/ BeginRestore \/ BeginInstall \/ Step \/ GiveUp

(* A script goes on to its end or dies, and systemd repeats the backup     *)
(* every day, at times when no other command holds the lock.               *)
Fairness == WF_vars(Step \/ GiveUp) /\ SF_vars(Backup)

Spec == Init /\ [][Next]_vars /\ Fairness

-----------------------------------------------------------------------------
(* Properties. *)

(* A restore is replacing the database before an application that it has   *)
(* failed to stop.                                                         *)
Unstopped ==
    /\ job.cmd = "restore" /\ container.up
    /\ job.pc \in {"final_backup", "aside", "install", "migrate", "up"}

Custody == INSTANCE DataCustody WITH
    serving <- container.up,
    unstopped <- Unstopped,
    database <- IF database = NoDatabase THEN [missing |-> TRUE]
                ELSE [data |-> database.data, schema |-> database.schema],
    aside <- {old.data : old \in aside}

(* At whatever step a command dies, and whatever is started after it, the  *)
(* data is in custody: recorded only by a serving application, put aside   *)
(* whole before it is replaced, and converted and replaced only behind an  *)
(* application that is stopped, or that a restore has failed to stop       *)
(* (restore_command(), update_command(), install_command()).               *)
DataIsInCustody == Custody!Spec

Foreign == container.up /\ container.image # database.schema

(* No step of an update, an install or a restore puts an application       *)
(* before tables of another release, except a restore that has failed to   *)
(* stop it; otherwise only an operator does, who starts the container by   *)
(* hand after a command that was abandoned.                                *)
ForeignSchemaOnlyByHand ==
    [][~Foreign /\ Foreign' => Unstopped \/ (abandoned /\ job = Idle)]_vars

(* An update that ends with the application stopped, after it has stopped  *)
(* it or died meanwhile, leaves its marker for whoever comes next.         *)
EndsServingOrMarked ==
    [][/\ job.cmd = "update" /\ job' = Idle /\ ~container'.up
       /\ job.pc \in {"final_backup", "guard", "migrate", "verify", "up", "smoke"}
       => marker' # "none"]_vars

Copies == UNION {old.data : old \in Snapshots}

(* Every record reaches a file other than the live database, however many  *)
(* commands fail, because none can keep the lock and the timer comes       *)
(* again (acquire_lock(), create_backup_locked()).                         *)
BackupsCatchUp == \A n \in Records : n \in saved ~> n \in Copies
===============================================================================
