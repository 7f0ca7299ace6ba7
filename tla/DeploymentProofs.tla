--------------------------- MODULE DeploymentProofs ---------------------------
(***************************************************************************)
(* Theorems about Deployment, for any records, releases, number of kept    *)
(* backups and restores, whatever dies when: the data is in custody (the   *)
(* refinement of DataCustody), no command puts an application before       *)
(* foreign tables but a restore that has failed to stop it, and an update  *)
(* that ends with it stopped says so.                                      *)
(***************************************************************************)
EXTENDS Deployment, TLAPS

Up == container.up
Present == database # NoDatabase

(* The variables that matter here have their types. *)
Types ==
    /\ image \in Releases
    /\ container \in [image : Releases, up : BOOLEAN]
    /\ database \in Database \cup {NoDatabase}
    /\ aside \subseteq Database
    /\ staged \in Database \cup {NoDatabase}
    /\ backups \in Seq(Database)
    /\ job \in Job \cup {Idle}
    /\ saved \subseteq Records
    /\ abandoned \in BOOLEAN

(* Whatever is or may become the database holds only acknowledged records. *)
Acknowledged ==
    /\ database.data \subseteq saved
    /\ \A old \in Snapshots : old.data \subseteq saved
    /\ staged.data \subseteq saved

(* Between its stop and its start the application is down, but for a       *)
(* restore that has failed to stop it.                                     *)
DownBehindJob ==
    /\ job.pc \in {"final_backup", "guard", "migrate", "verify", "up", "aside", "install"}
          => ~Up \/ job.cmd = "restore"
    /\ job.pc = "smoke" => Up

(* The database is missing, or without a record, in the middle of a        *)
(* restore, or after one that was abandoned there; until it is installed,  *)
(* the candidate is there.                                                 *)
PresentForJob ==
    /\ job.cmd \in {"update", "install"} => Present
    /\ job.cmd = "restore" /\ job.pc \in {"migrate", "up"} => Present
    /\ job.cmd = "restore" /\ job.pc \notin {"migrate", "up"} => staged # NoDatabase
    /\ job.pc = "install" => database.data = {} /\ database.schema = 0

(* Where a command has come to the release of its image, and where all     *)
(* three agree.                                                            *)
ReleasesAgree ==
    /\ job = Idle /\ ~abandoned => container.image = image /\ database.schema = image
    /\ job.cmd = "update" /\ job.pc \in {"verify", "up", "smoke"} => database.schema = image
    /\ job.cmd \in {"restore", "install"} /\ job.pc = "up" => database.schema = image
    /\ job.pc = "smoke" => container.image = image

(* An update that has begun to stop the application has left its marker.   *)
MarkedForJob ==
    job.cmd = "update" /\ job.pc \in {"stop", "final_backup", "guard", "migrate", "verify",
                                       "up", "smoke"}
    => marker # "none"

DeploymentInv ==
    Types /\ Acknowledged /\ DownBehindJob /\ PresentForJob /\ ReleasesAgree /\ MarkedForJob

-----------------------------------------------------------------------------
(* Commands and databases. *)

(* What holds the lock is an update, a restore, an install, or nothing. *)
LEMMA JobKinds ==
  ASSUME NEW j \in Job \cup {Idle}
  PROVE  \/ j.cmd = "update" /\ j \in Job /\ j.pc \in UpdateSteps
         \/ j.cmd = "restore" /\ j \in Job /\ j.pc \in RestoreSteps
         \/ j.cmd = "install" /\ j \in Job /\ j.pc \in InstallSteps
         \/ j = Idle /\ j.cmd = "none" /\ j.pc = "idle"
BY DEF Job, Idle

(* A command that goes on is the same command at another step. *)
LEMMA JobGoesOn ==
  ASSUME NEW j \in Job, NEW pc,
         j.cmd = "update" => pc \in UpdateSteps, j.cmd = "restore" => pc \in RestoreSteps,
         j.cmd = "install" => pc \in InstallSteps,
         NEW k, k = [j EXCEPT !.pc = pc]
  PROVE  k \in Job /\ k.cmd = j.cmd /\ k.pc = pc /\ k # Idle
BY DEF Job, Idle

(* A database that is there has a form, a data set, and is not the missing *)
(* one; the missing one has neither tables nor records.                    *)
LEMMA DatabaseFields ==
  ASSUME NEW d \in Database
  PROVE  /\ d.schema \in Schemas /\ d.data \subseteq Records
         /\ d # NoDatabase
BY DEF Database, NoDatabase, Schemas

LEMMA MissingFields == NoDatabase.schema = 0 /\ NoDatabase.data = {}
BY DEF NoDatabase

(* One field of a database replaced. *)
LEMMA DatabaseChanged ==
  ASSUME NEW d \in Database, NEW schema \in Schemas, NEW temp \in {"no", "empty", "rows"},
         NEW data \in SUBSET Records
  PROVE  /\ [d EXCEPT !.schema = schema] \in Database
         /\ [d EXCEPT !.schema = schema].schema = schema
         /\ [d EXCEPT !.schema = schema].data = d.data
         /\ [d EXCEPT !.temp = temp] \in Database
         /\ [d EXCEPT !.temp = temp].schema = d.schema
         /\ [d EXCEPT !.temp = temp].data = d.data
         /\ [d EXCEPT !.schema = schema, !.temp = temp] \in Database
         /\ [d EXCEPT !.schema = schema, !.temp = temp].data = d.data
         /\ [d EXCEPT !.data = data] \in Database
         /\ [d EXCEPT !.data = data].schema = d.schema
         /\ [d EXCEPT !.data = data].data = data
BY DEF Database

(* The backups after one more: a sequence of the old ones and the new.     *)
LEMMA BackupTaken ==
  ASSUME backups \in Seq(Database), database \in Database
  PROVE  /\ WithBackup \in Seq(Database)
         /\ \A i \in 1 .. Len(WithBackup) :
               WithBackup[i] \in {backups[k] : k \in 1 .. Len(backups)} \cup {database}
<1> DEFINE all == Append(backups, database)
<1>1. /\ all \in Seq(Database) /\ Len(all) = Len(backups) + 1
      /\ \A i \in 1 .. Len(all) :
            all[i] \in {backups[k] : k \in 1 .. Len(backups)} \cup {database}
  OBVIOUS
<1> HIDE DEF all
<1>2. /\ Tail(all) \in Seq(Database) /\ Len(Tail(all)) = Len(all) - 1
      /\ \A i \in 1 .. Len(Tail(all)) : Tail(all)[i] = all[i + 1] /\ i + 1 \in 1 .. Len(all)
  BY <1>1
<1>3. WithBackup = IF Len(all) > Retention THEN Tail(all) ELSE all
  BY DEF WithBackup, all
<1> QED  BY <1>1, <1>2, <1>3

-----------------------------------------------------------------------------
(* Every action keeps the invariant. *)

(* The record and the commands of one step. *)
LEMMA RecordKeeps ==
  ASSUME DeploymentInv, NEW n \in Records, Record(n)
  PROVE  DeploymentInv'
<1> USE DEF DeploymentInv
<1>1. database \in Database /\ saved \subseteq Records
  BY MissingFields DEF Record, Types
<1>2. PICK data \in SUBSET Records : data = database.data \cup {n}
  BY <1>1, DatabaseFields
<1>3. database' = [database EXCEPT !.data = data]  BY <1>2 DEF Record
<1>4. database' \in Database /\ database'.schema = database.schema
      /\ database'.data = database.data \cup {n}
  BY <1>1, <1>2, <1>3 DEF Database
<1>5. database' # NoDatabase /\ database # NoDatabase  BY <1>1, <1>4, DatabaseFields
<1>6. Types'  BY <1>1, <1>4 DEF Record, Types
<1>7. Acknowledged'  BY <1>4 DEF Record, Acknowledged, Snapshots
<1>8. UNCHANGED <<image, container, staged, marker, job, abandoned>> /\ database.schema # 0
  BY <1>1, DatabaseFields DEF Record, Schemas
<1>9. job.pc # "install"  BY <1>8 DEF PresentForJob
<1>10. PresentForJob'  BY <1>5, <1>8, <1>9 DEF PresentForJob, Present
<1>11. DownBehindJob' /\ ReleasesAgree' /\ MarkedForJob'
  BY <1>4, <1>8 DEF DownBehindJob, ReleasesAgree, MarkedForJob, Up
<1> QED  BY <1>6, <1>7, <1>10, <1>11

(* A request that finds no file makes an empty one. *)
LEMMA RecreateKeeps ==
  ASSUME DeploymentInv, Recreate
  PROVE  DeploymentInv'
<1> USE DEF DeploymentInv
<1>1. database' \in Database /\ database'.schema = database.schema
      /\ database'.data = {} /\ database'.schema = 0 /\ database' # NoDatabase
  <2>1. 0 \in Schemas  BY BoundsAssumption DEF Schemas
  <2>2. database' = [schema |-> 0, temp |-> "no", data |-> {}]  BY DEF Recreate
  <2>3. database' \in Database  BY <2>1, <2>2 DEF Database
  <2>4. database'.schema = 0 /\ database'.data = {}  BY <2>2
  <2>5. database = NoDatabase  BY DEF Recreate
  <2> QED  BY <2>3, <2>4, <2>5, MissingFields, DatabaseFields
<1>2. Types' /\ Acknowledged'  BY <1>1 DEF Recreate, Types, Acknowledged, Snapshots
<1>3. UNCHANGED <<image, container, staged, marker, job, abandoned>>  BY DEF Recreate
<1>4. PresentForJob'  BY <1>1, <1>3 DEF PresentForJob, Present
<1>5. DownBehindJob' /\ ReleasesAgree' /\ MarkedForJob'
  BY <1>1, <1>3 DEF DownBehindJob, ReleasesAgree, MarkedForJob, Up
<1> QED  BY <1>2, <1>4, <1>5

(* A backup by hand or by the timer. *)
LEMMA BackupKeeps ==
  ASSUME DeploymentInv, Backup
  PROVE  DeploymentInv'
<1> USE DEF DeploymentInv
<1>1. database \in Database  BY DEF Backup, Types
<1>2. backups' \in Seq(Database) /\ \A old \in Snapshots' : old \in Snapshots \cup {database}
  BY <1>1, BackupTaken DEF Backup, Types, Snapshots
<1>3. Acknowledged'  BY <1>2 DEF Backup, Acknowledged
<1> QED  BY <1>2, <1>3
        DEF Backup, Types, DownBehindJob, PresentForJob, ReleasesAgree, MarkedForJob, Up, Present

(* The operator starts, stops or restarts the container, or clears the    *)
(* marker.                                                                 *)
LEMMA HandsKeep ==
  ASSUME DeploymentInv, Start \/ Stop \/ Restart \/ ClearMarker
  PROVE  DeploymentInv'
<1> USE DEF DeploymentInv
<1>0. container \in [image : Releases, up : BOOLEAN] /\ image \in Releases  BY DEF Types
<1>1. UNCHANGED <<image, database, backups, aside, staged, job, saved, abandoned>> /\ job = Idle
  BY DEF Start, Stop, Restart, ClearMarker
<1>2. /\ container' \in [image : Releases, up : BOOLEAN]
      /\ container'.image \in {image, container.image}
  <2>1. CASE Start
    <3>1. container' = [image |-> image, up |-> TRUE]  BY <2>1 DEF Start
    <3> QED  BY <1>0, <3>1
  <2>2. CASE Stop
    <3>1. container' = [container EXCEPT !.up = FALSE]  BY <2>2 DEF Stop
    <3> QED  BY <1>0, <3>1
  <2>3. CASE Restart
    <3>1. container' = [container EXCEPT !.up = TRUE]  BY <2>3 DEF Restart
    <3> QED  BY <1>0, <3>1
  <2>4. CASE ClearMarker
    <3>1. container' = container  BY <2>4 DEF ClearMarker
    <3> QED  BY <1>0, <3>1
  <2> QED  BY <2>1, <2>2, <2>3, <2>4
<1> QED  BY <1>1, <1>2
        DEF Types, Acknowledged, Snapshots, DownBehindJob, PresentForJob, ReleasesAgree,
            MarkedForJob, Up, Present, Idle

(* A command that gives up. *)
LEMMA GiveUpKeeps ==
  ASSUME DeploymentInv, GiveUp
  PROVE  DeploymentInv'
<1>1. staged' \in {staged, NoDatabase} /\ NoDatabase.data = {}
  BY MissingFields DEF GiveUp
<1> QED  BY <1>1 DEF DeploymentInv, GiveUp, Fail, Types, Acknowledged, Snapshots, DownBehindJob,
                    PresentForJob, ReleasesAgree, MarkedForJob, Up, Present, Idle

(* A candidate staged or dropped. *)
LEMMA StageKeeps ==
  ASSUME DeploymentInv, Unstage \/ \E candidate \in Snapshots : Stage(candidate)
  PROVE  DeploymentInv'
<1> USE DEF DeploymentInv
<1>1. Snapshots \subseteq Database  BY DEF Snapshots, Types
<1>2. /\ staged' \in Database \cup {NoDatabase} /\ staged'.data \subseteq saved
      /\ job.cmd = "restore" => staged' # NoDatabase \/ job.pc \in {"migrate", "up"}
  BY <1>1, MissingFields, DatabaseFields DEF Stage, Unstage, Acknowledged
<1>3. UNCHANGED <<image, container, database, backups, aside, marker, job, saved, abandoned>>
  BY DEF Stage, Unstage
<1> QED  BY <1>2, <1>3 DEF Types, Acknowledged, Snapshots, DownBehindJob, PresentForJob,
                          ReleasesAgree, MarkedForJob, Up, Present

(* The start of a command. *)
LEMMA BeginKeeps ==
  ASSUME DeploymentInv, BeginUpdate \/ BeginRestore \/ BeginInstall
  PROVE  DeploymentInv'
<1> USE DEF DeploymentInv
<1>1. /\ job' \in Job
      /\ \/ job'.cmd = "update" /\ job'.pc = "backup" /\ Present
         \/ job'.cmd = "restore" /\ job'.pc = "backup" /\ staged # NoDatabase
         \/ job'.cmd = "install" /\ job'.pc = "build" /\ Present
  BY DEF BeginUpdate, BeginRestore, BeginInstall, Job, UpdateSteps, RestoreSteps, InstallSteps,
         Present
<1>2. UNCHANGED <<image, container, database, backups, aside, staged, marker, saved, abandoned>>
  BY DEF BeginUpdate, BeginRestore, BeginInstall
<1> QED  BY <1>1, <1>2
        DEF Types, Acknowledged, Snapshots, DownBehindJob, PresentForJob,
            ReleasesAgree, MarkedForJob, Up, Present, Idle

-----------------------------------------------------------------------------
(* The steps of a command. *)

(* A command goes to another of its steps. *)
LEMMA CommandGoesOn ==
  ASSUME Types, job.cmd \in {"update", "restore", "install"}, NEW next, Goto(next),
         job.cmd = "update" => next \in UpdateSteps, job.cmd = "restore" => next \in RestoreSteps,
         job.cmd = "install" => next \in InstallSteps
  PROVE  /\ job' \in Job /\ job'.cmd = job.cmd /\ job'.pc = next /\ job' # Idle
         /\ abandoned' = abandoned
<1>1. job \in Job  BY JobKinds DEF Types
<1> QED  BY <1>1, JobGoesOn DEF Goto

(* A command that fails leaves no claim on the rest of the state. *)
LEMMA FailKeeps ==
  ASSUME Types', Fail, Acknowledged, saved' = saved, staged' = staged,
         database'.data \subseteq saved, \A old \in Snapshots' : old.data \subseteq saved
  PROVE  DeploymentInv'
BY DEF DeploymentInv, Fail, Acknowledged, DownBehindJob, PresentForJob, ReleasesAgree,
       MarkedForJob, Up, Present, Idle

(* A migration that stops short. *)
LEMMA HalfMigratedDatabase ==
  ASSUME Types, Present, HalfMigrated
  PROVE  database' \in Database /\ database'.data = database.data
<1>1. database \in Database  BY DEF Types, Present
<1>2. PICK schema \in Schemas, temp \in {"no", "empty", "rows"} :
         database' = [database EXCEPT !.schema = schema, !.temp = temp]
  BY DEF HalfMigrated
<1> QED  BY <1>1, <1>2 DEF Database

(* The database at the release of the image. *)
LEMMA MigratedDatabase ==
  ASSUME Types, Present, database' = [database EXCEPT !.schema = image]
  PROVE  database' \in Database /\ database'.data = database.data /\ database'.schema = image
<1>1. database \in Database /\ image \in Schemas
  BY BoundsAssumption DEF Types, Present, Releases, Schemas
<1> QED  BY <1>1 DEF Database

(* create_backup_locked() in a command. *)
LEMMA TakeBackupKeeps ==
  ASSUME DeploymentInv, TakeBackup
  PROVE  DeploymentInv'
<1> USE DEF DeploymentInv
<1>1. backups' \in Seq(Database) /\ \A old \in Snapshots' : old \in Snapshots \cup {database}
  <2>1. CASE database = NoDatabase  BY <2>1 DEF TakeBackup, Types, Snapshots
  <2>2. CASE database # NoDatabase
    BY <2>2, BackupTaken DEF TakeBackup, Types, Snapshots
  <2> QED  BY <2>1, <2>2
<1>2. PICK pc \in {"backup", "final_backup"} : job.pc = pc  BY DEF TakeBackup
<1>3. job.cmd = "install" => pc = "final_backup"
  BY <1>2, JobKinds DEF Types, InstallSteps
<1>4. PICK next \in {"build", "guard", "stop", "aside", "migrate"} :
         /\ Goto(next)
         /\ job.cmd = "update" => next = IF pc = "backup" THEN "build" ELSE "guard"
         /\ job.cmd = "restore" => next = IF pc = "backup" THEN "stop" ELSE "aside"
         /\ job.cmd = "install" => next = "migrate"
         /\ job.cmd \in {"update", "restore", "install"}
  <2>1. CASE job.cmd = "update"
    <3>1. Goto(IF pc = "backup" THEN "build" ELSE "guard")  BY <1>2, <2>1 DEF TakeBackup, At
    <3> QED  BY <2>1, <3>1
  <2>2. CASE job.cmd = "restore"
    <3>1. Goto(IF pc = "backup" THEN "stop" ELSE "aside")  BY <1>2, <2>2 DEF TakeBackup, At
    <3> QED  BY <2>2, <3>1
  <2>3. CASE job.cmd = "install"
    <3>1. Goto("migrate")  BY <1>2, <1>3, <2>3 DEF TakeBackup, At
    <3> QED  BY <2>3, <3>1
  <2> QED  BY <1>2, <2>1, <2>2, <2>3, JobKinds DEF Types
<1>5. job' \in Job /\ job'.cmd = job.cmd /\ job'.pc = next /\ abandoned' = abandoned
  BY <1>4, CommandGoesOn DEF UpdateSteps, RestoreSteps, InstallSteps
<1>6. job.cmd = "update" /\ pc = "final_backup" => marker' # "none"
  BY <1>2 DEF TakeBackup, At
<1>7. UNCHANGED <<image, container, database, aside, staged, saved>>  BY DEF TakeBackup
<1>8. Types' /\ Acknowledged'  BY <1>1, <1>5, <1>7 DEF Types, Acknowledged
<1>9. DownBehindJob' /\ PresentForJob'
  <2>1. job.cmd = "install" \/ job.cmd = "restore" \/ job.cmd = "update"  BY <1>4
  <2>2. job'.pc \notin {"install", "smoke"}  BY <1>4, <1>5
  <2>3. PresentForJob'
    <3>1. job.cmd = "restore" => pc \notin {"migrate", "up"} /\ next \notin {"migrate", "up"}
      BY <1>4
    <3> QED  BY <1>2, <1>5, <1>7, <2>2, <3>1 DEF PresentForJob, Present
  <2>4. job.cmd # "restore" /\ job.pc = "final_backup" => ~Up  BY DEF DownBehindJob
  <2>5. job.cmd # "restore" /\ pc = "backup" => next = "build"  BY <1>3, <1>4, <2>1
  <2>6. Up' <=> Up  BY <1>7 DEF Up
  <2>7. DownBehindJob'  BY <1>2, <1>5, <2>2, <2>4, <2>5, <2>6 DEF DownBehindJob
  <2> QED  BY <2>3, <2>7
<1>10. ReleasesAgree' /\ MarkedForJob'
  BY <1>2, <1>4, <1>5, <1>6, <1>7 DEF ReleasesAgree, MarkedForJob, Idle
<1> QED  BY <1>8, <1>9, <1>10

(* dc stop *)
LEMMA StopForJobKeeps ==
  ASSUME DeploymentInv, StopForJob
  PROVE  DeploymentInv'
<1> USE DEF DeploymentInv
<1>1. /\ container' \in [image : Releases, up : BOOLEAN]
      /\ ~container'.up \/ job.cmd = "restore"
      /\ container'.image = container.image
  BY DEF StopForJob, Types
<1>2. job.cmd \in {"update", "restore", "install"}  BY JobKinds DEF StopForJob, Types
<1>3. job' \in Job /\ job'.cmd = job.cmd /\ job'.pc = "final_backup" /\ job' # Idle
      /\ abandoned' = abandoned
  BY <1>2, CommandGoesOn DEF StopForJob, UpdateSteps, RestoreSteps, InstallSteps
<1> QED  BY <1>1, <1>3
        DEF StopForJob, Types, Acknowledged, Snapshots, DownBehindJob, PresentForJob,
            ReleasesAgree, MarkedForJob, Up, Present

(* The steps of an update or an install up to the stop change no data. *)
LEMMA EarlyStepsKeep ==
  ASSUME DeploymentInv, Build \/ Preflight \/ Mark
  PROVE  DeploymentInv'
<1> USE DEF DeploymentInv
<1>1. image' \in Releases
  BY BoundsAssumption DEF Build, Preflight, Mark, Types, Releases
<1>2. job.cmd \in {"update", "install"} /\ job.pc \in {"build", "preflight", "mark"}
  BY JobKinds DEF Build, Preflight, Mark, At, Types, RestoreSteps
<1>3. PICK next \in {"preflight", "mark", "stop"} :
         /\ Goto(next) /\ (job.cmd = "install" => next = "stop")
         /\ job.cmd = "update" /\ next = "stop" => marker' # "none"
  BY <1>2 DEF Build, Preflight, Mark, At
<1>4. job' \in Job /\ job'.cmd = job.cmd /\ job'.pc = next /\ job' # Idle
      /\ abandoned' = abandoned
  BY <1>2, <1>3, CommandGoesOn DEF UpdateSteps, InstallSteps
<1>5. UNCHANGED <<container, database, backups, aside, staged, saved>>
  BY DEF Build, Preflight, Mark
<1> QED  BY <1>1, <1>2, <1>3, <1>4, <1>5
        DEF Types, Acknowledged, Snapshots, DownBehindJob, PresentForJob, ReleasesAgree,
            MarkedForJob, Up, Present

(* migration_guard cleanup *)
LEMMA GuardKeeps ==
  ASSUME DeploymentInv, Guard
  PROVE  DeploymentInv'
<1> USE DEF DeploymentInv
<1>1. job.cmd = "update" /\ job.pc = "guard" /\ database \in Database /\ ~Up
  BY DEF Guard, At, Types, PresentForJob, DownBehindJob, Present
<1>2. CASE Goto("migrate")
  <2>1. job' \in Job /\ job'.cmd = "update" /\ job'.pc = "migrate" /\ job' # Idle
        /\ abandoned' = abandoned
    BY <1>1, <1>2, CommandGoesOn DEF UpdateSteps
  <2>2. marker' = marker /\ database' = [database EXCEPT !.temp = "no"]
    BY <1>1, <2>1 DEF Guard, FailAt, Fail
  <2>3. database' \in Database /\ database'.data = database.data /\ database' # NoDatabase
    BY <1>1, <2>2, DatabaseFields DEF Database
  <2> QED  BY <1>1, <2>1, <2>2, <2>3
          DEF Guard, Types, Acknowledged, Snapshots, DownBehindJob, PresentForJob,
              ReleasesAgree, MarkedForJob, Up, Present
<1>3. CASE FailAt("temp_table_guard_failed") /\ UNCHANGED database
  BY <1>1, <1>3, FailKeeps DEF Guard, FailAt, Fail, Types, Acknowledged, Snapshots, Up
<1> QED  BY <1>2, <1>3 DEF Guard

(* flask db upgrade in an update *)
LEMMA MigrateForUpdateKeeps ==
  ASSUME DeploymentInv, MigrateForUpdate
  PROVE  DeploymentInv'
<1> USE DEF DeploymentInv
<1>1. job.cmd = "update" /\ job.pc = "migrate" /\ Present /\ ~Up
  BY DEF MigrateForUpdate, At, PresentForJob, DownBehindJob
<1>2. CASE Goto("verify") /\ database' = [database EXCEPT !.schema = image] /\ marker' = marker
  <2>1. job' \in Job /\ job'.cmd = "update" /\ job'.pc = "verify" /\ job' # Idle
        /\ abandoned' = abandoned
    BY <1>1, <1>2, CommandGoesOn DEF UpdateSteps
  <2>2. database' \in Database /\ database'.data = database.data /\ database'.schema = image
        /\ database' # NoDatabase
    BY <1>1, <1>2, MigratedDatabase, DatabaseFields
  <2> QED  BY <1>1, <1>2, <2>1, <2>2
          DEF MigrateForUpdate, Types, Acknowledged, Snapshots, DownBehindJob, PresentForJob,
              ReleasesAgree, MarkedForJob, Up, Present
<1>3. CASE HalfMigrated /\ Fail
  <2>1. database' \in Database /\ database'.data = database.data
    BY <1>1, <1>3, HalfMigratedDatabase
  <2> QED  BY <1>1, <1>3, <2>1, FailKeeps
          DEF MigrateForUpdate, Fail, Types, Acknowledged, Snapshots, Up
<1> QED  BY <1>2, <1>3 DEF MigrateForUpdate, FailAt

(* verify_database() *)
LEMMA VerifyKeeps ==
  ASSUME DeploymentInv, Verify
  PROVE  DeploymentInv'
<1> USE DEF DeploymentInv
<1>1. job.cmd = "update" /\ job.pc = "verify" /\ ~Up
  BY DEF Verify, At, DownBehindJob
<1>2. CASE Goto("up") /\ marker' = "migration_complete_activation_pending"
  <2>1. job' \in Job /\ job'.cmd = "update" /\ job'.pc = "up" /\ job' # Idle
        /\ abandoned' = abandoned
    BY <1>1, <1>2, CommandGoesOn DEF UpdateSteps
  <2> QED  BY <1>1, <1>2, <2>1
          DEF Verify, Types, Acknowledged, Snapshots, DownBehindJob, PresentForJob,
              ReleasesAgree, MarkedForJob, Up, Present
<1>3. CASE FailAt("post_migration_integrity_failed")
  BY <1>1, <1>3, FailKeeps DEF Verify, FailAt, Fail, Types, Acknowledged, Snapshots, Up
<1> QED  BY <1>2, <1>3 DEF Verify

(* dc up -d in an update *)
LEMMA ActivateKeeps ==
  ASSUME DeploymentInv, Activate
  PROVE  DeploymentInv'
<1> USE DEF DeploymentInv
<1>1. job.cmd = "update" /\ job.pc = "up" /\ Present /\ ~Up /\ database.schema = image
  BY DEF Activate, At, DownBehindJob, PresentForJob, ReleasesAgree
<1>2. CASE Goto("smoke") /\ container' = [image |-> image, up |-> TRUE] /\ marker' = marker
  <2>1. job' \in Job /\ job'.cmd = "update" /\ job'.pc = "smoke" /\ job' # Idle
        /\ abandoned' = abandoned
    BY <1>1, <1>2, CommandGoesOn DEF UpdateSteps
  <2> QED  BY <1>1, <1>2, <2>1
          DEF Activate, Types, Acknowledged, Snapshots, DownBehindJob, PresentForJob,
              ReleasesAgree, MarkedForJob, Up, Present
<1>3. CASE FailAt("activation_failed") /\ UNCHANGED container
  BY <1>1, <1>3, FailKeeps DEF Activate, FailAt, Fail, Types, Acknowledged, Snapshots, Up
<1> QED  BY <1>2, <1>3 DEF Activate

(* The checks of what now runs. *)
LEMMA SmokeKeeps ==
  ASSUME DeploymentInv, Smoke
  PROVE  DeploymentInv'
<1> USE DEF DeploymentInv
<1>1. job.cmd = "update" /\ job.pc = "smoke" /\ Present /\ Up
      /\ database.schema = image /\ container.image = image
  BY DEF Smoke, At, DownBehindJob, PresentForJob, ReleasesAgree
<1>2. CASE Finish /\ UNCHANGED container
  BY <1>1, <1>2 DEF Smoke, Finish, Types, Acknowledged, Snapshots, DownBehindJob,
       PresentForJob, ReleasesAgree, MarkedForJob, Up, Present, Idle
<1>3. CASE /\ FailAt("post_deploy_smoke_failed")
           /\ container' \in {container, [container EXCEPT !.up = FALSE]}
  <2>1. container' \in [image : Releases, up : BOOLEAN]
    BY <1>3 DEF Types
  <2> QED  BY <1>3, <2>1, FailKeeps DEF Smoke, FailAt, Fail, Types, Acknowledged, Snapshots
<1> QED  BY <1>2, <1>3 DEF Smoke

(* The old database is moved aside. *)
LEMMA MoveAsideKeeps ==
  ASSUME DeploymentInv, MoveAside
  PROVE  DeploymentInv'
<1> USE DEF DeploymentInv
<1>1. job.cmd = "restore" /\ job.pc = "aside" /\ staged # NoDatabase
  BY DEF MoveAside, At, PresentForJob
<1>2. job' \in Job /\ job'.cmd = "restore" /\ job'.pc = "install" /\ job' # Idle
      /\ abandoned' = abandoned
  BY <1>1, CommandGoesOn DEF MoveAside, RestoreSteps
<1>3. database' = NoDatabase /\ aside' \subseteq Database
      /\ aside' \subseteq aside \cup {database}
  BY DEF MoveAside, Types
<1>4. UNCHANGED <<image, container, backups, staged, marker, saved>>  BY DEF MoveAside
<1>5. Types' /\ Acknowledged'
  BY <1>2, <1>3, <1>4, MissingFields DEF Types, Acknowledged, Snapshots
<1> QED  BY <1>1, <1>2, <1>3, <1>4, <1>5, MissingFields
        DEF DownBehindJob, PresentForJob, ReleasesAgree, MarkedForJob, Up, Present

(* The candidate is put in its place. *)
LEMMA InstallStagedKeeps ==
  ASSUME DeploymentInv, InstallStaged
  PROVE  DeploymentInv'
<1> USE DEF DeploymentInv
<1>1. job.cmd = "restore" /\ job.pc = "install" /\ staged \in Database
  BY DEF InstallStaged, At, PresentForJob, Types
<1>2. job' \in Job /\ job'.cmd = "restore" /\ job'.pc = "migrate" /\ job' # Idle
      /\ abandoned' = abandoned
  BY <1>1, CommandGoesOn DEF InstallStaged, RestoreSteps
<1>3. database' \in Database /\ database' # NoDatabase /\ database'.data \subseteq saved
  BY <1>1, DatabaseFields DEF InstallStaged, Acknowledged
<1> QED  BY <1>1, <1>2, <1>3, MissingFields
        DEF InstallStaged, Types, Acknowledged, Snapshots, DownBehindJob, PresentForJob,
            ReleasesAgree, MarkedForJob, Up, Present

(* flask db upgrade in a restore or an install *)
LEMMA MigrateUnmarkedKeeps ==
  ASSUME DeploymentInv, MigrateUnmarked
  PROVE  DeploymentInv'
<1> USE DEF DeploymentInv
<1>1. /\ job.cmd \in {"restore", "install"} /\ job.pc = "migrate" /\ Present
      /\ ~Up \/ job.cmd = "restore"
  BY DEF MigrateUnmarked, PresentForJob, DownBehindJob
<1>2. CASE Goto("up") /\ database' = [database EXCEPT !.schema = image]
  <2>1. job' \in Job /\ job'.cmd = job.cmd /\ job'.pc = "up" /\ job' # Idle
        /\ abandoned' = abandoned
    BY <1>1, <1>2, CommandGoesOn DEF RestoreSteps, InstallSteps
  <2>2. database' \in Database /\ database'.data = database.data /\ database'.schema = image
        /\ database' # NoDatabase
    BY <1>1, <1>2, MigratedDatabase, DatabaseFields
  <2> QED  BY <1>1, <2>1, <2>2
          DEF MigrateUnmarked, Types, Acknowledged, Snapshots, DownBehindJob, PresentForJob,
              ReleasesAgree, MarkedForJob, Up, Present
<1>3. CASE HalfMigrated /\ Fail
  <2>1. database' \in Database /\ database'.data = database.data
    BY <1>1, <1>3, HalfMigratedDatabase
  <2> QED  BY <1>1, <1>3, <2>1, FailKeeps
          DEF MigrateUnmarked, Fail, Types, Acknowledged, Snapshots, Up
<1> QED  BY <1>2, <1>3 DEF MigrateUnmarked

(* dc up -d after it *)
LEMMA ActivateUnmarkedKeeps ==
  ASSUME DeploymentInv, ActivateUnmarked
  PROVE  DeploymentInv'
<1> USE DEF DeploymentInv
<1>1. job.cmd \in {"restore", "install"} /\ job.pc = "up" /\ Present /\ database.schema = image
  BY DEF ActivateUnmarked, PresentForJob, ReleasesAgree
<1> QED  BY <1>1
        DEF ActivateUnmarked, Finish, Types, Acknowledged, Snapshots, DownBehindJob,
            PresentForJob, ReleasesAgree, MarkedForJob, Up, Present, Idle

(* Every step keeps the invariant. *)
LEMMA InvStep ==
  ASSUME DeploymentInv, [Next]_vars
  PROVE  DeploymentInv'
<1>1. CASE Step
  BY <1>1, TakeBackupKeeps, StopForJobKeeps, EarlyStepsKeep, GuardKeeps,
     MigrateForUpdateKeeps, VerifyKeeps, ActivateKeeps, SmokeKeeps, MoveAsideKeeps,
     InstallStagedKeeps, MigrateUnmarkedKeeps, ActivateUnmarkedKeeps DEF Step
<1>2. CASE UNCHANGED vars
  BY <1>2 DEF vars, DeploymentInv, Types, Acknowledged, Snapshots, DownBehindJob, PresentForJob,
              ReleasesAgree, MarkedForJob, Up, Present
<1> QED  BY <1>1, <1>2, RecordKeeps, RecreateKeeps, BackupKeeps, HandsKeep, StageKeeps,
            GiveUpKeeps, BeginKeeps DEF Next

-----------------------------------------------------------------------------
(* The refinement. *)

(* The database as DataCustody sees it. *)
Seen(d) == IF d = NoDatabase THEN [missing |-> TRUE] ELSE [data |-> d.data, schema |-> d.schema]

(* The database that is missing there is the one that is missing here.     *)
LEMMA SeenMissing ==
  ASSUME NEW d \in Database \cup {NoDatabase}
  PROVE  Seen(d) = Custody!Missing <=> d = NoDatabase
<1>1. CASE d = NoDatabase  BY <1>1 DEF Seen, Custody!Missing
<1>2. CASE d # NoDatabase
  <2>1. Seen(d) = [data |-> d.data, schema |-> d.schema]  BY <1>2 DEF Seen
  <2>2. DOMAIN Seen(d) = {"data", "schema"}  BY <2>1
  <2>3. DOMAIN Custody!Missing = {"missing"}  BY DEF Custody!Missing
  <2>4. {"data", "schema"} # {"missing"}  OBVIOUS
  <2> QED  BY <1>2, <2>2, <2>3, <2>4
<1> QED  BY <1>1, <1>2

CustodyNext == [Custody!Next]_(Custody!vars)

(* Unstopped is true or false. *)
LEMMA UnstoppedBoolean == Unstopped \in BOOLEAN /\ Unstopped' \in BOOLEAN
BY DEF Unstopped

(* A step that DataCustody does not see. *)
LEMMA Unseen ==
  ASSUME container'.up = container.up, Unstopped' = Unstopped,
         Seen(database') = Seen(database), aside' = aside, saved' = saved
  PROVE  CustodyNext
<1>1. UNCHANGED Custody!vars  BY DEF Custody!vars, Seen
<1> QED  BY <1>1 DEF CustodyNext

(* A start or a stop, unless a restore goes on unstopped. *)
LEMMA Switched ==
  ASSUME container'.up = ~container.up, ~Unstopped, ~Unstopped',
         UNCHANGED <<database, aside, saved>>
  PROVE  CustodyNext
<1>1. Unstopped' = Unstopped  BY UnstoppedBoolean
<1>2. Custody!Switch  BY <1>1 DEF Custody!Switch
<1> QED  BY <1>2 DEF CustodyNext, Custody!Next

(* A restore that goes on unstopped, or is over. *)
LEMMA Overridden ==
  ASSUME container.up, container'.up = container.up, Unstopped' = ~Unstopped,
         Seen(database') = Seen(database), aside' = aside, saved' = saved
  PROVE  CustodyNext
<1>1. {old.data : old \in aside'} = {old.data : old \in aside}  OBVIOUS
<1>2. Custody!Override  BY <1>1, Zenon DEF Custody!Override, Seen
<1> QED  BY <1>2 DEF CustodyNext, Custody!Next

(* The container started or stopped, whether it ran or not. *)
LEMMA StartedOrStopped ==
  ASSUME container.up \in BOOLEAN, container'.up \in BOOLEAN, ~Unstopped, ~Unstopped',
         UNCHANGED <<database, aside, saved>>
  PROVE  CustodyNext
<1>1. CASE container'.up = container.up
  <2>1. Unstopped' = Unstopped  BY UnstoppedBoolean
  <2> QED  BY <1>1, <2>1, Unseen
<1>2. CASE container'.up = ~container.up  BY <1>2, Switched
<1> QED  BY <1>1, <1>2

(* A migration behind a stopped application, or an unstopped one.          *)
LEMMA Converted ==
  ASSUME ~container.up \/ Unstopped, container'.up = container.up,
         Unstopped' = Unstopped \/ ~Unstopped', UNCHANGED <<aside, saved>>,
         database \in Database, database' \in Database, database'.data = database.data
  PROVE  CustodyNext
<1>1. PICK schema \in Schemas : schema = database'.schema  BY DatabaseFields
<1>2. Seen(database) # Custody!Missing /\ Seen(database') # Custody!Missing
  BY SeenMissing, DatabaseFields
<1>3. Seen(database) = [data |-> database.data, schema |-> database.schema]
      /\ Seen(database') = [data |-> database.data, schema |-> schema]
  BY <1>1, DatabaseFields DEF Seen
<1>4. Seen(database') = [Seen(database) EXCEPT !.schema = schema]  BY <1>3
<1>5. \E form \in Schemas : Seen(database') = [Seen(database) EXCEPT !.schema = form]
  BY <1>1, <1>4
<1>6. {old.data : old \in aside'} = {old.data : old \in aside}  OBVIOUS
<1>7. Unstopped' \in {Unstopped, FALSE}  BY DEF Unstopped
<1>8. Custody!Convert  BY <1>2, <1>5, <1>6, <1>7, Zenon DEF Custody!Convert, Seen
<1> QED  BY <1>8 DEF CustodyNext, Custody!Next

(* A record entered. *)
LEMMA Recorded ==
  ASSUME DeploymentInv, NEW n \in Records, Record(n)
  PROVE  CustodyNext
<1>1. database \in Database /\ n \in Records
  BY MissingFields DEF Record, DeploymentInv, Types
<1>2. PICK data \in SUBSET Records : data = database.data \cup {n}
  BY <1>1, DatabaseFields
<1>3. database' = [database EXCEPT !.data = data]  BY <1>2 DEF Record
<1>4. database' \in Database /\ database'.schema = database.schema /\ database'.data = data
  BY <1>1, <1>3 DEF Database
<1>5. Seen(database) # Custody!Missing  BY <1>1, SeenMissing, DatabaseFields
<1>6. Seen(database) = [data |-> database.data, schema |-> database.schema]
      /\ Seen(database') = [data |-> data, schema |-> database.schema]
  BY <1>1, <1>4, DatabaseFields DEF Seen
<1>7. Seen(database') = [Seen(database) EXCEPT !.data = Seen(database).data \cup {n}]
  BY <1>2, <1>6
<1>8. /\ container.up /\ container'.up = container.up
      /\ saved' = saved \cup {n}
      /\ {old.data : old \in aside'} = {old.data : old \in aside}
      /\ Unstopped' = Unstopped
  BY DEF Record, Unstopped
<1>9. Custody!Record(n)  BY <1>5, <1>7, <1>8, Zenon DEF Custody!Record, Seen
<1> QED  BY <1>9 DEF CustodyNext, Custody!Next

(* The empty file that a request makes. *)
LEMMA Recreated ==
  ASSUME DeploymentInv, Recreate
  PROVE  CustodyNext
<1>1. 0 \in Schemas  BY BoundsAssumption DEF Schemas
<1>2. database = NoDatabase /\ database' = [schema |-> 0, temp |-> "no", data |-> {}]
  BY DEF Recreate
<1>3. database' \in Database  BY <1>1, <1>2 DEF Database
<1>4. Seen(database) = Custody!Missing  BY <1>2, SeenMissing
<1>5. Seen(database') = [data |-> {}, schema |-> 0]
  BY <1>2, <1>3, DatabaseFields DEF Seen
<1>6. /\ container.up /\ container'.up = container.up /\ saved' = saved
      /\ {old.data : old \in aside'} = {old.data : old \in aside}
      /\ Unstopped' = Unstopped
  BY DEF Recreate, Unstopped
<1>7. Custody!Recreate  BY <1>1, <1>4, <1>5, <1>6, Zenon DEF Custody!Recreate, Seen
<1> QED  BY <1>7 DEF CustodyNext, Custody!Next

(* The old database put aside. *)
LEMMA MovedAside ==
  ASSUME DeploymentInv, MoveAside
  PROVE  CustodyNext
<1>0. job.cmd = "restore" /\ job.pc = "aside"  BY DEF MoveAside, At
<1>1. job'.cmd = "restore" /\ job'.pc = "install"
  BY <1>0, CommandGoesOn DEF MoveAside, DeploymentInv, RestoreSteps
<1>2. container' = container /\ Unstopped = container.up /\ Unstopped' = container.up
  <2>1. container' = container /\ container.up \in BOOLEAN
    BY DEF MoveAside, DeploymentInv, Types
  <2> QED  BY <1>0, <1>1, <2>1 DEF Unstopped
<1>3. CASE database = NoDatabase
  BY <1>2, <1>3, Unseen DEF MoveAside
<1>4. CASE database # NoDatabase
  <2>1. database' = NoDatabase /\ aside' = aside \cup {database} /\ saved' = saved
    BY <1>4 DEF MoveAside
  <2>2. database \in Database  BY <1>4 DEF DeploymentInv, Types
  <2>3. Seen(database) # Custody!Missing /\ Seen(database') = Custody!Missing
    BY <2>1, <2>2, SeenMissing, DatabaseFields
  <2>4. Seen(database).data = database.data  BY <1>4 DEF Seen
  <2>5. {old.data : old \in aside'} = {old.data : old \in aside} \cup {Seen(database).data}
    BY <2>1, <2>4
  <2>6. ~container.up \/ Unstopped  BY <1>2
  <2>7. Unstopped' = Unstopped /\ container'.up = container.up  BY <1>2
  <2>8. Custody!PutAside
    BY <2>1, <2>3, <2>5, <2>6, <2>7, Zenon DEF Custody!PutAside, Seen
  <2> QED  BY <2>8 DEF CustodyNext, Custody!Next
<1> QED  BY <1>3, <1>4

(* The candidate installed. *)
LEMMA Installed ==
  ASSUME DeploymentInv, InstallStaged
  PROVE  CustodyNext
<1>1. job.cmd = "restore" /\ job.pc = "install" /\ database.data = {} /\ staged \in Database
  BY DEF InstallStaged, At, DeploymentInv, Types, PresentForJob
<1>2. job'.cmd = "restore" /\ job'.pc = "migrate"
  BY <1>1, CommandGoesOn DEF InstallStaged, DeploymentInv, RestoreSteps
<1>3. container'.up = container.up /\ Unstopped' = Unstopped
      /\ (~container.up \/ Unstopped)
  <2>1. container' = container /\ container.up \in BOOLEAN
    BY DEF InstallStaged, DeploymentInv, Types
  <2> QED  BY <1>1, <1>2, <2>1 DEF Unstopped
<1>4. Seen(database) = Custody!Missing \/ Seen(database).data = {}
  BY <1>1, SeenMissing DEF Seen, DeploymentInv, Types
<1>5. database' \in Database /\ database'.data \subseteq saved
  BY <1>1 DEF InstallStaged, DeploymentInv, Acknowledged
<1>6. PICK data \in SUBSET saved, schema \in Schemas :
         Seen(database') = [data |-> data, schema |-> schema]
  BY <1>5, DatabaseFields DEF Seen
<1>7. saved' = saved /\ {old.data : old \in aside'} = {old.data : old \in aside}
  BY DEF InstallStaged
<1>8. Custody!Install  BY <1>3, <1>4, <1>6, <1>7, Zenon DEF Custody!Install, Seen
<1> QED  BY <1>8 DEF CustodyNext, Custody!Next

(* A command that is over, before an application that runs or does not.    *)
LEMMA Over ==
  ASSUME DeploymentInv, container'.up = container.up, ~Unstopped',
         database' = database, aside' = aside, saved' = saved
  PROVE  CustodyNext
<1>1. CASE Unstopped
  <2>1. container.up  BY <1>1 DEF Unstopped
  <2>2. Unstopped' = ~Unstopped  BY <1>1, UnstoppedBoolean
  <2> QED  BY <2>1, <2>2, Overridden
<1>2. CASE ~Unstopped
  <2>1. Unstopped' = Unstopped  BY <1>2, UnstoppedBoolean
  <2> QED  BY <2>1, Unseen
<1> QED  BY <1>1, <1>2

(* A migration. *)
LEMMA Migrated ==
  ASSUME DeploymentInv, MigrateForUpdate \/ MigrateUnmarked
  PROVE  CustodyNext
<1> USE DEF DeploymentInv
<1>1. job.pc = "migrate" /\ job.cmd \in {"update", "restore", "install"} /\ Present
  BY DEF MigrateForUpdate, MigrateUnmarked, At, PresentForJob
<1>2. container.up \in BOOLEAN /\ (~container.up \/ job.cmd = "restore")
  BY <1>1 DEF DownBehindJob, Up, Types
<1>3. database' \in Database /\ database'.data = database.data
  BY <1>1, MigratedDatabase, HalfMigratedDatabase DEF MigrateForUpdate, MigrateUnmarked
<1>4. container' = container /\ aside' = aside /\ saved' = saved
  BY DEF MigrateForUpdate, MigrateUnmarked
<1>5. database \in Database  BY <1>1 DEF Present, Types
<1>6. \/ job'.cmd = "none"
      \/ job.cmd = "update" /\ job'.cmd = "update"
      \/ job.cmd \in {"restore", "install"} /\ job'.cmd = job.cmd /\ job'.pc = "up"
  <2>1. CASE Fail
    <3>1. job'.cmd = "none"  BY <2>1 DEF Fail, Idle
    <3> QED  BY <3>1
  <2>2. CASE Goto("verify") /\ job.cmd = "update"
    BY <2>2, CommandGoesOn DEF UpdateSteps
  <2>3. CASE Goto("up") /\ job.cmd \in {"restore", "install"}
    BY <2>3, CommandGoesOn DEF RestoreSteps, InstallSteps
  <2> QED  BY <2>1, <2>2, <2>3 DEF MigrateForUpdate, MigrateUnmarked, FailAt, At
<1>7. /\ ~container.up \/ Unstopped
      /\ Unstopped' = Unstopped \/ ~Unstopped'
  BY <1>1, <1>2, <1>4, <1>6 DEF Unstopped
<1> QED  BY <1>3, <1>4, <1>5, <1>7, Converted

(* Every step of the host is one of DataCustody, or unseen there. *)
LEMMA CustodyStep ==
  ASSUME DeploymentInv, [Next]_vars
  PROVE  CustodyNext
<1> USE DEF DeploymentInv
<1>0. /\ database \in Database \cup {NoDatabase} /\ image \in Releases
      /\ container \in [image : Releases, up : BOOLEAN] /\ container.up \in BOOLEAN
  BY DEF Types
<1>1. CASE Start \/ Stop \/ Restart
  <2>1. container'.up \in BOOLEAN /\ UNCHANGED <<database, aside, saved>>
    <3>1. CASE Start
      <4>1. container' = [image |-> image, up |-> TRUE]  BY <3>1 DEF Start
      <4> QED  BY <3>1, <4>1 DEF Start
    <3>2. CASE Stop
      <4>1. container' = [container EXCEPT !.up = FALSE]  BY <3>2 DEF Stop
      <4> QED  BY <1>0, <3>2, <4>1 DEF Stop
    <3>3. CASE Restart
      <4>1. container' = [container EXCEPT !.up = TRUE]  BY <3>3 DEF Restart
      <4> QED  BY <1>0, <3>3, <4>1 DEF Restart
    <3> QED  BY <1>1, <3>1, <3>2, <3>3
  <2>2. ~Unstopped /\ ~Unstopped'  BY <1>1 DEF Start, Stop, Restart, Unstopped, Idle
  <2> QED  BY <1>0, <2>1, <2>2, StartedOrStopped
<1>2. CASE \/ Backup \/ ClearMarker \/ Unstage \/ (\E candidate \in Snapshots : Stage(candidate))
           \/ UNCHANGED vars
  <2>1. UNCHANGED <<container, database, aside, saved, job>>
    BY <1>2 DEF Backup, ClearMarker, Unstage, Stage, vars
  <2>2. Unstopped' = Unstopped  BY <2>1 DEF Unstopped
  <2> QED  BY <2>1, <2>2, Unseen
<1>3. CASE BeginUpdate \/ BeginRestore \/ BeginInstall
  <2>1. UNCHANGED <<container, database, aside, saved>>
    BY <1>3 DEF BeginUpdate, BeginRestore, BeginInstall
  <2>2. ~Unstopped'  BY <1>3 DEF BeginUpdate, BeginRestore, BeginInstall, Unstopped
  <2> QED  BY <2>1, <2>2, Over
<1>4. CASE GiveUp
  <2>1. UNCHANGED <<container, database, aside, saved>> /\ ~Unstopped'
    BY <1>4 DEF GiveUp, Fail, Unstopped, Idle
  <2> QED  BY <2>1, Over
<1>5. CASE Build \/ Preflight \/ Mark \/ Verify
  <2>1. UNCHANGED <<container, database, aside, saved>>
    BY <1>5 DEF Build, Preflight, Mark, Verify
  <2>2. ~Unstopped'
    <3>1. CASE Build
      <4>1. job.cmd \in {"update", "install"}
        BY <3>1, JobKinds DEF Build, Types, RestoreSteps
      <4>2. PICK next \in {"preflight", "stop"} :
               Goto(next) /\ (job.cmd = "update" => next = "preflight")
               /\ (job.cmd = "install" => next = "stop")
        BY <3>1, <4>1 DEF Build
      <4>3. job'.cmd = job.cmd
        BY <4>1, <4>2, CommandGoesOn DEF UpdateSteps, InstallSteps
      <4> QED  BY <4>1, <4>3 DEF Unstopped
    <3>2. CASE Preflight \/ Mark \/ Verify
      <4>1. job.cmd = "update"  BY <3>2 DEF Preflight, Mark, Verify, At
      <4>2. (\E next \in UpdateSteps : Goto(next)) \/ job' = Idle
        BY <3>2 DEF Preflight, Mark, Verify, FailAt, Fail, UpdateSteps
      <4>3. job'.cmd # "restore"  BY <4>1, <4>2, CommandGoesOn DEF Idle
      <4> QED  BY <4>3 DEF Unstopped
    <3> QED  BY <1>5, <3>1, <3>2
  <2> QED  BY <2>1, <2>2, Over
<1>6. CASE TakeBackup
  <2>1. UNCHANGED <<container, database, aside, saved>>  BY <1>6 DEF TakeBackup
  <2>2. CASE At("restore", "final_backup")
    <3>1. job'.cmd = "restore" /\ job'.pc = "aside"
      <4>1. Goto("aside")  BY <1>6, <2>2 DEF TakeBackup, At
      <4> QED  BY <2>2, <4>1, CommandGoesOn DEF At, RestoreSteps
    <3>2. Unstopped' = Unstopped  BY <2>1, <2>2, <3>1 DEF Unstopped, At
    <3> QED  BY <2>1, <3>2, Unseen
  <2>3. CASE At("restore", "backup")
    <3>1. job'.cmd = "restore" /\ job'.pc = "stop"
      <4>1. Goto("stop")  BY <1>6, <2>3 DEF TakeBackup, At
      <4> QED  BY <2>3, <4>1, CommandGoesOn DEF At, RestoreSteps
    <3>2. ~Unstopped'  BY <3>1 DEF Unstopped
    <3> QED  BY <2>1, <3>2, Over
  <2>4. CASE job.cmd # "restore"
    <3>1. job.pc \in {"backup", "final_backup"}  BY <1>6 DEF TakeBackup
    <3>2. job.cmd \in {"update", "install"} /\ (job.cmd = "install" => job.pc = "final_backup")
      BY <2>4, <3>1, JobKinds DEF Types, InstallSteps
    <3>3. PICK next \in {"build", "guard", "migrate"} :
             Goto(next) /\ (job.cmd = "update" => next \in {"build", "guard"})
             /\ (job.cmd = "install" => next = "migrate")
      BY <1>6, <3>1, <3>2 DEF TakeBackup, At
    <3>4. job'.cmd = job.cmd
      BY <3>2, <3>3, CommandGoesOn DEF UpdateSteps, InstallSteps
    <3>5. ~Unstopped'  BY <2>4, <3>4 DEF Unstopped
    <3> QED  BY <2>1, <3>5, Over
  <2> QED  BY <1>6, <2>2, <2>3, <2>4 DEF TakeBackup, At
<1>7. CASE StopForJob
  <2>1. UNCHANGED <<database, aside, saved>> /\ container'.up \in BOOLEAN
    BY <1>0, <1>7 DEF StopForJob
  <2>2. ~Unstopped  BY <1>7 DEF StopForJob, Unstopped
  <2>3. job.cmd \in {"update", "restore", "install"} /\ job'.cmd = job.cmd
    BY <1>7, JobKinds, CommandGoesOn
       DEF StopForJob, Types, UpdateSteps, RestoreSteps, InstallSteps
  <2>4. CASE ~Unstopped'  BY <1>0, <2>1, <2>2, <2>4, StartedOrStopped
  <2>5. CASE Unstopped'
    <3>1. container'.up  BY <2>5 DEF Unstopped
    <3>2. container' = container  BY <1>0, <1>7, <3>1 DEF StopForJob
    <3>3. Unstopped' = ~Unstopped  BY <2>2, <2>5
    <3> QED  BY <2>1, <3>1, <3>2, <3>3, Overridden
  <2> QED  BY <2>4, <2>5
<1>8. CASE Activate \/ Smoke
  <2>1. container'.up \in BOOLEAN /\ UNCHANGED <<database, aside, saved>>
    <3>1. CASE Activate
      <4>1. UNCHANGED <<database, aside, saved>>  BY <3>1 DEF Activate
      <4>2. CASE container' = container  BY <1>0, <4>1, <4>2
      <4>3. CASE container' = [image |-> image, up |-> TRUE]  BY <4>1, <4>3
      <4> QED  BY <3>1, <4>2, <4>3 DEF Activate
    <3>2. CASE Smoke
      <4>1. UNCHANGED <<database, aside, saved>>  BY <3>2 DEF Smoke
      <4>2. CASE container' = container  BY <1>0, <4>1, <4>2
      <4>3. CASE container' = [container EXCEPT !.up = FALSE]  BY <1>0, <4>1, <4>3
      <4> QED  BY <3>2, <4>2, <4>3 DEF Smoke
    <3> QED  BY <1>8, <3>1, <3>2
  <2>2. job.cmd = "update"  BY <1>8 DEF Activate, Smoke, At
  <2>3. Goto("smoke") \/ job' = Idle  BY <1>8 DEF Activate, Smoke, FailAt, Fail, Finish
  <2>4. job'.cmd # "restore"  BY <2>2, <2>3, CommandGoesOn DEF Idle, UpdateSteps
  <2>5. ~Unstopped /\ ~Unstopped'  BY <2>2, <2>4 DEF Unstopped
  <2> QED  BY <1>0, <2>1, <2>5, StartedOrStopped
<1>9. CASE ActivateUnmarked
  <2>1. container'.up = TRUE /\ UNCHANGED <<database, aside, saved>> /\ ~Unstopped'
    BY <1>9 DEF ActivateUnmarked, Finish, Unstopped, Idle
  <2>2. CASE container.up  BY <2>1, <2>2, Over
  <2>3. CASE ~container.up
    <3>1. ~Unstopped  BY <2>3 DEF Unstopped
    <3> QED  BY <1>0, <2>1, <3>1, StartedOrStopped
  <2> QED  BY <2>2, <2>3
<1>10. CASE Guard
  <2>1. database \in Database /\ job.cmd = "update"
    BY <1>0, <1>10 DEF Guard, At, PresentForJob, Present
  <2>2. Goto("migrate") \/ job' = Idle  BY <1>10 DEF Guard, FailAt, Fail
  <2>3. job'.cmd # "restore"  BY <2>1, <2>2, CommandGoesOn DEF Idle, UpdateSteps
  <2>4. Unstopped' = Unstopped  BY <2>1, <2>3 DEF Unstopped
  <2>5. CASE database' = [database EXCEPT !.temp = "no"]
    <3>1. /\ database' \in Database /\ database'.data = database.data
          /\ database'.schema = database.schema
      BY <2>1, <2>5 DEF Database
    <3>2. Seen(database') = Seen(database)  BY <2>1, <3>1, DatabaseFields DEF Seen
    <3> QED  BY <1>10, <2>4, <3>2, Unseen DEF Guard
  <2>6. CASE UNCHANGED database  BY <1>10, <2>4, <2>6, Unseen DEF Guard
  <2> QED  BY <1>10, <2>5, <2>6 DEF Guard
<1> QED  BY <1>1, <1>2, <1>3, <1>4, <1>5, <1>6, <1>7, <1>8, <1>9, <1>10, Recorded, Recreated,
            MovedAside, Installed, Migrated DEF Next, Step

(* A database that DataCustody sees has data and a form. *)
Form == [data : SUBSET Records, schema : Schemas]

(* What is seen is such a database or the missing one, never both. *)
LEMMA SeenForm ==
  ASSUME NEW d \in Database \cup {NoDatabase}
  PROVE  /\ Seen(d) \in Form \cup {Custody!Missing}
         /\ Custody!Missing \notin Form
<1>1. Custody!Missing \notin Form
  <2>1. \A f \in Form : DOMAIN f = {"data", "schema"}  BY DEF Form
  <2>2. DOMAIN Custody!Missing = {"missing"}  BY DEF Custody!Missing
  <2>3. {"data", "schema"} # {"missing"}  OBVIOUS
  <2> QED  BY <2>1, <2>2, <2>3
<1>2. CASE d = NoDatabase  BY <1>1, <1>2 DEF Seen, Custody!Missing
<1>3. CASE d \in Database
  <2>1. Seen(d) = [data |-> d.data, schema |-> d.schema]  BY <1>3, DatabaseFields DEF Seen
  <2> QED  BY <1>1, <1>3, <2>1, DatabaseFields DEF Form
<1> QED  BY <1>2, <1>3

(* No step of DataCustody loses a record that was in the database or put   *)
(* aside: recording adds one, putting aside keeps the whole, the other     *)
(* steps leave the records where they are.                                 *)
LEMMA CustodyLosesNothing ==
  ASSUME DeploymentInv, Custody!NothingIsLost, CustodyNext
  PROVE  Custody!NothingIsLost'
<1> DEFINE d == Seen(database)
           e == Seen(database')
           copies == {old.data : old \in aside}
<1>1. \A n \in saved : (d # Custody!Missing /\ n \in d.data) \/ \E c \in copies : n \in c
  BY Zenon DEF Custody!NothingIsLost, Seen
<1>2. SUFFICES \A n \in saved' :
                  (e # Custody!Missing /\ n \in e.data) \/ \E c \in copies' : n \in c
  BY Zenon DEF Custody!NothingIsLost, Custody!Missing, Seen
<1>3. d \in Form \cup {Custody!Missing} /\ Custody!Missing \notin Form
  BY SeenForm DEF DeploymentInv, Types
<1>4. CASE Custody!Switch
  <2>1. e = d /\ copies' = copies /\ saved' = saved
    BY <1>4 DEF Custody!Switch, Seen
  <2> QED  BY <1>1, <2>1
<1>5. ASSUME NEW n \in Records, Custody!Record(n)
      PROVE  \A m \in saved' : (e # Custody!Missing /\ m \in e.data) \/ \E c \in copies' : m \in c
  <2>1. /\ d # Custody!Missing /\ e = [d EXCEPT !.data = d.data \cup {n}]
        /\ saved' = saved \cup {n} /\ copies' = copies
    BY <1>5, Zenon DEF Custody!Record, Seen
  <2> HIDE DEF d, e, copies
  <2>2. e \in Form /\ e.data = d.data \cup {n}  BY <1>3, <2>1 DEF Form
  <2> QED  BY <1>1, <1>3, <2>1, <2>2
<1>6. CASE Custody!Convert
  <2>1. PICK form \in Schemas :
           /\ d # Custody!Missing /\ e = [d EXCEPT !.schema = form]
           /\ saved' = saved /\ copies' = copies
    BY <1>6, Zenon DEF Custody!Convert, Seen
  <2> HIDE DEF d, e, copies
  <2>2. e \in Form /\ e.data = d.data  BY <1>3, <2>1 DEF Form
  <2> QED  BY <1>1, <1>3, <2>1, <2>2
<1>7. CASE Custody!PutAside
  <2>1. saved' = saved /\ copies' = copies \cup {d.data}
    BY <1>7, Zenon DEF Custody!PutAside, Seen
  <2> HIDE DEF d, e, copies
  <2> QED  BY <1>1, <2>1
<1>8. CASE Custody!Install
  <2>1. /\ d = Custody!Missing \/ d.data = {}
        /\ saved' = saved /\ copies' = copies
    BY <1>8, Zenon DEF Custody!Install, Seen
  <2> HIDE DEF d, e, copies
  <2> QED  BY <1>1, <2>1
<1>10. CASE Custody!Override
  <2>1. e = d /\ copies' = copies /\ saved' = saved
    BY <1>10 DEF Custody!Override, Seen
  <2> QED  BY <1>1, <2>1
<1>11. CASE Custody!Recreate
  <2>1. d = Custody!Missing /\ saved' = saved /\ copies' = copies
    BY <1>11, Zenon DEF Custody!Recreate, Seen
  <2> HIDE DEF d, e, copies
  <2> QED  BY <1>1, <2>1
<1>9. CASE UNCHANGED Custody!vars
  <2>1. e = d /\ copies' = copies /\ saved' = saved
    BY <1>9 DEF Custody!vars, Seen
  <2> QED  BY <1>1, <2>1
<1> QED  BY <1>4, <1>5, <1>6, <1>7, <1>8, <1>9, <1>10, <1>11 DEF CustodyNext, Custody!Next

-----------------------------------------------------------------------------
(* What a step may never do. *)

(* Only an unstopped restore, or a start by hand after an abandoned        *)
(* command, meets foreign tables.                                          *)
LEMMA ForeignStep ==
  ASSUME DeploymentInv, [Next]_vars, ~Foreign, Foreign'
  PROVE  Unstopped \/ (abandoned /\ job = Idle)
<1> USE DEF DeploymentInv, Foreign
<1>0. container \in [image : Releases, up : BOOLEAN] /\ database \in Database \cup {NoDatabase}
  BY DEF Types
<1>1. container' # container \/ database'.schema # database.schema  OBVIOUS
<1>2. CASE Start \/ Restart
  BY <1>0, <1>2 DEF Start, Restart, ReleasesAgree, Idle
<1>3. ~Stop /\ ~StopForJob  BY <1>0, <1>1 DEF Stop, StopForJob
<1>4. ASSUME NEW n \in Records PROVE ~Record(n)
  <2> SUFFICES ASSUME Record(n) PROVE FALSE  OBVIOUS
  <2>1. database \in Database  BY <1>0, MissingFields DEF Record
  <2>2. database'.schema = database.schema  BY <2>1 DEF Record, Database
  <2> QED  BY <1>1, <2>2 DEF Record
<1>5. ~Recreate  BY <1>1, MissingFields DEF Recreate
<1>6. /\ ~Activate /\ ~ActivateUnmarked
  BY <1>1 DEF Activate, ActivateUnmarked, At, ReleasesAgree
<1>7. ~Smoke  BY <1>0, <1>1 DEF Smoke
<1>8. ~Guard /\ ~MigrateForUpdate
  BY DEF Guard, MigrateForUpdate, At, DownBehindJob, Up
<1>9. CASE MigrateUnmarked \/ MoveAside \/ InstallStaged
  BY <1>9 DEF MigrateUnmarked, MoveAside, InstallStaged, At, DownBehindJob, Up, Unstopped
<1>10. ~UNCHANGED <<container, database>>  BY <1>1
<1>11. /\ ~Backup /\ ~ClearMarker /\ ~Unstage /\ ~GiveUp
       /\ ~BeginUpdate /\ ~BeginRestore /\ ~BeginInstall
       /\ ~(\E candidate \in Snapshots : Stage(candidate))
       /\ ~TakeBackup /\ ~Build /\ ~Preflight /\ ~Mark /\ ~Verify /\ ~UNCHANGED vars
  BY <1>10 DEF Backup, ClearMarker, Unstage, GiveUp, BeginUpdate, BeginRestore, BeginInstall,
       Stage, TakeBackup, Build, Preflight, Mark, Verify, vars
<1> QED  BY <1>2, <1>3, <1>4, <1>5, <1>6, <1>7, <1>8, <1>9, <1>11 DEF Next, Step

(* An update that ends with the application stopped has its marker.        *)
LEMMA EndStep ==
  ASSUME DeploymentInv, [Next]_vars, job.cmd = "update", job' = Idle, ~container'.up,
         job.pc \in {"final_backup", "guard", "migrate", "verify", "up", "smoke"}
  PROVE  marker' # "none"
<1> USE DEF DeploymentInv
<1>0. marker # "none"  BY DEF MarkedForJob
<1>1. job # Idle  BY DEF Idle
<1>2. CASE marker' = marker  BY <1>0, <1>2
<1>3. CASE Smoke
  BY <1>3 DEF Smoke, FailAt, At, DownBehindJob, Up
<1>4. CASE TakeBackup \/ Guard \/ MigrateForUpdate \/ Verify \/ Activate \/ Mark
  <2>1. CASE TakeBackup
    <3>1. marker' \in {"migration_started", marker}  BY <2>1 DEF TakeBackup
    <3> QED  BY <1>0, <3>1
  <2>2. CASE Guard \/ MigrateForUpdate \/ Verify \/ Activate \/ Mark
    <3>1. marker' \in Phases \cup {marker}
      BY <2>2 DEF Guard, MigrateForUpdate, Verify, Activate, FailAt, Mark, Phases
    <3> QED  BY <1>0, <3>1 DEF Phases
  <2> QED  BY <1>4, <2>1, <2>2
<1>5. ~ClearMarker  BY <1>1 DEF ClearMarker
<1>6. ASSUME NEW n \in Records, Record(n) PROVE marker' = marker  BY <1>6 DEF Record
<1>7. ASSUME NEW candidate \in Snapshots, Stage(candidate) PROVE marker' = marker
  BY <1>7 DEF Stage
<1>8. CASE \/ Recreate \/ Backup \/ Start \/ Stop \/ Restart \/ Unstage \/ BeginUpdate
           \/ BeginRestore \/ BeginInstall \/ GiveUp \/ StopForJob \/ Build
           \/ Preflight \/ MoveAside \/ InstallStaged \/ MigrateUnmarked \/ ActivateUnmarked
           \/ UNCHANGED vars
  <2>1. marker' = marker
    BY <1>8 DEF Recreate, Backup, Start, Stop, Restart, Unstage, BeginUpdate, BeginRestore,
         BeginInstall, GiveUp, StopForJob, Build, Preflight,
         MoveAside, InstallStaged, MigrateUnmarked, ActivateUnmarked, vars
  <2> QED  BY <1>2, <2>1
<1> QED  BY <1>2, <1>3, <1>4, <1>5, <1>6, <1>7, <1>8 DEF Next, Step

-----------------------------------------------------------------------------
(* The theorems. *)

(* The invariant: where the data is, which releases agree, and what a      *)
(* command leaves behind it, wherever it stands or dies.                   *)
THEOREM DeploymentKept == Spec => []DeploymentInv
<1>1. ASSUME Init PROVE DeploymentInv
  <2>1. 1 \in Releases /\ 1 \in Schemas  BY BoundsAssumption DEF Releases, Schemas
  <2>2. database \in Database /\ database.data = {}  BY <1>1, <2>1 DEF Init, Database
  <2>3. database # NoDatabase /\ NoDatabase.data = {}  BY <2>2, DatabaseFields, MissingFields
  <2>4. Snapshots = {}  BY <1>1 DEF Init, Snapshots
  <2>5. backups \in Seq(Database)  BY <1>1 DEF Init
  <2> QED  BY <1>1, <2>1, <2>2, <2>3, <2>4, <2>5
          DEF Init, DeploymentInv, Types, Acknowledged, DownBehindJob, PresentForJob,
              ReleasesAgree, MarkedForJob, Up, Present, Idle
<1>2. DeploymentInv /\ [Next]_vars => DeploymentInv'  BY InvStep
<1> QED  BY <1>1, <1>2, PTL DEF Spec

(* Deployment implements DataCustody: whatever dies when, and whatever is  *)
(* started after it, no step takes the data out of custody.                *)
THEOREM DataStaysInCustody == Spec => DataIsInCustody
<1>1. Init => Custody!Init
  <2> SUFFICES ASSUME Init PROVE Custody!Init  OBVIOUS
  <2>1. 1 \in Schemas  BY BoundsAssumption DEF Schemas
  <2>2. database # NoDatabase  BY DEF Init, NoDatabase
  <2>3. Seen(database) = [data |-> {}, schema |-> 1]  BY <2>2 DEF Init, Seen
  <2>4. /\ container.up \in BOOLEAN /\ saved = {}
        /\ {old.data : old \in aside} = {} /\ Unstopped = FALSE
    BY DEF Init, Unstopped, Idle
  <2> QED  BY <2>1, <2>3, <2>4, Zenon DEF Custody!Init, Seen
<1>2. DeploymentInv /\ [Next]_vars => [Custody!Next]_(Custody!vars)
  BY CustodyStep DEF CustodyNext
<1> QED  BY <1>1, <1>2, DeploymentKept, PTL DEF Spec, DataIsInCustody, Custody!Spec

(* So no acknowledged record is ever missing from both the database and    *)
(* the copies put aside.                                                   *)
THEOREM NoRecordIsLost == Spec => []Custody!NothingIsLost
<1>1. Custody!Init => Custody!NothingIsLost
  BY DEF Custody!Init, Custody!NothingIsLost
<1>2. DeploymentInv /\ Custody!NothingIsLost /\ [Custody!Next]_(Custody!vars)
        => Custody!NothingIsLost'
  BY CustodyLosesNothing DEF CustodyNext
<1> QED
  BY <1>1, <1>2, DataStaysInCustody, DeploymentKept, PTL DEF DataIsInCustody, Custody!Spec

(* No command but a restore that has failed to stop the application puts   *)
(* it before the tables of another release.                                *)
THEOREM ForeignOnlyByHand == Spec => ForeignSchemaOnlyByHand
<1>1. DeploymentInv /\ [Next]_vars => [~Foreign /\ Foreign' => Unstopped \/ (abandoned /\ job = Idle)]_vars
  BY ForeignStep
<1> QED  BY <1>1, DeploymentKept, PTL DEF Spec, ForeignSchemaOnlyByHand

(* An update that ends with the application stopped leaves its marker.     *)
THEOREM EndsMarked == Spec => EndsServingOrMarked
<1>1. DeploymentInv /\ [Next]_vars =>
        [/\ job.cmd = "update" /\ job' = Idle /\ ~container'.up
         /\ job.pc \in {"final_backup", "guard", "migrate", "verify", "up", "smoke"}
         => marker' # "none"]_vars
  BY EndStep
<1> QED  BY <1>1, DeploymentKept, PTL DEF Spec, EndsServingOrMarked
===============================================================================
