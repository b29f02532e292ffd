--------------------------- MODULE DatabaseFormat ---------------------------
(***************************************************************************)
(* How a start of the daemon finds, creates or upgrades its database        *)
(* (bio_init in src/src/lib/biometric_common.c and the format part of       *)
(* src/src/lib/biometric_storage.c), with crashes and failing statements    *)
(* between any two SQL statements.                                          *)
(*                                                                         *)
(* Statements of a transaction work on `work' and reach `disk' with the     *)
(* commit; any other statement reaches it at once.  Creating a database is  *)
(* not a transaction, upgrading one is.  Whoever fails exits and is started *)
(* again by systemd.                                                        *)
(***************************************************************************)
EXTENDS Integers, FiniteSets

CONSTANTS
  Ids,       \* the rows there may be
  Users,
  Owner,     \* Owner[i]: the user row i belongs to
  NoUuid,    \* a row without a UUID
  Absent,    \* no such row
  MaxFaults  \* bound: crashes and failing statements

(* The UUID of a user is named by the user. *)
ASSUME FormatAssumption ==
  /\ Owner \in [Ids -> Users]
  /\ NoUuid \notin Users /\ Absent \notin Users /\ NoUuid # Absent
  /\ MaxFaults \in Nat

VARIABLES
  pc,      \* where the start is
  disk,    \* the database as it is committed
  work,    \* the database as the connection sees it
  tx,      \* a transaction is open
  todo,    \* the users whose rows have no UUID yet
  faults,  \* crashes and failures so far
  cut,     \* history: an upgrade lost the list of users on the way
  ever     \* history: the rows that were ever stored

vars == <<pc, disk, work, tx, todo, faults, cut, ever>>

(* DATABASE_FORMAT holds no row, the version of this framework, or another. *)
Formats == {"none", "empty", "current", "other"}

Databases == [file : BOOLEAN, eigen : BOOLEAN, rows : [Ids -> Users \cup {NoUuid, Absent}],
              renamed : BOOLEAN, backup : SUBSET Ids, format : Formats]

NoRows == [i \in Ids |-> Absent]
Stored(rows) == { i \in Ids : rows[i] # Absent }

Places == {"down", "connect", "create", "create format", "create version", "check",
           "begin", "rename", "recreate", "migrate", "uuids", "format", "version",
           "commit", "serving"}

TypeOK ==
  /\ pc \in Places
  /\ disk \in Databases /\ work \in Databases
  /\ tx \in BOOLEAN
  /\ todo \subseteq Users
  /\ faults \in 0 .. MaxFaults
  /\ cut \in BOOLEAN
  /\ ever \subseteq Ids

NoDatabase == [file |-> FALSE, eigen |-> FALSE, rows |-> NoRows, renamed |-> FALSE,
               backup |-> {}, format |-> "none"]

(* A database of the first format has no format table and no UUIDs. *)
FirstFormat(S) ==
  [NoDatabase EXCEPT !.file = TRUE, !.eigen = TRUE,
                     !.rows = [i \in Ids |-> IF i \in S THEN NoUuid ELSE Absent]]

ThisFormat(S, format) ==
  [NoDatabase EXCEPT !.file = TRUE, !.eigen = TRUE, !.format = format,
                     !.rows = [i \in Ids |-> IF i \in S THEN Owner[i] ELSE Absent]]

(* A new installation, or what any version of the program has left. *)
Init ==
  /\ pc = "down"
  /\ disk \in {NoDatabase} \cup { FirstFormat(S) : S \in SUBSET Ids }
              \cup { ThisFormat(S, f) : S \in SUBSET Ids, f \in {"current", "other"} }
  /\ work = disk
  /\ tx = FALSE /\ todo = {} /\ faults = 0 /\ cut = FALSE
  /\ ever = Stored(disk.rows)

-----------------------------------------------------------------------------
Goes(from, to) == pc = from /\ pc' = to

(* One SQL statement. *)
Statement(from, to, db) ==
  /\ Goes(from, to)
  /\ work' = db /\ disk' = IF tx THEN disk ELSE db
  /\ UNCHANGED <<tx, faults, cut, ever>>

(* bio_sto_connect_db: opening a file that is not there creates an empty one. *)
Connect ==
  /\ Statement("connect", IF work.file THEN "check" ELSE "create", [work EXCEPT !.file = TRUE])
  /\ UNCHANGED todo

(* internal_create_eigen_info_table, IF NOT EXISTS. *)
CreateEigenInfo(from, to) ==
  Statement(from, to, [work EXCEPT !.eigen = TRUE]) /\ UNCHANGED todo

(* internal_create_datebase_info: the table, IF NOT EXISTS, and its row. *)
CreateFormat(from, to) ==
  /\ Statement(from, to, [work EXCEPT !.format = IF @ = "none" THEN "empty" ELSE @])
  /\ UNCHANGED todo

(* Only the first row of the table is ever read. *)
InsertVersion(from, to) ==
  /\ Statement(from, to, [work EXCEPT !.format = IF @ = "other" THEN @ ELSE "current"])
  /\ UNCHANGED todo

Create == CreateEigenInfo("create", "create format")
          \/ CreateFormat("create format", "create version")
          \/ InsertVersion("create version", "check")

(* Mutant of Check: a format table without a row is an unknown version. *)
CheckRow ==
  /\ pc = "check"
  /\ pc' = CASE work.format = "none" -> "begin"
             [] work.format = "current" -> "serving"
             [] OTHER -> "down"
  /\ UNCHANGED <<disk, work, tx, todo, faults, cut, ever>>

(* bio_sto_check_and_upgrade_db_format: without the table, or its row, it is
   version 0.0.0.  An unknown version ends the start. *)
Check ==
  /\ pc = "check"
  /\ pc' = CASE work.format \in {"none", "empty"} -> "begin"
             [] work.format = "current" -> "serving"
             [] OTHER -> "down"
  /\ UNCHANGED <<disk, work, tx, todo, faults, cut, ever>>

(* The row cannot be read, which is not told from its absence: a database of
   any format is upgraded. *)
CheckFails ==
  /\ faults < MaxFaults
  /\ Goes("check", "begin")
  /\ faults' = faults + 1
  /\ UNCHANGED <<disk, work, tx, todo, cut, ever>>

-----------------------------------------------------------------------------
(* internal_upgrade_db_format_from_null.                                    *)

(* Mutant of Begin: no transaction. *)
BeginNothing == Goes("begin", "rename") /\ UNCHANGED <<disk, work, tx, todo, faults, cut, ever>>

Begin ==
  /\ Goes("begin", "rename")
  /\ tx' = TRUE
  /\ UNCHANGED <<disk, work, todo, faults, cut, ever>>

(* EIGEN_INFO becomes EIGEN_INFO_VERSION_0_0_0, which is kept. *)
Rename ==
  /\ work.eigen /\ ~ work.renamed
  /\ Statement("rename", "recreate",
               [work EXCEPT !.eigen = FALSE, !.renamed = TRUE, !.rows = NoRows,
                            !.backup = Stored(work.rows)])
  /\ UNCHANGED todo

(* There is no such table, or there is a backup already: rolled back. *)
RenameFails ==
  /\ ~ work.eigen \/ work.renamed
  /\ Goes("rename", "down")
  /\ tx' = FALSE /\ work' = disk
  /\ UNCHANGED <<disk, todo, faults, cut, ever>>

(* Mutant of Migrate: the loop goes over the UUIDs, not the users. *)
MigrateByUuid ==
  /\ Statement("migrate", "uuids",
       [work EXCEPT !.rows = [i \in Ids |-> IF i \in work.backup THEN NoUuid ELSE @[i]]])
  /\ todo' = { work'.rows[i] : i \in work.backup }

Migrate ==
  /\ Statement("migrate", "uuids",
       [work EXCEPT !.rows = [i \in Ids |-> IF i \in work.backup THEN NoUuid ELSE @[i]]])
  /\ todo' = { Owner[i] : i \in work.backup }

(* Mutant of SetUuid: the first user is the only one. *)
SetUuidOnce ==
  /\ pc = "uuids" /\ todo # {}
  /\ \E u \in todo :
       work' = [work EXCEPT !.rows = [i \in Ids |-> IF @[i] # Absent /\ Owner[i] = u
                                                    THEN u ELSE @[i]]]
  /\ todo' = {}
  /\ UNCHANGED <<pc, disk, tx, faults, cut, ever>>

(* One round of the loop: every row of a user gets the user's UUID. *)
SetUuid ==
  \E u \in todo :
    /\ Statement("uuids", "uuids",
         [work EXCEPT !.rows = [i \in Ids |-> IF @[i] # Absent /\ Owner[i] = u
                                              THEN u ELSE @[i]]])
    /\ todo' = todo \ {u}

UuidsSet ==
  /\ todo = {}
  /\ Goes("uuids", "format")
  /\ UNCHANGED <<disk, work, tx, todo, faults, cut, ever>>

(* The next user cannot be read, which is not told from the end of the list:
   the rows of those left keep no UUID. *)
UuidsFail ==
  /\ faults < MaxFaults /\ todo # {}
  /\ Goes("uuids", "format")
  /\ faults' = faults + 1 /\ cut' = TRUE /\ todo' = {}
  /\ UNCHANGED <<disk, work, tx, ever>>

Commit ==
  /\ Goes("commit", "serving")
  /\ disk' = work /\ tx' = FALSE
  /\ UNCHANGED <<work, todo, faults, cut, ever>>

(* The answer to COMMIT is not looked at: the daemon goes on with a
   transaction that stays open on a connection nobody closes. *)
CommitFails ==
  /\ faults < MaxFaults
  /\ Goes("commit", "serving")
  /\ faults' = faults + 1
  /\ UNCHANGED <<disk, work, tx, todo, cut, ever>>

Upgrade == Begin \/ Rename \/ RenameFails \/ CreateEigenInfo("recreate", "migrate")
           \/ Migrate \/ SetUuid \/ UuidsSet \/ CreateFormat("format", "version")
           \/ InsertVersion("version", "commit") \/ Commit

-----------------------------------------------------------------------------
(* The daemon enrolls a feature.  An open transaction locks everybody out. *)
Enroll(i) ==
  /\ pc = "serving" /\ ~ tx /\ i \notin ever
  /\ work' = [work EXCEPT !.rows[i] = Owner[i]]
  /\ disk' = work'
  /\ ever' = ever \cup {i}
  /\ UNCHANGED <<pc, tx, todo, faults, cut>>

(* A statement fails, or the daemon or the computer crashes: in each case the
   transaction is rolled back and the start is over. *)
Dies ==
  /\ pc # "down" /\ faults < MaxFaults
  /\ pc' = "down" /\ faults' = faults + 1
  /\ tx' = FALSE /\ work' = disk
  /\ UNCHANGED <<disk, todo, cut, ever>>

(* systemd: Restart=always. *)
Restart ==
  Goes("down", "connect") /\ UNCHANGED <<disk, work, tx, todo, faults, cut, ever>>

Daemon == Restart \/ Connect \/ Create \/ Check \/ Upgrade

Next == Daemon \/ CheckFails \/ UuidsFail \/ CommitFails \/ Dies \/ \E i \in Ids : Enroll(i)

Spec == Init /\ [][Next]_vars /\ WF_vars(Daemon)
-----------------------------------------------------------------------------
(* Properties.                                                              *)

(* The file is there and EIGEN_INFO is not: every start from now on will fail
   to rename it. *)
Unusable == disk.file /\ ~ disk.eigen

(* A crash can make the database unusable only while a new one is created: one
   that has ever held a feature, of whatever format, never becomes so. *)
FeaturesNeverStranded == Unusable => ever = {}

(* A daemon that serves finds every feature that was ever stored, whatever
   happened to earlier starts and upgrades, and with the UUID of its owner,
   unless an upgrade could not read the list of the users to its end. *)
ServingHasAll ==
  pc = "serving" /\ ~ tx =>
    \A i \in ever : disk.rows[i] = Owner[i] \/ (cut /\ disk.rows[i] = NoUuid)

(* Once faults have ceased the daemon comes up and stays up, unless the
   creation of the database was interrupted or its format is unknown.  It
   does so however many upgrades were interrupted or made for no reason. *)
ComesUp == <>[] (pc = "serving" \/ Unusable \/ disk.format = "other")
=============================================================================
