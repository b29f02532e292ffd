------------------------ MODULE DatabaseFormat_proofs ------------------------
(***************************************************************************)
(* Proofs about DatabaseFormat: whatever fails while a database is created *)
(* or upgraded, no feature is lost.                                        *)
(***************************************************************************)
EXTENDS DatabaseFormat, TLAPS

Upgrading == {"rename", "recreate", "migrate", "uuids", "format", "version", "commit"}
Creating == {"create", "create format", "create version"}

(* A row is there, with the UUID of its owner or still without. *)
Kept(rows, i) == rows[i] \in {Owner[i], NoUuid}

(* The database on disk holds every row that was ever stored; without a UUID
   only in the first format, or after the list of users was cut. *)
DiskKept ==
  /\ ever # {} => disk.file /\ disk.eigen
  /\ \A i \in ever :
       /\ Kept(disk.rows, i)
       /\ disk.rows[i] = NoUuid => cut \/ disk.format \in {"none", "empty"}

(* Outside a transaction the connection sees what is on disk; every step of an
   upgrade is in a transaction. *)
TxKnown ==
  /\ ~ tx => work = disk
  /\ pc \in Upgrading => tx
  /\ tx => pc \in Upgrading \cup {"serving"}

(* What the transaction has done so far. *)
WorkKept ==
  /\ pc = "rename" => work = disk
  /\ pc \in {"recreate", "migrate"} => ever \subseteq work.backup
  /\ pc = "uuids" => \A i \in ever :
       Kept(work.rows, i) /\ (work.rows[i] = NoUuid => Owner[i] \in todo)
  /\ pc \in {"format", "version", "commit"} => \A i \in ever :
       Kept(work.rows, i) /\ (work.rows[i] = NoUuid => cut)

(* Which tables are there. *)
Schema ==
  /\ disk.format # "none" => disk.file /\ disk.eigen
  /\ pc \notin {"down", "connect"} => work.file
  /\ pc \in {"create format", "create version", "migrate", "uuids", "format", "version",
              "commit", "serving"} => work.eigen

NothingYet == pc \in Creating => ever = {}

Safe == DiskKept /\ TxKnown /\ WorkKept /\ Schema /\ NothingYet /\ ServingHasAll

-----------------------------------------------------------------------------
(* Type correctness.                                                        *)

(* A statement whose result is a database keeps the types. *)
LEMMA StatementType ==
  ASSUME TypeOK, NEW from, NEW to \in Places, NEW db \in Databases, Statement(from, to, db),
         todo' \subseteq Users, cut' = cut
  PROVE  TypeOK'
BY DEF TypeOK, Statement, Goes

(* Every step of a start, of an upgrade and of the serving daemon keeps the
   types. *)
LEMMA TypeStep == TypeOK /\ [Next]_vars => TypeOK'
<1> SUFFICES ASSUME TypeOK, [Next]_vars PROVE TypeOK'
  OBVIOUS
<1> USE FormatAssumption DEF Places
<1>0. /\ [work EXCEPT !.file = TRUE] \in Databases
      /\ [work EXCEPT !.eigen = TRUE] \in Databases
      /\ [work EXCEPT !.format = IF @ = "none" THEN "empty" ELSE @] \in Databases
      /\ [work EXCEPT !.format = IF @ = "other" THEN @ ELSE "current"] \in Databases
  BY DEF TypeOK, Databases, Formats
<1>1. CASE Connect
  <2>1. todo' \subseteq Users /\ cut' = cut
    BY <1>1 DEF Connect, Statement, TypeOK
  <2>2. CASE work.file
    BY <1>0, <1>1, <2>1, <2>2, StatementType DEF Connect
  <2>3. CASE ~ work.file
    BY <1>0, <1>1, <2>1, <2>3, StatementType DEF Connect
  <2> QED
    BY <2>2, <2>3
<1>2. CASE Create
  <2>1. CASE CreateEigenInfo("create", "create format")
    BY <1>0, <2>1, StatementType DEF CreateEigenInfo, TypeOK, Statement
  <2>2. CASE CreateFormat("create format", "create version")
    BY <1>0, <2>2, StatementType DEF CreateFormat, TypeOK, Statement
  <2>3. CASE InsertVersion("create version", "check")
    BY <1>0, <2>3, StatementType DEF InsertVersion, TypeOK, Statement
  <2> QED
    BY <1>2, <2>1, <2>2, <2>3 DEF Create
<1>3. CASE Rename
  <2>1. [work EXCEPT !.eigen = FALSE, !.renamed = TRUE, !.rows = NoRows,
                     !.backup = Stored(work.rows)] \in Databases
    BY DEF TypeOK, Databases, NoRows, Stored
  <2> QED
    BY <1>3, <2>1, StatementType DEF Rename, TypeOK, Statement
<1>4. CASE Migrate
  <2>1. [work EXCEPT !.rows = [i \in Ids |-> IF i \in work.backup THEN NoUuid ELSE @[i]]]
          \in Databases
    BY DEF TypeOK, Databases
  <2>2. \A i \in work.backup : i \in Ids
    BY DEF TypeOK, Databases
  <2>3. todo' \subseteq Users
    BY <1>4, <2>2 DEF Migrate
  <2> QED
    BY <1>4, <2>1, <2>3, StatementType DEF Migrate, Statement
<1>5. CASE SetUuid
  <2> PICK u \in todo :
        /\ Statement("uuids", "uuids",
             [work EXCEPT !.rows = [i \in Ids |-> IF @[i] # Absent /\ Owner[i] = u
                                                  THEN u ELSE @[i]]])
        /\ todo' = todo \ {u}
    BY <1>5 DEF SetUuid
  <2>1. [work EXCEPT !.rows = [i \in Ids |-> IF @[i] # Absent /\ Owner[i] = u
                                             THEN u ELSE @[i]]] \in Databases
    BY DEF TypeOK, Databases
  <2> QED
    BY <2>1, StatementType DEF Statement, TypeOK
<1>6. CASE CreateEigenInfo("recreate", "migrate")
  BY <1>0, <1>6, StatementType DEF CreateEigenInfo, TypeOK, Statement
<1>7. CASE CreateFormat("format", "version") \/ InsertVersion("version", "commit")
  BY <1>0, <1>7, StatementType DEF CreateFormat, InsertVersion, TypeOK, Statement
<1>8. CASE \E i \in Ids : Enroll(i)
  <2> PICK i \in Ids : Enroll(i)
    BY <1>8
  <2>1. [work EXCEPT !.rows[i] = Owner[i]] \in Databases
    BY DEF TypeOK, Databases
  <2> QED
    BY <2>1 DEF Enroll, TypeOK
<1>9. CASE Check
  <2>1. pc' \in {"begin", "serving", "down"}
    BY <1>9 DEF Check
  <2> QED
    BY <1>9, <2>1 DEF Check, TypeOK
<1>10. CASE Restart \/ Begin \/ RenameFails \/ UuidsSet \/ Commit
  BY <1>10 DEF Restart, Begin, RenameFails, UuidsSet, Commit, Goes, TypeOK
<1>11. CASE CheckFails \/ UuidsFail \/ CommitFails \/ Dies
  <2>0. faults < MaxFaults /\ faults' = faults + 1 /\ faults \in 0 .. MaxFaults
    BY <1>11, Zenon DEF CheckFails, UuidsFail, CommitFails, Dies, TypeOK
  <2>1. faults' \in 0 .. MaxFaults
    BY <2>0
  <2>2. CASE CheckFails \/ CommitFails
    BY <2>1, <2>2 DEF CheckFails, CommitFails, Goes, TypeOK
  <2>3. CASE UuidsFail
    BY <2>1, <2>3 DEF UuidsFail, Goes, TypeOK
  <2>4. CASE Dies
    BY <2>1, <2>4 DEF Dies, TypeOK
  <2> QED
    BY <1>11, <2>2, <2>3, <2>4
<1>12. CASE UNCHANGED vars
  BY <1>12 DEF vars, TypeOK
<1> QED
  BY <1>1, <1>2, <1>3, <1>4, <1>5, <1>6, <1>7, <1>8, <1>9, <1>10, <1>11, <1>12
  DEF Next, Daemon, Upgrade

(* The program starts with one of the databases any version may have left. *)
LEMMA TypeInit == Init => TypeOK
<1> SUFFICES ASSUME Init PROVE TypeOK
  OBVIOUS
<1> USE FormatAssumption
<1>1. NoDatabase \in Databases
  BY DEF NoDatabase, NoRows, Databases, Formats
<1>2. \A S \in SUBSET Ids : FirstFormat(S) \in Databases
  BY DEF FirstFormat, NoDatabase, NoRows, Databases, Formats
<1>3. \A S \in SUBSET Ids, f \in {"current", "other"} : ThisFormat(S, f) \in Databases
  BY DEF ThisFormat, NoDatabase, NoRows, Databases, Formats
<1>4. disk \in Databases
  BY <1>1, <1>2, <1>3 DEF Init
<1>5. ever \subseteq Ids
  BY DEF Init, Stored
<1>6. faults \in 0 .. MaxFaults
  BY DEF Init
<1>7. tx \in BOOLEAN /\ cut \in BOOLEAN
  BY Zenon DEF Init
<1>8. pc \in Places /\ work \in Databases /\ todo \subseteq Users
  BY <1>4 DEF Init, Places
<1> QED
  BY <1>4, <1>5, <1>6, <1>7, <1>8, Zenon DEF TypeOK

-----------------------------------------------------------------------------
(* Every feature is kept.                                                   *)

(* What a start of the program finds. *)
LEMMA SafeInit == Init => Safe
<1> SUFFICES ASSUME Init PROVE Safe
  OBVIOUS
<1> USE FormatAssumption
<1>1. CASE disk = NoDatabase
  BY <1>1 DEF Init, NoDatabase, NoRows, Stored, Safe, DiskKept, TxKnown, WorkKept,
              Schema, NothingYet, ServingHasAll, Upgrading, Creating
<1>2. ASSUME NEW S \in SUBSET Ids, disk = FirstFormat(S) PROVE Safe
  <2>1. disk.file /\ disk.eigen /\ disk.format = "none"
    BY <1>2 DEF FirstFormat, NoDatabase
  <2>2. \A i \in ever : disk.rows[i] = NoUuid
    BY <1>2 DEF Init, Stored, FirstFormat, NoDatabase
  <2> QED
    BY <2>1, <2>2 DEF Init, Safe, DiskKept, Kept, TxKnown, WorkKept, Schema, NothingYet, ServingHasAll,
                      Upgrading, Creating
<1>3. ASSUME NEW S \in SUBSET Ids, NEW f \in {"current", "other"}, disk = ThisFormat(S, f)
      PROVE  Safe
  <2>1. disk.file /\ disk.eigen
    BY <1>3 DEF ThisFormat, NoDatabase
  <2>2. \A i \in ever : i \in Ids /\ disk.rows[i] = Owner[i] /\ Owner[i] # NoUuid
    BY <1>3 DEF Init, Stored, ThisFormat, NoDatabase
  <2> QED
    BY <2>1, <2>2 DEF Init, Safe, DiskKept, Kept, TxKnown, WorkKept, Schema, NothingYet, ServingHasAll,
                      Upgrading, Creating
<1> QED
  BY <1>1, <1>2, <1>3 DEF Init

(* Each statement of a creation or an upgrade keeps every feature, on disk or in
   the transaction, and so does the end of a start at any of them. *)
LEMMA SafeStep == TypeOK /\ Safe /\ [Next]_vars => Safe'
<1> SUFFICES ASSUME TypeOK, Safe, [Next]_vars PROVE Safe'
  OBVIOUS
<1> USE FormatAssumption
        DEF Upgrading, Creating, Safe, DiskKept, Kept, TxKnown, WorkKept, Schema, NothingYet,
            ServingHasAll
<1>1. CASE Connect
  BY <1>1 DEF Connect, Statement, Goes, TypeOK, Databases
<1>2. CASE CreateEigenInfo("create", "create format")
  BY <1>2 DEF CreateEigenInfo, Statement, Goes, TypeOK, Databases
<1>3. CASE CreateFormat("create format", "create version")
  BY <1>3 DEF CreateFormat, Statement, Goes, TypeOK, Databases
<1>4. CASE InsertVersion("create version", "check")
  BY <1>4 DEF InsertVersion, Statement, Goes, TypeOK, Databases
<1>5. CASE Rename
  <2>1. work'.backup = Stored(work.rows) /\ work'.file = work.file
    BY <1>5 DEF Rename, Statement, TypeOK, Databases
  <2>2. ever \subseteq Stored(work.rows)
    BY <1>5 DEF Rename, Statement, Goes, Stored, TypeOK
  <2> QED
    BY <1>5, <2>1, <2>2 DEF Rename, Statement, Goes
<1>6. CASE CreateEigenInfo("recreate", "migrate")
  BY <1>6 DEF CreateEigenInfo, Statement, Goes, TypeOK, Databases
<1>7. CASE Migrate
  <2>1. \A i \in ever : work'.rows[i] = NoUuid /\ Owner[i] \in todo'
    BY <1>7 DEF Migrate, Statement, Goes, TypeOK, Databases
  <2>2. work'.file = work.file /\ work'.eigen = work.eigen
    BY <1>7 DEF Migrate, Statement, TypeOK, Databases
  <2> QED
    BY <1>7, <2>1, <2>2 DEF Migrate, Statement, Goes
<1>8. CASE SetUuid
  <2> PICK u \in todo :
        /\ Statement("uuids", "uuids",
             [work EXCEPT !.rows = [i \in Ids |-> IF @[i] # Absent /\ Owner[i] = u
                                                  THEN u ELSE @[i]]])
        /\ todo' = todo \ {u}
    BY <1>8 DEF SetUuid
  <2>1. \A i \in ever : Kept(work'.rows, i) /\ (work'.rows[i] = NoUuid => Owner[i] \in todo')
    BY DEF Statement, Goes, TypeOK, Databases
  <2>2. work'.file = work.file /\ work'.eigen = work.eigen
    BY DEF Statement, TypeOK, Databases
  <2> QED
    BY <2>1, <2>2 DEF Statement, Goes
<1>9. CASE UuidsSet
  BY <1>9 DEF UuidsSet, Goes
<1>10. CASE UuidsFail
  BY <1>10 DEF UuidsFail, Goes
<1>11. CASE CreateFormat("format", "version")
  BY <1>11 DEF CreateFormat, Statement, Goes, TypeOK, Databases
<1>12. CASE InsertVersion("version", "commit")
  BY <1>12 DEF InsertVersion, Statement, Goes, TypeOK, Databases
<1>13. CASE Commit
  BY <1>13 DEF Commit, Goes
<1>14. CASE Check
  <2>1. pc = "check" /\ ~ tx /\ work = disk /\ pc' \in {"begin", "serving", "down"}
    BY <1>14 DEF Check
  <2>2. pc' = "serving" => disk.format = "current"
    BY <1>14, <2>1 DEF Check
  <2>3. UNCHANGED <<disk, work, tx, todo, cut, ever>>
    BY <1>14 DEF Check
  <2> QED
    BY <2>1, <2>2, <2>3
<1>15. CASE Restart
  BY <1>15 DEF Restart, Goes
<1>16. CASE Begin
  BY <1>16 DEF Begin, Goes
<1>17. CASE CheckFails
  BY <1>17 DEF CheckFails, Goes
<1>18. CASE CommitFails
  BY <1>18 DEF CommitFails, Goes
<1>19. CASE RenameFails
  BY <1>19 DEF RenameFails, Goes
<1>20. CASE Dies
  <2>1. pc' = "down" /\ ~ tx' /\ work' = disk /\ UNCHANGED <<disk, todo, cut, ever>>
    BY <1>20 DEF Dies
  <2> QED
    BY <2>1
<1>21. CASE \E i \in Ids : Enroll(i)
  <2> PICK i \in Ids : Enroll(i)
    BY <1>21
  <2>1. \A j \in ever' : work'.rows[j] = IF j = i THEN Owner[i] ELSE work.rows[j]
    BY DEF Enroll, TypeOK, Databases
  <2>2. work'.file = work.file /\ work'.eigen = work.eigen /\ work'.format = work.format
    BY DEF Enroll, TypeOK, Databases
  <2> QED
    BY <2>1, <2>2 DEF Enroll
<1>22. CASE UNCHANGED vars
  BY <1>22 DEF vars
<1> QED
  BY <1>1, <1>2, <1>3, <1>4, <1>5, <1>6, <1>7, <1>8, <1>9, <1>10, <1>11, <1>12, <1>13, <1>14,
     <1>15, <1>16, <1>17, <1>18, <1>19, <1>20, <1>21, <1>22 DEF Next, Daemon, Create, Upgrade

-----------------------------------------------------------------------------
(* Every state of a start is one of the states the model means to describe:
   the program is somewhere in bio_init and the database has one of the formats
   that any version of it leaves. *)
THEOREM TypeCorrect == Spec => []TypeOK
<1>1. Init => TypeOK
  BY TypeInit
<1>2. TypeOK /\ [Next]_vars => TypeOK'
  BY TypeStep
<1> QED
  BY <1>1, <1>2, PTL DEF Spec

(* Safe is an invariant: it is inductive relative to the types. *)
LEMMA SafeAlways == Spec => []Safe
<1>1. Spec => []TypeOK
  BY TypeCorrect
<1>2. Init => Safe
  BY SafeInit
<1>3. TypeOK /\ Safe /\ [Next]_vars => Safe'
  BY SafeStep
<1> QED
  BY <1>1, <1>2, <1>3, PTL DEF Spec

(* No crash and no failing statement, of however many, makes a database that
   has ever held a feature unusable for the starts to come. *)
THEOREM NeverStranded == Spec => []FeaturesNeverStranded
<1>1. Safe => FeaturesNeverStranded
  BY DEF Safe, DiskKept, FeaturesNeverStranded, Unusable
<1> QED
  BY <1>1, SafeAlways, PTL

(* However many upgrades were interrupted, repeated or made for no reason, a
   daemon that serves finds every feature that was ever stored, with the UUID of
   its owner unless the list of the users was cut. *)
THEOREM NothingLost == Spec => []ServingHasAll
<1>1. Safe => ServingHasAll
  BY DEF Safe
<1> QED
  BY <1>1, SafeAlways, PTL
=============================================================================
