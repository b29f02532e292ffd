----------------------------- MODULE DaemonLife -----------------------------
(***************************************************************************)
(* The start, the life and the end of biometric-authenticationd: main in    *)
(* src/src/biometric-authenticationd.c and bio_init, on top of the          *)
(* configuration file, which biometric-config-tool edits meanwhile.         *)
(*                                                                         *)
(* systemd keeps one process of the daemon running; somebody may start      *)
(* another by hand or with the init script.  They meet at the pid file and  *)
(* its lock, at the name on the bus, which each takes away from the other,  *)
(* and in the memory the community drivers share.                           *)
(*                                                                         *)
(* systemd, the bus and the files are external.                             *)
(***************************************************************************)
EXTENDS DriverConfig

CONSTANTS
  Procs,      \* processes of the daemon
  Unit,       \* the one systemd keeps
  StartLimit, \* DefaultStartLimitBurst of systemd: starts within an interval
  MaxFaults,  \* bound: crashes, kills and failing calls
  MaxMoves    \* bound: how often root logs in or out

ASSUME DaemonAssumption ==
  /\ Unit \in Procs /\ StartLimit \in Nat \ {0} /\ MaxFaults \in Nat /\ MaxMoves \in Nat
  /\ None \notin Procs \cup {"run", "tmp", "gone"} /\ Empty \notin Procs

VARIABLES
  at,       \* how far each process has come
  where,    \* the directory of its pid file
  pidFile,  \* what the pid file of each directory says
  session,  \* root is logged in, and PID_DIR_0 is there
  busName,  \* who owns org.ukui.Biometric
  ousted,   \* processes that have lost it to another
  loaded,   \* bio_drv_list of each process
  starts,   \* starts systemd has counted in this interval, the refused one too
  disturbed,\* history: the configuration was not readable, or somebody started
            \* a daemon by hand
  faults, moves

procVars == <<at, where, loaded>>
busVars  == <<busName, ousted>>
unitVars == <<starts, disturbed>>
world    == <<session, moves>>
vars == <<configVars, procVars, pidFile, busVars, unitVars, world, faults>>

\* PID_DIR_0 and PID_DIR_1
Dirs == {"run", "tmp"}

PastLock == {"locked", "written", "inited", "serving", "quitting", "closing"}
Points   == {"none", "opened"} \cup PastLock

Driver == [plugin : Plugins, id : (IdStart .. IdMax + 1) \cup {-1}, enabled : BOOLEAN]

(* A process whose directory was removed under it still has its lock, which
   nobody will meet. *)
TypeOK ==
  /\ file.state \in States /\ IsSections(file.sections)
  /\ at \in [Procs -> Points]
  /\ where \in [Procs -> Dirs \cup {None, "gone"}]
  /\ pidFile \in [Dirs -> Procs \cup {None, Empty}]
  /\ busName \in Procs \cup {None} /\ ousted \subseteq Procs
  /\ session \in BOOLEAN /\ (~ session => pidFile["run"] = None)
  /\ \A p \in Procs : /\ at[p] = "none" <=> where[p] = None
                      /\ loaded[p] \in Seq(Driver)
  /\ starts \in 0 .. StartLimit + 1 /\ disturbed \in BOOLEAN
  /\ faults \in 0 .. MaxFaults /\ moves \in 0 .. MaxMoves

Init ==
  /\ ConfigInit
  /\ at = [p \in Procs |-> "none"] /\ where = [p \in Procs |-> None]
  /\ pidFile = [d \in Dirs |-> None]
  /\ session \in BOOLEAN
  /\ busName = None /\ ousted = {}
  /\ loaded = [p \in Procs |-> <<>>]
  /\ starts = 0 /\ disturbed = (file.state # "good")
  /\ faults = 0 /\ moves = 0

Fault == faults < MaxFaults /\ faults' = faults + 1

Goes(p, from, to) == at[p] = from /\ at' = [at EXCEPT ![p] = to]

(* A process has left the bus: its name goes to one it was taken from, which
   the bus has kept waiting. *)
OffTheBus(p) ==
  /\ ousted' = ousted \ {p}
  /\ IF busName = p
     THEN busName' \in IF ousted' = {} THEN {None} ELSE ousted'
     ELSE UNCHANGED busName

(* The process is gone, its lock with it. *)
Gone(p) ==
  /\ at' = [at EXCEPT ![p] = "none"] /\ where' = [where EXCEPT ![p] = None]
  /\ loaded' = [loaded EXCEPT ![p] = <<>>]
  /\ OffTheBus(p)

-----------------------------------------------------------------------------
(* The start.                                                               *)

(* systemd starts the unit whenever it has ended (Restart=always, at once), a
   limited number of times within an interval that began with the first of
   them; after the interval it counts anew.  Anybody may start another daemon. *)
Started(p) ==
  IF p = Unit
  THEN /\ starts' \in {1} \cup { n \in {starts + 1} : n <= StartLimit }
       /\ starts <= StartLimit /\ UNCHANGED disturbed
  ELSE disturbed' = TRUE /\ UNCHANGED starts

(* The attempt that is one too many: the unit has failed, and stays so. *)
GivenUp == starts > StartLimit

StartRefused ==
  /\ at[Unit] = "none" /\ starts = StartLimit
  /\ starts' = StartLimit + 1
  /\ UNCHANGED <<configVars, procVars, pidFile, busVars, disturbed, world, faults>>

(* Until the administrator has the unit started again. *)
AdminStarts ==
  /\ GivenUp /\ starts' = 0
  /\ UNCHANGED <<configVars, procVars, pidFile, busVars, disturbed, world, faults>>

(* Mutant of Open: the pid is put down before the lock is tried. *)
OpenWrites(p) ==
  LET dir == IF session THEN "run" ELSE "tmp"
  IN /\ Goes(p, "none", "opened") /\ Started(p)
     /\ where' = [where EXCEPT ![p] = dir]
     /\ pidFile' = [pidFile EXCEPT ![dir] = p]
     /\ UNCHANGED <<configVars, loaded, busVars, world, faults>>

(* The pid file lies in the first directory there is, and is emptied. *)
Open(p) ==
  LET dir == IF session THEN "run" ELSE "tmp"
  IN /\ Goes(p, "none", "opened") /\ Started(p)
     /\ where' = [where EXCEPT ![p] = dir]
     /\ pidFile' = [pidFile EXCEPT ![dir] = Empty]
     /\ UNCHANGED <<configVars, loaded, busVars, world, faults>>

HasLock(q, dir) == at[q] \in PastLock /\ where[q] = dir

(* flock with LOCK_NB. *)
Lock(p) ==
  /\ Goes(p, "opened", "locked")
  /\ where[p] \in Dirs => \A q \in Procs : ~ HasLock(q, where[p])
  /\ UNCHANGED <<configVars, where, loaded, pidFile, busVars, unitVars, world, faults>>

Refused(p) ==
  /\ at[p] = "opened" /\ where[p] \in Dirs
  /\ \E q \in Procs : HasLock(q, where[p])
  /\ Gone(p)
  /\ UNCHANGED <<configVars, pidFile, unitVars, world, faults>>

(* The pid goes to the head of the file, over what a process that came in
   between may have left.  A write that fails, of which the daemon only warns,
   is left out. *)
WritePid(p) ==
  /\ Goes(p, "locked", "written")
  /\ pidFile' = IF where[p] \in Dirs THEN [pidFile EXCEPT ![where[p]] = p] ELSE pidFile
  /\ UNCHANGED <<configVars, where, loaded, busVars, unitVars, world, faults>>

(* InitBioDevice: bio_init reads the configuration, then the drivers are
   loaded.  Nothing has registered as yet, so the readers are found too. *)
InitBioDevice(p) ==
  /\ Goes(p, "written", "inited")
  /\ file.state = "good"
  /\ \E past \in SUBSET NamesOf(file.sections) :
       loaded' = [loaded EXCEPT ![p] = DriverListInit(file.sections, past)]
  /\ UNCHANGED <<configVars, where, pidFile, busVars, unitVars, world, faults>>

(* The community drivers of a second process find the memory of the first and
   use its pointers. *)
SharesMemory(p) == \E q \in Procs \ {p} : loaded[q] # <<>>

(* Mutant of InitFails: bio_init takes an empty list of drivers for a failure. *)
InitFailsNoDriver(p) ==
  /\ at[p] = "written" /\ Gone(p)
  /\ IF file.state # "good" \/ SharesMemory(p) \/ DriverListInit(file.sections, {}) = <<>>
     THEN UNCHANGED faults ELSE Fault
  /\ UNCHANGED <<configVars, pidFile, unitVars, world>>

(* The daemon ends if the configuration, the database or libusb fails. *)
InitFails(p) ==
  /\ at[p] = "written" /\ Gone(p)
  /\ IF file.state # "good" \/ SharesMemory(p) THEN UNCHANGED faults ELSE Fault
  /\ UNCHANGED <<configVars, pidFile, unitVars, world>>

(* Mutant of InitBioDBusCommServer: the name is not taken from its owner, and a
   daemon that does not get it goes on. *)
InitBioDBusCommServerPolite(p) ==
  /\ Goes(p, "inited", "serving")
  /\ busName' = IF busName = None THEN p ELSE busName
  /\ UNCHANGED <<configVars, where, loaded, pidFile, ousted, unitVars, world, faults>>

(* The hotplug thread, the mutexes, the bus: g_bus_own_name with the flags to
   replace and to be replaced.  The main loop runs. *)
InitBioDBusCommServer(p) ==
  /\ Goes(p, "inited", "serving")
  /\ busName' = p
  /\ ousted' = IF busName = None THEN ousted ELSE ousted \cup {busName}
  /\ UNCHANGED <<configVars, where, loaded, pidFile, unitVars, world, faults>>

-----------------------------------------------------------------------------
(* The end.                                                                 *)

(* name_lost_cb ends the main loop. *)
NameLost(p) ==
  /\ p \in ousted /\ Goes(p, "serving", "quitting")
  /\ UNCHANGED <<configVars, where, loaded, pidFile, busVars, unitVars, world, faults>>

(* The skeleton cannot be exported, and the name is asked for all the same; or
   the connection to the bus is gone. *)
BusFails(p) ==
  /\ Goes(p, "serving", "quitting") /\ Fault
  /\ UNCHANGED busVars \/ OffTheBus(p)
  /\ UNCHANGED <<configVars, where, loaded, pidFile, unitVars, world>>

(* UnInitBioDevice: ops_close of a listed device polls for a callback of the
   main loop, which has ended. *)
CloseForEver(p) ==
  /\ Goes(p, "quitting", "closing")
  /\ \E i \in DOMAIN loaded[p] : loaded[p][i].enabled
  /\ UNCHANGED <<configVars, where, loaded, pidFile, busVars, unitVars, world, faults>>

(* No device is listed. *)
Leave(p) ==
  /\ at[p] = "quitting" /\ Gone(p)
  /\ UNCHANGED <<configVars, pidFile, unitVars, world, faults>>

Killed(p) ==
  /\ at[p] # "none" /\ Fault /\ Gone(p)
  /\ UNCHANGED <<configVars, pidFile, unitVars, world>>

(* The unit is of Type=dbus: systemd stops a process that has given up the
   name while nobody else has it. *)
Stopped ==
  /\ at[Unit] \in {"quitting", "closing"} /\ busName = None
  /\ Gone(Unit)
  /\ UNCHANGED <<configVars, pidFile, unitVars, world, faults>>

-----------------------------------------------------------------------------
(* /run/user/0 comes and goes with the sessions of root.                    *)

RootLogin ==
  /\ ~ session /\ session' = TRUE /\ moves < MaxMoves /\ moves' = moves + 1
  /\ UNCHANGED <<configVars, procVars, pidFile, busVars, unitVars, faults>>

RootLogout ==
  /\ session /\ session' = FALSE /\ moves < MaxMoves /\ moves' = moves + 1
  /\ pidFile' = [pidFile EXCEPT !["run"] = None]
  /\ where' = [p \in Procs |-> IF where[p] = "run" THEN "gone" ELSE where[p]]
  /\ UNCHANGED <<configVars, at, loaded, busVars, unitVars, faults>>

-----------------------------------------------------------------------------
(* main, once the process is there. *)
Main(p) ==
  \/ Lock(p) \/ Refused(p) \/ WritePid(p)
  \/ InitBioDevice(p) \/ InitFails(p) \/ InitBioDBusCommServer(p)
  \/ NameLost(p) \/ CloseForEver(p) \/ Leave(p)

Edits ==
  ConfigNext /\ UNCHANGED <<procVars, pidFile, busVars, unitVars, world, faults>>

Next ==
  \/ \E p \in Procs : Open(p) \/ Main(p) \/ BusFails(p) \/ Killed(p)
  \/ Stopped \/ StartRefused \/ AdminStarts \/ RootLogin \/ RootLogout \/ Edits

(* systemd and the main of the unit go on: it is started whenever it has ended,
   until systemd refuses.  Nobody has to start it again then. *)
Spec == Init /\ [][Next]_vars /\ WF_vars(Open(Unit) \/ StartRefused \/ Main(Unit) \/ Stopped)

-----------------------------------------------------------------------------
(* Properties.                                                              *)

(* Whoever reads the pid file of a running daemon finds its pid first, or nothing,
   never that of another process, though every process that is started empties
   the file before it tries the lock, and may be refused. *)
PidFileNeverMisleads ==
  \A p \in Procs :
    at[p] \in PastLock \ {"locked"} /\ where[p] \in Dirs => pidFile[where[p]] \in {p, Empty}

(* Commands overwrite each other's changes.  Still, a section that no command
   has named stays as it was, in any order of loading and saving, as long as
   no command has worked on a file it could not read. *)
UnnamedSectionsKept ==
  [][~ misread' => \A n \in Names \ named' :
        SectionOf(file.sections, n) = SectionOf(file'.sections, n)]_vars

(* Whatever commands have raced, a daemon that serves has loaded the driver of
   every section that no command has named, if it can be loaded: one section
   without a driver would cost it all the others, and no two commands make
   such a section together that neither makes alone. *)
DriversServed ==
  ~ misread /\ ~ unkeyed =>
    \A p \in Procs : at[p] = "serving" =>
      \A x \in Range(file.sections) :
        x.name \notin named /\ Loads(x.driver) =>
          \E i \in DOMAIN loaded[p] : loaded[p][i].plugin = x.driver

(* The IDs of the drivers in a list: what is not an ID to give, or is given
   twice, was given when there was none left, and only -1 is given twice. *)
DriverIds ==
  \A p \in Procs : \A i \in DOMAIN loaded[p] :
    LET id     == loaded[p][i].id
        before == SubSeq(loaded[p], 1, i - 1)
    IN /\ id \notin IdStart .. IdMax => IdStart .. IdMax \subseteq IdsOf(before)
       /\ id \in IdsOf(before) => id = -1

(* Once the configuration can be read and nobody starts a daemon by hand, the
   unit serves and has the name, again after every end, unless systemd has
   given it up for having ended too often.  The other exception is a process
   whose main loop has ended and which has the name, or to which the bus has
   given it back: systemd takes it for a running service. *)
Serving == at[Unit] = "serving" /\ busName = Unit
Haunted == busName # None /\ at[busName] \in {"quitting", "closing"}

ServesAgain ==
  <>[](file.state = "good" /\ \A p \in Procs \ {Unit} : at[p] = "none")
    => []<>(Serving \/ Haunted \/ GivenUp)

(* The daemon does not use up the starts by itself: systemd gives it up only
   when the configuration was not readable, when another daemon was started, or
   after as many faults as it allows starts. *)
GivenUpForACause == GivenUp => disturbed \/ faults >= StartLimit

(* "Biometric authentication server is running, Do not restart it repeatedly":
   there is one daemon. *)
OneDaemon ==
  \A p, q \in Procs : at[p] \in PastLock /\ at[q] \in PastLock => p = q
=============================================================================
