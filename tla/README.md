# A verification development for biometric-authentication

TLA+ models of the biometric authentication framework in this repository, the TLC
configurations that check them, and TLAPS proofs about them. Paths below are those of the
repository.

## 1. The system

`biometric-authenticationd` is a D-Bus service. A client asks it to enroll, verify, identify,
capture, search, clean, rename or list features of a user on a device. Devices are driven by
shared objects that the daemon loads; the ones in the tree are the twenty
`community-multidevice` drivers, which share one implementation on top of libfprint. Features
are rows of an SQLite database.

| Component | State | Operations | Behaves badly when |
|---|---|---|---|
| Request handlers, `src/biometric-authenticationd.c` | `dev_dbus_mutex[]`, one thread per request | `gdbus_enroll_pt` ... `gdbus_clean_pt`, `gdbus_stop_ops` | requests for one device race, a device is unplugged, a session is stranded |
| Framework operations, `src/lib/biometric_common.c` | `bio_dev.dev_status`, `ops_result`, `notify_mid` | `bio_ops_*`: open, one operation, close | statuses and results are written in several steps and read without a lock |
| Community drivers, `src/drivers/community-multidevice/community_ops.c` | `asyn_flag`, `ctrlFlag`, `timeused`, `timeoutMS` | `community_ops_*`: start a libfprint call and poll for its callback | callbacks, the timeout and stop requests interleave |
| libfprint callbacks, `close.c` | the same flags, the data read | one callback per kind of call | a callback fails before it sets DONE |
| Feature storage, `src/lib/biometric_storage.c` | table `EIGEN_INFO`, UUID of each user | insert, list, rename, delete | several devices and the unlocked clean work on one table, and a list ends early without a word |
| Database start, same file and `bio_init` | file, tables, format version | create, check, upgrade | the daemon dies between two statements |
| Driver list, `bio_driver_list_init` | `bio_drv_list` | load what the configuration names | one bad section, plugins that are passed over, no ID left |
| Device list, `biometric_common.c`, `driver_internal.c` | `bio_dev_list`, `dev_num`, the shared `devices` and `device` | discover, attach, detach, walk | the hotplug thread changes a list others walk, and asks libfprint, which hears of readers at its own pace |
| Start-up and shutdown, `main` | pid file and lock, threads, bus name, main loop | start, name lost, stop | two processes meet; callbacks are awaited after the main loop has ended; systemd gives up |
| polkit, `biometric-dbus-common.c` | none | a yes or no | it asks a person, who may never answer |
| Configuration tool, `src/utils/biometric-config-tool` | `biometric-drivers.conf` | load, edit a copy, save the copy | the file changed meanwhile, or could not be read |
| Authentication client, discovery tool, `src/utils` | none | a command line session; a listing | |
| Templates, `aes_128_cfb.c`, base64; versions, `biometric_version.c` | none | pure functions | |

How they meet:

- A request thread looks its device up in `bio_dev_list`, tries the mutex of the driver
  (`pthread_mutex_trylock`: busy means an answer, not a wait), runs one `bio_ops_*` operation,
  releases the mutex, and only then reads the result register to build its answer.
- `bio_ops_*` calls the driver three times (open, operation, close). Each call starts an
  asynchronous libfprint operation; the callback runs in the main loop and sets
  `asyn_flag = DONE`, for which the worker polls every 100 ms.
- `StopOps` runs in a thread of its own, takes no mutex, writes `asyn_flag` and `ctrlFlag` and polls
  for an acknowledgement.
- A clean of all drivers takes the mutexes one after the other, skips what it cannot get, and
  ends with a clean of the table without a lock.
- libusb tells the hotplug thread of each reader that comes or goes; the thread asks the driver, which looks at
  libfprint's array of devices one at a time, without a lock. libfprint keeps the array up to date in the main loop. Nothing orders the two.
- All community drivers keep their libfprint objects in one piece of shared memory; the first that is loaded
  fills it, and the device its search ends on is the one every driver opens.
- The daemon reads the configuration once, at its start. Every command of the tool rewrites the whole file.
- A crash takes all of this down at once; systemd starts the daemon again
  (`Restart=always`), with fresh mutexes and registers and whatever is in the database.

What makes each component correct:

- *Handlers*: no two sessions on a device, no mutex leaked or released by another; an answer is the
  answer of this request; a clean that reports success has erased; nobody waits for a stranded device.
- *Drivers*: each session leaves one of the results of its operation; "verified" and the like come from
  libfprint and from this session; a DONE ends the call it was meant for; a session ends; a
  stop request is answered.
- *Storage*: lists are exact for what could be read, an index that a list showed free is free, a rename by row ID never touches another feature.
- *Database start*: no feature is lost whatever interrupts an upgrade; the daemon comes up.
- *Device list*: an entry for each connected device with a driver, and no other; no driver is
  listed for the reader of another; a walk misses no device that stays.
- *Start-up*: one daemon; the pid file names it; the service comes back after every end, as far as systemd starts it.
- *Configuration tool*: a command changes the section it names and nothing else, and no two commands
  cost the daemon its drivers.

The hazards of the code, each at its line and with the property that would catch it, are listed in
`PROJECT.json`.

## 2. Modules

```
BioStatus            codes: operation types, results, device status, outcomes of a session
  DeviceContract     abstract: a device is free or busy; a session leaves a listed outcome
  CommunityDriver    the drivers and the callbacks; implements DeviceContract
    CommunityDriver_proofs
  BioService         the request handlers, over devices that keep to the contract
    BioService_proofs
BioStorage           the feature table
    FeatureList_proofs       the loop that builds the list
      BioStorage_proofs
DatabaseFormat       creation and upgrade of the database
    DatabaseFormat_proofs
HotPlug              readers, libfprint, the device list and those who walk it
    HotPlug_proofs
DriverConfig         the configuration file, its tool, the loading of the drivers
  DaemonLife         the processes of the daemon from start to end, and the unit
    DaemonLife_proofs
SetInduction_proofs  induction and recursion, for the proofs about loops
MC...                values for the constants
```

**BioStatus.** An `ops_result` is *type of operation* x 100 + *detail*; the handlers look at
`result % 100`, and some writes are relative to the status of the device. `Outcomes(o, e)` lists the codes a session
of operation `o` can leave if it did (`e`) or did not do what it is for. It is the contract between
drivers and service.

**DeviceContract.** The abstract device: `Begin(o)`, `End` (with one of `Outcomes`), `Reset` (a crash).
While it is busy the register promises nothing and is hidden.

**CommunityDriver.** One device. Three kinds of processes without a lock: the worker (`pc`; open,
operation, close, each with its start, its polling, its time-out, its stop and its end), the main loop (`lib`; one
action per callback), the stoppers (`stop`). A polling interval is one step of `timeused`. Verify, identify, search,
enroll, capture, and the operations on the database (clean, rename, list) are all there, as is the
crashes of a verification against a missing feature and of a search. What several threads write in several steps is
several steps: the callback of a finished enrollment writes the result (`OnEnrollCompleted`), the idle status (`EnrollIdles`)
and DONE (`EnrollDone`), and the worker adds to `timeused` by reading (`PollReads`) and writing it (`PollAdds`). A stop between the first
two writes of the callback leaves 203, "enrollment stopped", though the row is stored; a press between the two halves of the
addition is forgotten (`undone`). Of the twenty drivers only `uru4000` sets `ops_capture`: with `NullCapture` a session may be one of
theirs (`Unsupported`), which ends with 2, an error without an operation type. Both codes are in `Outcomes`. `effect`, `waited`, `lost` and `undone`
are history variables. `ImplementsContract` is the refinement, with the mapping at the end of the module.

**BioService.** One thread per request (`at`), with the mutexes, the device list, the registers and the rows. `Submit`,
`Authorize`, `Lookup`, `TryLock`, `Begin`, `Unlock`, `ReadResult` and `SystemClean` are the steps of
the handlers; `Opened`, `Store`, `Erase`, `Fetch` and `End` are those of the session, which may leave any outcome of
`Outcomes`; `Hotplug` and `Crash` are the environment. An enrollment with index -1 reads the
list at `Begin`, takes the index after the features at its head, and stores at `Store`. The SELECT may fail or end early, so any index up to the free
one can come of it; `shown` says that the list showed the index to be free. An INSERT may fail unseen. `effect`, `outcome`, `overtaken`, `before`
and `shown` are history variables. So the service is checked against the contract, not against one driver, and
CommunityDriver shows that the drivers in the tree keep to it.

**BioStorage.** The table with its autoincremented IDs, the query with its ORDER BY, the loop that builds the list entry by entry
(`Extend`, with `old_uid`, `old_uuid`, `old_index`), the free index computed from that list, SELECTs that fail or end early
(`Reads`: nothing, or the rows up to any of them, and no caller can tell), enrollments and renames of several steps, cleans with
and without a lock, and a change of the UUID of a user (accounts come and go). The UUIDs are numbers
because their order matters to the query. `shownUnder` and `readUnder` in a session are history: the UUID under which the list showed the chosen index
to be free, and the one under which a rename has read all rows of its feature (`Nothing` if there is none).

**DatabaseFormat.** `bio_init` up to the database, one action per SQL statement. `disk` is what is
committed, `work` what the connection sees. `Dies` is a failing statement or a crash; `CheckFails`,
`UuidsFail` and `CommitFails` are failures the code does not notice. Databases of the first format, of
this one and of an unknown one are initial states.

**HotPlug.** A reader on the bus (`plugged`) leads to an event in each of two queues: `usb`, which the
hotplug thread works off (`Attach`, `Detach`), and `fp`, which libfprint works off in the main loop
(`LibraryUpdate`). `device_discover` goes through libfprint's array one device at a time, reads the length again in each round and
answers 0 as soon as a device is of another kind, so with two kinds connected neither is found. In the hotplug thread these are steps
(`SearchBegins`, `SearchTests`, `SearchReads`), between which the main loop edits the array; if it takes out what the search has counted or
is looking at, the driver is in `torn`, and what is read next may be anything (`SearchReadsStale`). Before the main loop runs nobody edits the array, and `Discover` is the
whole answer. `device` is `priv->device`, copied once when the
drivers are loaded and never refreshed: when its reader goes it dangles, and a reader that comes later is listed
although its driver has no device to open. `devList` holds a node per entry; `walk` is a thread that walks it
(`get_dev_by_drvid`, `gdbus_get_dev_list`), node by node, while the hotplug thread edits it. A freed node under a walk may
end it anywhere (`WalkOff`) or end the daemon (`Crash`). `raced`, `crowd`, `torn` and the fields `kept` and `cut` of
a walk are history. BioService uses the list only as "listed now".

**DriverConfig.** The file is a sequence of sections with the keys `Enable`, `Driver` and one more. A run of the tool loads
a copy (`ToolLoad`), edits it (`Outcome`) and saves all of it (`ToolSave`), or ends without (`ToolEndsUnsaved`); two runs are not
kept apart. `IsCommand` says what arguments a command can have, an empty string for a driver or a value included. `config_init` reports a file it cannot parse, `main` of the tool does not look, and a file of which only
a part could be read is saved over with that part (`Readable`: some sections, and of the last some keys, `CutShort`). `DriverListInit` is
`bio_driver_list_init`: a plugin that cannot be used is passed over, a section without a driver
empties the whole list. `EmptyDriverId` gives the first free ID from 100 to 1023; when there is none, `bio_get_empty_driver_id` reads one
byte past its array and answers -1 or 1024, depending on what is there. A driver is enabled by the section that has the name of its *device*, which need
not be the section that names the driver.

**DaemonLife.** `main`, with one action for each call two processes can meet at: `Open` (which empties the pid file),
`Lock` or `Refused`, `WritePid`, `InitBioDevice` or `InitFails`, `InitBioDBusCommServer`, then the main loop until `NameLost`
or `BusFails`, and `CloseForEver` (a listed community device is polled for a callback of the main loop that has ended) or
`Leave`. The bus gives a name back to a process it was taken from. `Unit` is the process
systemd keeps; `Stopped` is systemd ending a unit of `Type=dbus` whose name is gone. The unit restarts at once (`RestartSec=0`), and systemd allows
`StartLimit` starts within an interval (by default five in ten seconds): `Started` counts them, or begins a new interval; `StartRefused` is the one too many, after
which the unit stays down (`GivenUp`) until `AdminStarts`. `RootLogin` and `RootLogout` create
and remove `/run/user/0`, the first choice for the pid file. It extends DriverConfig, so commands edit the file meanwhile.

## 3. Runs

| Run | Instance | Shows |
|---|---|---|
| `driver` | all operations, one stopper, timeout of 1 interval, waiting time 1, 2 presses, library errors, bad templates, with and without `ops_capture` | the driver keeps the contract (`ImplementsContract`); `AffirmedByTheLibrary`, `OneCallAtATime`, `TimesOutOnlyAfterSilence`; it gets stranded in three ways and no others (`StrandedHasCause`); `SessionEnds` otherwise; `StopAnswers` |
| `service` | 2 requests out of 7 calls, one loaded driver and one that has left a row | `HolderInSession`, `MutualExclusion`, `ResultKept`, `CleanErases`, `ChosenIndexStaysFree`, `EveryRequestAnswered` |
| `storage` | one user, two devices, indices 0..1, three row IDs, features enrolled under one name and renamed to another (`NewNames`) | `ListIsExact`, `ChosenIndexIsFree`, `RowsStayPut`, `RenameIsComplete` |
| `database_format` | 3 rows of 2 users, 3 faults | `FeaturesNeverStranded`, `ServingHasAll`, `ComesUp` |
| `hotplug` | 2 readers of one kind and 1 of another, 2 drivers, 1 walker, 4 changes | `NeverTheWrongReader`, `ListFollowsTheBus`, `WalkMissesNothing` |
| `daemon` | 2 processes, 2 commands out of 4 (add and remove a driver, set and unset a key), 3 files, 3 plugins of which one is too new, 1 driver ID, 1 start in an interval, 1 fault, 1 login or logout of root | `PidFileNeverMisleads`, `UnnamedSectionsKept`, `DriversServed`, `DriverIds`, `GivenUpForACause`, `ServesAgain` |

`ListFollowsTheBus` says exactly how far the list can be relied on when everything has been handled: while the
readers are of one kind its device is not missing, and only with one reader at a time is nothing listed twice or that is
gone. Outside of that the code does leave such entries. `UnnamedSectionsKept` says what concurrent commands cannot
spoil: that they lose each other's changes to the sections they name is plain, that they never touch
another holds only while the file can be read. `ChosenIndexIsFree` and `RenameIsComplete` speak of lists that could be read: after a SELECT that failed
or ended early, for instance because another device was storing a feature (no busy timeout is set), `bio_common_get_empty_index` may answer an occupied index, and a
rename of nothing is a success. What is read shows an index to be free if it is all there is or goes on behind that index, and this much is
relied on. `NeverTheWrongReader` excepts the drivers in `torn`: such a driver can be listed for the reader of another. `TimesOutOnlyAfterSilence`
excepts a press that fell into the addition to the clock, until the next press.
`ServesAgain` excepts a unit that systemd has given up, and `GivenUpForACause` says that this takes
a configuration that could not be read, a second daemon or as many faults as systemd allows starts. It also excepts a process whose main loop has ended and which
owns the name (it was taken back from a second daemon that has gone): systemd sees a running service.

Each passing run also checks the type invariant of its module. Each property has a mutant, an operator next to the definition it replaces, that
changes the model as a plausible bug would and makes TLC find that property violated.

Runs that show a promise the code does not keep:

| Run | Property | What happens |
|---|---|---|
| `driver_stop_wedges` | `StopEndsTheOperation` | A stop request overwrites the DONE of a callback before the worker has seen it (`community_ops.c:797`). The operation never ends. |
| `driver_stale_timer` | `GivesUpOnlyAfterTimeout` | `timeused` is reset only when an operation starts (`community_ops.c:203`). After a time-out the close, and then the opens that follow, are given up at once. |
| `service_stale_result` | `VerifiedMeansMatched` | The handler reads the register after it has released the mutex (`biometric-authenticationd.c:609`): a verification that failed is answered with the success of the next. |
| `service_enroll_failed` | `EnrolledMeansStored` | After a libfprint error the register still holds "opened" = 100 (`close.c:167`), and 100 % 100 is success. |
| `storage_list_merges` | `ListSeparatesUsers` | In the list of all users a skipped row makes the loop miss the change to the next user (`biometric_storage.c:425`): samples of two users share an entry. |
| `daemon_twice` | `OneDaemon` | Root logs in between two starts. The pid files, and with them the locks, lie in `/run/user/0` and in `/tmp` (`biometric-authenticationd.c:1618`): both daemons run. |

The driver contract says of each outcome what the code can leave, the unexpected ones included; the two findings
about the service rest on it.

### Bounds

- *Presses, timeouts, waiting times.* One interval before a limit, at it and past it are three
  different cases and all occur with the limits 1 and 2. The clock is otherwise not looked at.
  With one stopper every pair of worker or callback and stopper steps occurs; two stoppers only write the
  same values as one that comes back.
- *Requests.* Every property of the service is about one request, or about one and another that
  interferes; a third thread repeats what the second does. A clean of all drivers meets a driver it can hold or be refused,
  and one that is not loaded, whose row only its last step erases; the proof covers any number of drivers. The theorems of
  section 5 hold for any number.
- *Indices and rows.* Two indices make a gap, an occupied and a free one; with three rows a feature has two
  samples and lies next to another. `MaxId` is a bound on the autoincremented IDs, not on the table;
  IDs are never used again, which is what `RowsStayPut` rests on.
- *Users.* `storage` has one user because the code fails with two in the list of all users, which
  `storage_list_merges` shows. Devices are symmetric; nothing in the module or its properties
  tells them apart, and no liveness is checked in that run.
- *Faults.* One interrupts the creation or upgrade, a second the next attempt, a third what it left;
  more repeat these. systemd gives up after five starts within ten seconds (its default), and no
  behaviour of `DatabaseFormat` needs more starts than that to come up; `DaemonLife` counts the starts.
- *Readers.* Two of a kind and one of another make all three crowds. `MaxChanges` counts how often a reader comes or goes; four
  on top of what is there at the start let one reader go, come and go again beside another, and
  let the two queues lie apart by more than one event. There is one walker, which is the main loop or a search in turn:
  walkers change nothing, so they do not see each other.
- *Processes, commands, files.* Every property of the daemon is about one process or two that meet. Two commands race in
  every order; a third would race with what one of them leaves. One plugin is too new, one section may be
  without a driver, a file may be broken or absent. One fault and one move of root are enough to separate two starts; the proof about the pid
  file has no bound. With one start allowed the second one in an interval is refused, which is what the limit of five does
  to the sixth. With one ID to give the second driver is the one too many, as the 925th is in the code.

`CHECK_DEADLOCK FALSE` is set where the system may stop: a stranded driver with
its stopper gone, a daemon that serves with all rows enrolled and no fault left, and in `daemon` two processes
that wait for ever for their devices to close. In `service`, `storage` and `hotplug` deadlock is checked.

## 4. Fairness

- *CommunityDriver.* The worker and the stoppers are threads and are scheduled. libfprint answers
  opening and closing, and ends an operation it was told to cancel; a callback that has begun runs to its end. systemd restarts the daemon.
  Nobody owes a finger on the sensor: the callbacks of an operation have no fairness before it is
  cancelled, and the liveness rests on the timeout. `SessionEnds` excepts searches while stop requests go
  on for ever, because each of them can overwrite the flag that ends the search.
- *BioService.* The threads are scheduled while they are in the handler. There is no fairness for polkit, for a
  session on a device (it may be stranded) or for hotplug. `EveryRequestAnswered` therefore says that no request
  waits for *another*: it is answered or is the one in session.
- *DatabaseFormat.* The daemon goes on, and systemd starts it again. Faults are never owed.
- *DaemonLife.* systemd starts the unit whenever it has ended or refuses to (`StartRefused`), its process goes on in `main`, and systemd stops it when the name
  is gone. Nobody else owes anything: not the second process, not the commands, not root, and no administrator who has a unit started that was given up. `ServesAgain`
  assumes of its own that from some time on the file can be read and nobody starts a daemon by hand.
- *BioStorage, HotPlug.* Safety only.

## 5. Proofs

The proof modules are checked by TLAPS without a gap. Every invariant and every action property of the passing runs, and the
refinement, is a theorem. They assume the `ASSUME` of their module and nothing else:
`DriverAssumption` (the operations are among those there are, the limits are natural numbers), `ServiceAssumption` (the calls are well-formed requests, the driver list is a sequence of
drivers, the bound is a natural number, the two marker values are no request and no driver),
`FormatAssumption` (each row has an owner, the markers are no users), `StorageAssumption` (numbers, and UUIDs that are nobody else's), `HotPlugAssumption` (finitely many
readers and drivers, markers that are neither), `DaemonAssumption` (the unit is a process, the markers are no process and no
directory, the bounds are natural numbers) and `ConfigAssumption` (the commands have arguments the tool accepts, the first files
are files, each plugin has a version).

| Theorem | For every set of requests, calls, drivers, users and every bound |
|---|---|
| `BioService_proofs!TypeCorrect` | types; every register holds a code of the framework, every answer is a RetCode |
| `HolderCorrect`, `MutuallyExclusive` | the owner of a mutex is the thread in session, so sessions exclude each other |
| `OwnResultRead` | a thread nobody overtook reads its own result |
| `ChosenIndexFree` | an index the service chose from a list that showed it free stays free until the feature is stored |
| `CleanMeansErased` | a clean answered with success has erased what it was asked to |
| `CommunityDriver_proofs!TypeCorrect` | types of one device and all who work on it |
| `CallsPaired` | `OneCallAtATime`, for any number of stoppers and any limits |
| `StrandedForAReason` | `StrandedHasCause`: three causes and no other |
| `AffirmedRight` | `AffirmedByTheLibrary` |
| `SilenceBeforeTimeout` | `TimesOutOnlyAfterSilence` |
| `DriverImplementsContract` | the refinement: every behaviour of the driver, with or without `ops_capture`, is one of DeviceContract |
| `BioStorage_proofs!ListsExact` | `ListIsExact`: the list a query gives of one user is exact for what was read, for any number of users, devices, indices and rows |
| `BioStorage_proofs!TypeCorrect` | types |
| `ChosenFree`, `RenameComplete`, `RowsStay` | `ChosenIndexIsFree`, `RenameIsComplete`, `RowsStayPut`, for the same |
| `DatabaseFormat_proofs!TypeCorrect` | types |
| `NeverStranded`, `NothingLost` | `FeaturesNeverStranded`, `ServingHasAll`, for any number of rows, users and faults |
| `HotPlug_proofs!TypeCorrect` | types; only enabled drivers are listed |
| `RightReader` | `NeverTheWrongReader`, for any number of readers, drivers, walkers and changes |
| `NothingMissed` | `WalkMissesNothing`, for the same |
| `ListRight` | `ListFollowsTheBus`, for the same, however far the two queues lie apart |
| `DaemonLife_proofs!PidFileRight` | `PidFileNeverMisleads`, for any number of processes, faults and sessions of root |
| `DaemonLife_proofs!TypeCorrect` | types: the file stays a sequence of distinct sections |
| `IdsGiven` | `DriverIds`: no ID is given twice while there is one left, and then none but -1, for any number of drivers and IDs |
| `NotGivenUpIdly` | `GivenUpForACause`: systemd gives the unit up only after an unreadable configuration, a second daemon or as many faults as it allows starts, whatever that number |
| `UnnamedKept` | `UnnamedSectionsKept`, for any number of commands, sections and plugins |
| `DriversAreServed` | `DriversServed`, for the same |

The arguments:

- `TypeOK` of the service is not inductive: a clean of all drivers works on `DrvList[pos]`, which exists only
  because the loop tests the position, and a session stores at an index, never at "choose one". `Typed`
  adds both (`DeviceKnown`, `IndexKnown`). The outcomes are codes by
  a lemma about `Outcomes`.
- `HolderInSession` is inductive relative to `Typed`: `TryLock` and `Unlock` move both sides of the
  equivalence together and `Crash` empties both. `MutualExclusion` follows because a mutex has one owner.
- `ResultKept` is inductive relative to the two: every write to a register marks those that could
  read it by mistake as overtaken.
- `ChosenIndexStaysFree` needs `NotYetShown`: before its session an enrollment has chosen nothing. After that another
  enrollment on the device would need the mutex, and a clean only frees indices. That there is a free index
  is a well-founded minimum (`EmptyIndexFree`).
- `ServingHasAll` says nothing of the states in between. `Safe` adds where the features are
  after each statement: on disk with a UUID or in the first format (`DiskKept`), in the backup after the rename and again in the
  table after the migration (`WorkKept`); that all of an upgrade is in one transaction (`TxKnown`); that a
  database with a format or a feature has its tables (`Schema`); that a new one has no features
  (`NothingYet`).
- `CleanErases` needs to know what a clean in progress has already erased: `CleanKept` follows the rows of
  `before` from the session to the answer, and that other requests remove from `before` what they store.
- `NeverTheWrongReader` needs `DeviceHeld`: a device that does not dangle is in libfprint's array. Whoever discovers
  something has the kind of *every* device in the array, so of that one too. In the middle of a search `SearchFits` says this of the devices
  counted so far, unless libfprint has taken one of them or the one the search looks at: then its driver is in `torn`. The rest is
  lemmas about removing an element from a sequence.
- `WalkMissesNothing` says nothing of a walk that goes on. `StillAhead` adds that whatever it has not seen of what was there all the
  time is at its node or behind it. An edit keeps that because nodes are numbered in the order of the list (`InOrder`), new
  ones are put at the end, and a detach takes out the *first* node of a driver: if one of that driver is
  left, it lies behind (`OneLessAhead`).
- In CommunityDriver, `OneCallAtATime` is inductive given the types, and `StrandedHasCause` is given the two: a worker at a wait
  whose call is pending is not stranded, so only the end of the call or a stop request can strand it.
  `AffirmedByTheLibrary` needs `Session`, what the register may hold at each point of the worker and how that
  goes with `effect`. `TimesOutOnlyAfterSilence` needs `ClockIsHonest`: while an
  operation runs, `timeused`, and what the worker has read of it to add to, are at most the silence they measure, unless a press has been undone. This is not
  so at the open and the close.
- For the refinement, the opens (and the rename, which opens nothing) are `Begin`, the ends of the close (and of the rename) are
  `End`, the restart is `Reset`, and every other step stutters, because it leaves the worker between the
  two and the register is hidden there. That what `End` shows is one of `Outcomes` is `Session` again.
- The loop of `bio_sto_get_feature_info` is a fold over the selected rows (`FeatureList`), and the theorems of the library about
  induction and recursion take an operator, which no prover here can instantiate. `SetInduction_proofs` states them with sets
  and functions instead: a set of numbers that has 0 and is closed under +1 has them all, a set of subsets that is closed under adding an
  element has them all, and a function that calls itself on smaller subsets exists. With these the fold is unrolled: the selected rows
  are finitely many and have a last one in the order of the query (`LastExists`), and the list is what the loop leaves after each
  set of rows (`ScanExists`). `Scanned` is its loop invariant: the entries so far are in the order of their indices, one for each
  index in use, each with the IDs of the rows seen so far that have this index, and `old_uuid` and `old_index` are
  those of the last row that was not skipped.
  `ScanRound` keeps it, both when a row opens an entry (`EntryAppended`) and when it joins one (`SampleAppended`). For
  one user it gives `ListExact`; with two it is false, as `storage_list_merges` shows.
- `Sound` says what the operations of the storage make of a list they have read earlier. It needs the types and `ListExact`, which needs the types and
  `Keys`, so `TypeOK` and `Sound` are proved in one induction. Its four parts: IDs are unique and never above `lastId` (`Keys`); an ID that a rename has read names a row of its feature or none
  any more (`Targets`); a rename that read all its rows and has not failed has written them or has still to (`StillToRename`); and
  no row lies at an index the list showed free under the UUID *it was chosen under* (`NoRowThere`). The last is needed because
  `ChosenIndexIsFree` speaks of the present UUID, and a user may get a former one back.
- `ListFollowsTheBus` speaks only of states in which everything is handled. `Follows` adds how the two queues, libfprint's
  array and the list go together in between. `Heard` is about libfprint: there is a sequence of buses, one after each event
  that waits, which leads from its array to `plugged`, and none of them is a larger crowd than `crowd` admits. `Together`
  is about the two queues: unless an event was handled out of turn (`raced`), the hotplug thread has handled the events libfprint
  has (`InStep`), or all but one (`OneBehind`), and then the list shows what the array shows, but for the reader of that event;
  or it is further behind (`FarBehind`), and will be out of turn with the next. Before libfprint has looked at the bus it hears nothing (`Before`). `SearchRight` is about a search that goes on: unless raced, the array it goes
  through is the bus after the event, and does not change before the end. TLC checked
  `Follows` before it was proved.
- `PidFileNeverMisleads` needs `OneLock`, that a lock has one holder: then nobody else is between its lock and its write.
- `UnnamedSectionsKept` needs to know of the copies the tools hold: a section nobody has named is in every copy as it is in the file
  (`CopiesAgree`), for a save replaces the file by a copy that may be old. `remove-driver` is a fold over the sections; what
  it keeps, and in which order, is proved along a function of the length (`KeptInSteps`, `KeptRight`).
- `DriversServed` needs `AllKeyed`, that no section of the file or of a copy is without a driver unless a command asked for one:
  commands edit one section at a time, so no mixture of two loses a key that neither takes. Then `DriverListInit` is its
  loop, which lists every plugin that loads (`LoadedInSteps`, `DriverListRight`) with an ID as `EmptyIdFound` has it: one of those to give and not given before while there is one, and then -1, or the ID behind the last if nobody
  has it. `DriverIds` is that of each driver in the list. `DriversLoaded` carries this from the load to the main loop,
  across the commands that edit the file meanwhile.
- `GivenUpForACause` needs `Accounted`: as long as the configuration could be read and nobody has started another daemon, the unit is
  alone (`Alone`: the name on the bus is nobody's or its own, and it shares no memory), so nothing but a fault ends it, and systemd has
  counted at most one start more than there were faults, that on which the unit lives (`Paid`).

Only model-checked: the liveness properties `EveryRequestAnswered`, `SessionEnds`, `StopAnswers`, `ComesUp` and
`ServesAgain`, since liveness under fairness is beyond the prover.

## 6. Not modelled

- `notify_mid`, `extra_info` and the status signals: text for the user that nothing reads back.
- The queries that change nothing (GetDrvList, GetDevList, GetDevMesg, GetNotifyMesg, GetOpsMesg, UpdateStatus,
  CheckAppApiVersion). What they read without a lock is in the models.
- The branches of `bio_ops_*` for a disabled device, which never enters `bio_dev_list` (`biometric_common.c:472`, `:1776`), where the
  handlers look; and those for a missing driver function other than `ops_capture`, which all drivers but one leave NULL, and
  `ops_feature_rename`, which all leave NULL: both of these are modelled, and no driver in the tree leaves another one NULL.
- The second answer of a search that found nothing or failed (`biometric-authenticationd.c:930`, `:955`): the first is the one the client
  gets, and what GLib does with the second, on an invocation that is over, is left out.
- `dev_num` as a field: it is the answer of the last discovery, used in the same step and otherwise only reported to clients.
- A failing BEGIN in the upgrade: it takes no lock and fails only without memory.
- `bio_common_get_empty_index` from an index above 0 or with an end: no caller in the tree uses it so.
- A pid that cannot be written: the daemon only warns of it. Serial paths: no driver in the tree uses one.
- `community_ops_discover` compares an environment variable that may not be set (`community_ops.c:60`); a daemon that ends there
  is a crash like any other.
- AES-128-CFB and base64 are pure functions on which no control depends; a
  template that cannot be decoded is an input of CommunityDriver. The discovery tool keeps no state. The
  authentication client is a Python program that calls the service and shows what it answers.
- Whether the status of a device is idle after a session that failed (`community_ops.c:251`): nothing
  promises it, and the next session sets it.

## 7. Plan

Done: BioStatus, DeviceContract, CommunityDriver, BioService, BioStorage, DatabaseFormat, HotPlug, DriverConfig and
DaemonLife; the proofs of section 5.

What could come next:

1. BioService over the list of HotPlug in place of its own, so that a device that is listed twice or is gone is looked up. The
   properties of BioService take any list, so the composition would show nothing they do not say.
2. An abstract feature store (a set of features of each user, changed by store, erase and rename) that BioStorage implements
   and BioService uses, with the refinement proved from `ListExact` and `Sound`.
3. The safety parts of the liveness properties: for each, what keeps the steps it waits for possible, which
   the proofs about `SessionEnds` and `ServesAgain` would start from.
