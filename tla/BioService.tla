----------------------------- MODULE BioService -----------------------------
(***************************************************************************)
(* The D-Bus service of src/src/biometric-authenticationd.c.  Every request *)
(* is handled by a thread of its own (gdbus_<request>_pt): it asks polkit,  *)
(* looks the device up in the device list, tries the mutex of the driver,   *)
(* runs one bio_ops_<operation> on the device, releases the mutex, and only *)
(* then reads the result register of the device to build its answer.        *)
(*                                                                         *)
(* A session on a device is what DeviceContract promises: it ends with one  *)
(* of Outcomes, and until then anything may be read from the register.      *)
(* CommunityDriver shows that the drivers keep to it.  The database is the  *)
(* set of stored rows; names and templates are left out.                    *)
(***************************************************************************)
EXTENDS BioStatus, Sequences, FiniteSets

CONSTANTS
  Reqs,     \* the request threads
  Calls,    \* what they may be asked for
  Drivers,  \* the drivers that rows of the database name
  DrvList,  \* bio_drv_list: the drivers that are loaded, in order
  Uids,     \* the users features belong to
  MaxIdx,   \* bound: the largest index a feature is stored at
  All,      \* the driver of a request to clean all drivers (drvid -1)
  NoReq     \* the owner of a free mutex

Loaded == { DrvList[i] : i \in DOMAIN DrvList }

(* RetCode; a reply carries its negation. *)
RetOpsSuccess    == 0
RetOpsNoMatch    == 1
RetOpsError      == 2
RetDeviceBusy    == 3
RetNoSuchDevice  == 4
RetPermissionDenied == 5

AnyIdx == -1           \* enroll: the service chooses the index
Indices == 0 .. MaxIdx
Slots == {AnyIdx} \cup 0 .. MaxIdx + 1
Rows == [drv : Drivers, uid : Uids, idx : Indices]

(* A request names an operation, a driver, a user and an index; clean erases
   the indices from idx upwards. *)
Requests ==
  { c \in [kind : AllOps, drv : Drivers \cup {All}, uid : Uids, idx : Indices \cup {AnyIdx}] :
      /\ c.drv = All => c.kind = "Clean"
      /\ c.idx = AnyIdx => c.kind = "Enroll" }

ASSUME ServiceAssumption ==
  /\ Calls \subseteq Requests /\ Calls # {}
  /\ DrvList \in Seq(Drivers)
  /\ MaxIdx \in Nat
  /\ All \notin Drivers
  /\ NoReq \notin Reqs

(* The call of a thread that does not exist yet. *)
NoCall == CHOOSE c \in Calls : TRUE

Codes == { Code(t, d) : t \in DOMAIN OpsType, d \in 0 .. 4 }

VARIABLES
  at,        \* where the thread of a request is
  call,      \* what the request asks for
  pos,       \* clean all: the position in DrvList
  slot,      \* the index the operation works on
  ret,       \* the answer, or what clean all has accumulated of it
  mutex,     \* dev_dbus_mutex: the owner of each
  devList,   \* bio_dev_list: the drivers whose device is connected
  result,    \* bio_dev.ops_result of each device
  rows,      \* the feature_info table
  effect,    \* history: this session did what it is for
  outcome,   \* history: the result this session ended with
  overtaken, \* history: the register was written after this session ended
  before,    \* history: rows this clean must erase: there when it began and
             \* not stored again since
  shown      \* history: the service chose the index, and the list that it read
             \* showed it to be free

request == <<call, pos, slot, ret>>
history == <<effect, outcome, overtaken, before, shown>>
vars == <<at, call, pos, slot, ret, mutex, devList, result, rows,
          effect, outcome, overtaken, before, shown>>

Places == {"new", "auth", "lookup", "trylock", "locked", "running",
           "matching", "ended", "unlocked", "done"}
Sections == {"locked", "running", "matching", "ended"}   \* the thread owns a mutex

Kind(r) == call[r].kind
CleansAll(r) == call[r].drv = All
Dev(r) == IF CleansAll(r) THEN DrvList[pos[r]] ELSE call[r].drv

TypeOK ==
  /\ at \in [Reqs -> Places]
  /\ call \in [Reqs -> Calls]
  /\ pos \in [Reqs -> 1 .. Len(DrvList) + 1]
  /\ slot \in [Reqs -> Slots]
  /\ ret \in [Reqs -> 0 .. 5]
  /\ mutex \in [Drivers -> Reqs \cup {NoReq}]
  /\ devList \subseteq Loaded
  /\ result \in [Drivers -> Codes]
  /\ rows \subseteq Rows
  /\ effect \in [Reqs -> BOOLEAN]
  /\ outcome \in [Reqs -> Codes]
  /\ overtaken \in [Reqs -> BOOLEAN]
  /\ before \in [Reqs -> SUBSET Rows]
  /\ shown \in [Reqs -> BOOLEAN]

Each(x) == [r \in Reqs |-> x]

(* A start of the daemon finds no request, every mutex free, the registers as
   the drivers initialise them, and some of the devices connected.  The
   database is whatever earlier runs have left. *)
Init ==
  /\ at = Each("new")
  /\ call = Each(NoCall) /\ pos = Each(1) /\ slot = Each(AnyIdx) /\ ret = Each(0)
  /\ mutex = [d \in Drivers |-> NoReq]
  /\ devList \in SUBSET Loaded
  /\ result = [d \in Drivers |-> DevIdle]
  /\ rows \in SUBSET Rows
  /\ effect = Each(FALSE) /\ outcome = Each(DevIdle)
  /\ overtaken = Each(FALSE) /\ before = Each({}) /\ shown = Each(FALSE)

-----------------------------------------------------------------------------
(* Helpers.                                                                 *)

Goes(r, from, to) == at[r] = from /\ at' = [at EXCEPT ![r] = to]

(* The answer of a handler, or of one driver to a request to clean all: the
   loop keeps the first that is not success and goes on. *)
Answer(r, from, code) ==
  IF CleansAll(r)
  THEN /\ Goes(r, from, "lookup")
       /\ pos' = [pos EXCEPT ![r] = @ + 1]
       /\ ret' = [ret EXCEPT ![r] = IF @ = 0 THEN code ELSE @]
  ELSE /\ Goes(r, from, "done")
       /\ ret' = [ret EXCEPT ![r] = code]
       /\ UNCHANGED pos

(* The answer of a handler that does not get the device.  A feature list is
   answered with its length, and then with the length 0. *)
Refused(r, from, code) ==
  Answer(r, from, IF Kind(r) = "GetFlist" THEN RetOpsSuccess ELSE code)

(* Mutant: the register itself is the answer when it is not success. *)
ReplyRegister(kind, code) ==
  IF Detail(code) = Success THEN RetOpsSuccess ELSE code

(* What the handler of a kind makes of the register: Enroll, Capture and
   Clean look at the last two digits alone.  Search goes on after the answer that
   nothing was found or that it failed, and answers a second time; the first
   answer is the one that counts. *)
Reply(kind, code) ==
  CASE kind \in {"Enroll", "Capture", "Clean"} ->
         IF Detail(code) = Success THEN RetOpsSuccess ELSE RetOpsError
    [] kind \in {"Verify", "Identify"} ->
         CASE code = Code(kind, Success) -> RetOpsSuccess
           [] code = Code(kind, Fail)    -> RetOpsNoMatch
           [] OTHER                      -> RetOpsError
    [] kind = "Search" ->
         IF code \in {Code(kind, Success), Code(kind, Fail)} THEN RetOpsSuccess
         ELSE RetOpsError
    [] OTHER -> IF code = Code(kind, Success) THEN RetOpsSuccess ELSE RetOpsError

(* A session writes the register; threads that have released the mutex of
   that device and not read it yet are overtaken. *)
WriteResult(d, code) ==
  /\ result' = [result EXCEPT ![d] = code]
  /\ overtaken' = [r \in Reqs |-> overtaken[r] \/ (at[r] = "unlocked" /\ Dev(r) = d)]

Row(r) == [drv |-> Dev(r), uid |-> call[r].uid, idx |-> slot[r]]

(* The rows a clean request covers, of one driver or of all. *)
Covered(c) ==
  { w \in Rows : w.uid = c.uid /\ w.idx >= c.idx /\ c.drv \in {All, w.drv} }

(* bio_common_get_empty_index from 0 without an upper end: of the whole list, the
   smallest index that no row of the user has for that driver. *)
Taken(d, u) == { w.idx : w \in { v \in rows : v.drv = d /\ v.uid = u } }

EmptyIndex(d, u) ==
  CHOOSE i \in 0 .. MaxIdx + 1 : i \notin Taken(d, u) /\ 0 .. i - 1 \subseteq Taken(d, u)

-----------------------------------------------------------------------------
(* The threads.                                                             *)

(* Mutant: the free index is looked for when the request arrives. *)
SubmitChooses(r, c) ==
  /\ Goes(r, "new", IF c.kind \in {"Enroll", "Clean", "Rename"} THEN "auth" ELSE "lookup")
  /\ call' = [call EXCEPT ![r] = c]
  /\ slot' = [slot EXCEPT ![r] = IF c.idx = AnyIdx THEN EmptyIndex(c.drv, c.uid) ELSE c.idx]
  /\ before' = [before EXCEPT ![r] = IF c.kind = "Clean" THEN rows \cap Covered(c) ELSE {}]
  /\ shown' = [shown EXCEPT ![r] = c.idx = AnyIdx]
  /\ UNCHANGED <<pos, ret, mutex, devList, result, rows, effect, outcome, overtaken>>

(* A request arrives and gets a thread.  Enroll, Clean and Rename ask polkit. *)
Submit(r, c) ==
  /\ Goes(r, "new", IF c.kind \in {"Enroll", "Clean", "Rename"} THEN "auth" ELSE "lookup")
  /\ call' = [call EXCEPT ![r] = c]
  /\ slot' = [slot EXCEPT ![r] = c.idx]
  /\ before' = [before EXCEPT ![r] = IF c.kind = "Clean" THEN rows \cap Covered(c) ELSE {}]
  /\ UNCHANGED <<pos, ret, mutex, devList, result, rows, effect, outcome, overtaken, shown>>

(* polkit answers.  A refusal is the whole answer, also to clean all. *)
Authorize(r) ==
  /\ \/ Goes(r, "auth", "lookup") /\ UNCHANGED ret
     \/ Goes(r, "auth", "done") /\ ret' = [ret EXCEPT ![r] = RetPermissionDenied]
  /\ UNCHANGED <<call, pos, slot, mutex, devList, result, rows, history>>

MoreDrivers(r) == CleansAll(r) => pos[r] <= Len(DrvList)

(* get_dev_by_drvid. *)
Lookup(r) ==
  /\ at[r] = "lookup" /\ MoreDrivers(r)
  /\ IF Dev(r) \in devList
     THEN Goes(r, "lookup", "trylock") /\ UNCHANGED <<pos, ret>>
     ELSE Refused(r, "lookup", RetNoSuchDevice)
  /\ UNCHANGED <<call, slot, mutex, devList, result, rows, history>>

(* Mutant: pthread_mutex_lock. *)
TryLockWaits(r) ==
  /\ Goes(r, "trylock", "locked")
  /\ mutex[Dev(r)] = NoReq
  /\ mutex' = [mutex EXCEPT ![Dev(r)] = r]
  /\ effect' = [effect EXCEPT ![r] = FALSE]
  /\ overtaken' = [overtaken EXCEPT ![r] = FALSE]
  /\ UNCHANGED <<call, pos, slot, ret, devList, result, rows, outcome, before, shown>>

(* Mutant: the result of the trylock is not looked at. *)
TryLockUnchecked(r) ==
  /\ Goes(r, "trylock", "locked")
  /\ mutex' = [mutex EXCEPT ![Dev(r)] = IF @ = NoReq THEN r ELSE @]
  /\ effect' = [effect EXCEPT ![r] = FALSE]
  /\ overtaken' = [overtaken EXCEPT ![r] = FALSE]
  /\ UNCHANGED <<call, pos, slot, ret, devList, result, rows, outcome, before, shown>>

(* Mutant: one exit for all, which unlocks. *)
TryLockOneExit(r) ==
  /\ at[r] = "trylock"
  /\ IF mutex[Dev(r)] = NoReq
     THEN /\ Goes(r, "trylock", "locked")
          /\ mutex' = [mutex EXCEPT ![Dev(r)] = r]
          /\ UNCHANGED <<pos, ret>>
     ELSE /\ Refused(r, "trylock", RetDeviceBusy)
          /\ mutex' = [mutex EXCEPT ![Dev(r)] = NoReq]
  /\ UNCHANGED <<call, slot, devList, result, rows, history>>

(* pthread_mutex_trylock: a busy device is an answer, never a wait. *)
TryLock(r) ==
  /\ at[r] = "trylock"
  /\ IF mutex[Dev(r)] = NoReq
     THEN /\ Goes(r, "trylock", "locked")
          /\ mutex' = [mutex EXCEPT ![Dev(r)] = r]
          /\ effect' = [effect EXCEPT ![r] = FALSE]
          /\ overtaken' = [overtaken EXCEPT ![r] = FALSE]
          /\ UNCHANGED <<pos, ret>>
     ELSE /\ Refused(r, "trylock", RetDeviceBusy)
          /\ UNCHANGED <<mutex, effect, overtaken>>
  /\ UNCHANGED <<call, slot, devList, result, rows, outcome, before, shown>>

(* The session begins; Enroll may have to find an index first.  The SELECT may
   fail, at once or after some rows: the list ends there without a word, and the
   index after it is chosen, which is below the smallest that is free. *)
Begin(r) ==
  /\ Goes(r, "locked", "running")
  /\ LET empty == EmptyIndex(Dev(r), call[r].uid)
     IN \/ /\ slot[r] # AnyIdx
           /\ UNCHANGED <<slot, shown>>
        \/ /\ slot[r] = AnyIdx
           /\ \E i \in 0 .. empty : /\ slot' = [slot EXCEPT ![r] = i]
                                   /\ shown' = [shown EXCEPT ![r] = i = empty]
  /\ UNCHANGED <<call, pos, ret, mutex, devList, result, rows, effect, outcome, overtaken, before>>

(* Mutant: the callback of an open that was given up comes late. *)
OpenedLate(r) ==
  /\ at[r] \in {"running", "ended"} /\ Kind(r) # "Rename"
  /\ WriteResult(Dev(r), Code("Open", Success))
  /\ UNCHANGED <<at, request, mutex, devList, rows, effect, outcome, before, shown>>

(* ops_open has succeeded and says so in the register.  Whatever else the
   session writes is one of its outcomes: End has a thread read it. *)
Opened(r) ==
  /\ at[r] = "running" /\ Kind(r) # "Rename"
  /\ WriteResult(Dev(r), Code("Open", Success))
  /\ UNCHANGED <<at, request, mutex, devList, rows, effect, outcome, before, shown>>

(* The libfprint callback stores the new template.  It does not look at the
   answer of the database: for the session the feature is enrolled. *)
Store(r) ==
  /\ at[r] = "running" /\ Kind(r) = "Enroll" /\ ~ effect[r]
  /\ slot[r] <= MaxIdx   \* bound
  /\ \/ rows' = rows \cup {Row(r)} /\ before' = [q \in Reqs |-> before[q] \ {Row(r)}]
     \/ UNCHANGED <<rows, before>>
  /\ effect' = [effect EXCEPT ![r] = TRUE]
  /\ UNCHANGED <<at, request, mutex, devList, result, outcome, overtaken, shown>>

(* The rows of the driver are erased. *)
Erase(r) ==
  /\ at[r] = "running" /\ Kind(r) = "Clean" /\ ~ effect[r]
  /\ rows' = rows \ Covered([call[r] EXCEPT !.drv = Dev(r)])
  /\ effect' = [effect EXCEPT ![r] = TRUE]
  /\ UNCHANGED <<at, request, mutex, devList, result, outcome, overtaken, before, shown>>

(* Verify reads the row it is to match. *)
Fetch(r) ==
  /\ Kind(r) = "Verify" /\ Row(r) \in rows
  /\ Goes(r, "running", "matching")
  /\ UNCHANGED <<request, mutex, devList, result, rows, history>>

(* The session ends with an outcome that fits what it did.  A verification that
   has not read its row was not opened; the close after that may give up. *)
End(r) ==
  /\ at[r] \in {"running", "matching"}
  /\ at' = [at EXCEPT ![r] = "ended"]
  /\ \E e \in BOOLEAN :
       /\ Kind(r) \in {"Enroll", "Clean"} => e = effect[r]
       /\ effect' = [effect EXCEPT ![r] = e]
       /\ \E code \in Outcomes(Kind(r), e) :
            /\ Kind(r) = "Verify" /\ at[r] = "running"
                 => code \in { Code("Open", Fail), Code("Close", Fail) }
            /\ WriteResult(Dev(r), code)
            /\ outcome' = [outcome EXCEPT ![r] = code]
  /\ UNCHANGED <<request, mutex, devList, rows, before, shown>>

(* pthread_mutex_unlock comes before bio_get_ops_result. *)
Unlock(r) ==
  /\ Goes(r, "ended", "unlocked")
  /\ mutex' = [mutex EXCEPT ![Dev(r)] = NoReq]
  /\ UNCHANGED <<request, devList, result, rows, history>>

ReadResult(r) ==
  /\ at[r] = "unlocked"
  /\ Answer(r, "unlocked", Reply(Kind(r), result[Dev(r)]))
  /\ UNCHANGED <<call, slot, mutex, devList, result, rows, history>>

(* Mutant: the result of the system level clean is only logged. *)
SystemCleanUnchecked(r) ==
  /\ CleansAll(r) /\ ~ MoreDrivers(r)
  /\ Goes(r, "lookup", "done")
  /\ rows' \in { rows \ Covered(call[r]), rows }
  /\ ret' = [ret EXCEPT ![r] = IF @ = 0 THEN RetOpsSuccess ELSE RetOpsError]
  /\ UNCHANGED <<call, pos, slot, mutex, devList, result, history>>

(* Clean all ends with a clean of the table itself, for the rows of drivers
   that are not there any more.  It takes no mutex, and it may fail. *)
SystemClean(r) ==
  /\ CleansAll(r) /\ ~ MoreDrivers(r)
  /\ Goes(r, "lookup", "done")
  /\ \/ /\ rows' = rows \ Covered(call[r])
        /\ ret' = [ret EXCEPT ![r] = IF @ = 0 THEN RetOpsSuccess ELSE RetOpsError]
     \/ /\ ret' = [ret EXCEPT ![r] = RetOpsError]
        /\ UNCHANGED rows
  /\ UNCHANGED <<call, pos, slot, mutex, devList, result, history>>

Thread(r) == Lookup(r) \/ TryLock(r) \/ Begin(r) \/ Unlock(r) \/ ReadResult(r)
             \/ SystemClean(r)
Device(r) == Opened(r) \/ Store(r) \/ Erase(r) \/ Fetch(r) \/ End(r)

-----------------------------------------------------------------------------
(* The environment.                                                         *)

(* The hotplug thread. *)
Hotplug ==
  /\ \E d \in Loaded : devList' = IF d \in devList THEN devList \ {d} ELSE devList \cup {d}
  /\ UNCHANGED <<at, request, mutex, result, rows, history>>

(* Verifying against a row that does not exist, or that the SELECT fails to read,
   dereferences a NULL pointer: every thread is gone, and systemd starts the
   daemon again. *)
Crash(r) ==
  /\ at[r] = "running" /\ Kind(r) = "Verify"
  /\ at' = Each("new")
  /\ call' = Each(NoCall) /\ pos' = Each(1) /\ slot' = Each(AnyIdx) /\ ret' = Each(0)
  /\ mutex' = [d \in Drivers |-> NoReq]
  /\ devList' \in SUBSET Loaded
  /\ result' = [d \in Drivers |-> DevIdle]
  /\ effect' = Each(FALSE) /\ outcome' = Each(DevIdle)
  /\ overtaken' = Each(FALSE) /\ before' = Each({}) /\ shown' = Each(FALSE)
  /\ UNCHANGED rows

Next ==
  \/ \E r \in Reqs : \/ \E c \in Calls : Submit(r, c)
                     \/ Authorize(r) \/ Thread(r) \/ Device(r) \/ Crash(r)
  \/ Hotplug

(* Threads are scheduled.  Neither polkit, which may ask a person, nor the
   session on the device, which may be stranded, owes an answer. *)
Fairness == \A r \in Reqs : WF_vars(Thread(r))

Spec == Init /\ [][Next]_vars /\ Fairness

-----------------------------------------------------------------------------
(* Properties.                                                              *)

(* A mutex is owned by exactly the thread that is between its trylock and its
   unlock on that device: none is leaked on an early return, none released by
   another thread, and a clean of all drivers owns one at a time. *)
HolderInSession ==
  \A r \in Reqs, d \in Drivers :
    mutex[d] = r <=> at[r] \in Sections /\ Dev(r) = d

(* No two operations run on the same device at the same time. *)
MutualExclusion ==
  \A q, r \in Reqs :
    q # r /\ at[q] \in Sections /\ at[r] \in Sections => Dev(q) # Dev(r)

(* A thread that nobody overtook still finds the outcome of its own session
   in the register, though it gave the device back before it looks. *)
ResultKept ==
  \A r \in Reqs :
    at[r] \in {"ended", "unlocked"} /\ ~ overtaken[r] => result[Dev(r)] = outcome[r]

(* An index the service chose for an enrollment, from a list that showed it to be
   free, is still free when the new feature is stored there, however long the
   user took and whoever enrolled or cleaned meanwhile. *)
ChosenIndexStaysFree ==
  \A r \in Reqs :
    at[r] = "running" /\ Kind(r) = "Enroll" /\ shown[r] /\ ~ effect[r]
      => Row(r) \notin rows

(* A clean that is answered with success has erased what it was asked to: no
   covered row that was there when it began is left, unless it was stored
   anew.  For a single device the answer has to be its own. *)
CleanErases ==
  \A r \in Reqs :
    /\ at[r] = "done" /\ Kind(r) = "Clean" /\ ret[r] = RetOpsSuccess
    /\ CleansAll(r) \/ ~ overtaken[r]
    => before[r] \cap rows = {}

(* Every request is answered, or is itself the one that runs on the device:
   nobody waits for a device that another request, or a stranded one, keeps. *)
EveryRequestAnswered ==
  \A r \in Reqs :
    at[r] \notin {"new", "auth", "done"} ~> at[r] \in {"new", "running", "matching", "done"}

(* What the interface promises and the service does not keep. *)

(* "For verify and identify, [RetOpsSuccess] also means successful
   verification" (biometric-authenticationd.h): of this request. *)
VerifiedMeansMatched ==
  \A r \in Reqs :
    at[r] = "done" /\ Kind(r) = "Verify" /\ ret[r] = RetOpsSuccess
      => outcome[r] = Code("Verify", Success)

(* RetOpsSuccess is "successful execution": the user has enrolled a finger. *)
EnrolledMeansStored ==
  \A r \in Reqs :
    at[r] = "done" /\ Kind(r) = "Enroll" /\ ret[r] = RetOpsSuccess /\ ~ overtaken[r]
      => effect[r]
=============================================================================
