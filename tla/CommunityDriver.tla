--------------------------- MODULE CommunityDriver ---------------------------
(***************************************************************************)
(* One device of the community-multidevice drivers                         *)
(* (src/src/drivers/community-multidevice) under the framework operations  *)
(* of src/src/lib/biometric_common.c.                                      *)
(*                                                                         *)
(* Three kinds of threads share the device without a lock:                 *)
(*   - the worker: the thread of the D-Bus request that holds the device   *)
(*     mutex.  It opens the device, runs one operation and closes it; each *)
(*     of the three starts an asynchronous libfprint call and polls        *)
(*     asyn_flag until a callback has set it to DONE;                      *)
(*   - the main loop, which runs the libfprint callbacks one at a time;    *)
(*   - the stoppers: threads of StopOps requests, which take no mutex and  *)
(*     write asyn_flag and ctrlFlag themselves.                            *)
(* notify_mid, extra_info and the status signals are text for the user and *)
(* are left out; nothing reads them back.                                  *)
(***************************************************************************)
EXTENDS BioStatus

CONSTANTS
  Ops,          \* the operations callers start
  Stoppers,     \* the threads that may call ops_stop_by_user
  TimeoutTicks, \* timeoutMS, in polling intervals of 100 ms
  MaxWait,      \* the waiting time of a stopper, in polling intervals
  MaxPresses,   \* bound: enroll stages and search rounds the user goes on for
  LibErrors,    \* BOOLEAN: may fp_device_open and fp_print_serialize fail
  BadTemplates, \* BOOLEAN: may a stored template be missing, undecodable or
                \* one of several for its index
  NullCapture,  \* BOOLEAN: may the driver leave ops_capture NULL, as most do
  Hidden        \* the result register of a busy device, to the outside

ASSUME DriverAssumption ==
  /\ Ops \subseteq AllOps
  /\ {TimeoutTicks, MaxWait, MaxPresses} \subseteq Nat
  /\ LibErrors \in BOOLEAN
  /\ BadTemplates \in BOOLEAN
  /\ NullCapture \in BOOLEAN

VARIABLES
  pc,        \* where the worker is
  op,        \* the operation of this session, or of the last one
  status,    \* bio_dev.dev_status
  result,    \* bio_dev.ops_result
  asyn,      \* driver_info.asyn_flag: "running" or "done"
  ctrl,      \* driver_info.ctrlFlag
  timeused,  \* driver_info.timeused, in polling intervals
  seen,      \* the timeused the worker has read and is about to add 100 to
  found,     \* capture_data.feature_data / search_data.found is not NULL
  lib,       \* what libfprint is doing for this device
  presses,   \* enroll stages or search rounds of this operation
  stop,      \* the stoppers: where each is and how long it has waited
  effect,    \* history: the operation of this session did what it is for
  waited,    \* history: intervals since the call began or last progressed
  lost,      \* history: why the DONE the worker waits for cannot come
  undone     \* history: the last press fell into the addition to timeused

devVars  == <<status, result>>
flags    == <<asyn, ctrl>>
history  == <<effect, waited, lost, undone>>
clocks   == <<timeused, seen>>
vars == <<pc, op, devVars, flags, clocks, found, lib, presses, stop, history>>

(* The waits for asyn_flag = DONE.  The ones in Cancelled have called
   g_cancellable_cancel and poll nothing else. *)
Polling   == {"Opening", "Running", "Adding", "Slept", "Closing"}
Cancelled == {"OpenCancelled", "RunCancelled", "RunStopped", "CloseCancelled"}
Waits     == Polling \cup Cancelled

Settled == {"stopped", "done", "idle"}   \* ctrlFlag values a stopper accepts
StopIdle == [at |-> "none", waited |-> 0]

(* Identify, Search and GetFlist write the operation type where a status
   belongs. *)
Points   == Waits \cup {"Idle", "Opened", "InDb", "Close", "InRename", "Crashed"}
Statuses == {DevIdle} \cup { Doing(t) : t \in DOMAIN OpsType \ {"Comm", "Close"} }
            \cup { OpsType[t] : t \in {"Identify", "Search", "GetFlist"} }
Results  == { Code(t, d) : t \in DOMAIN OpsType, d \in 0 .. 4 }
StopStates == [at : {"none", "seen", "waiting"}, waited : 0 .. MaxWait]

TypeOK ==
  /\ pc \in Points
  /\ op \in Ops
  /\ status \in Statuses
  /\ result \in Results
  /\ asyn \in {"running", "done"}
  /\ ctrl \in Settled \cup {"running", "stoping"}
  /\ timeused \in 0 .. TimeoutTicks + 1
  /\ seen \in 0 .. TimeoutTicks
  /\ found \in BOOLEAN
  /\ lib \in {"none", "open", "op", "stored", "idled", "reported", "close"}
  /\ presses \in 0 .. MaxPresses
  /\ stop \in [Stoppers -> StopStates]
  /\ effect \in BOOLEAN
  /\ waited \in 0 .. TimeoutTicks + 1
  /\ lost \in {"no", "open error", "serialize error", "stop"}
  /\ undone \in BOOLEAN

(* ops_configure and community_ops_driver_init. *)
Init ==
  /\ pc = "Idle" /\ op \in Ops
  /\ status = DevIdle /\ result = DevIdle
  /\ asyn = "done" /\ ctrl = "idle" /\ timeused = 0 /\ seen = 0
  /\ found = FALSE /\ lib = "none" /\ presses = 0
  /\ stop = [s \in Stoppers |-> StopIdle]
  /\ effect = FALSE /\ waited = 0 /\ lost = "no" /\ undone = FALSE

-----------------------------------------------------------------------------
(* The worker: opening the device.                                          *)

(* bio_ops_<o> calls ops_open.  timeused is whatever the last session left. *)
OpenStart(o) ==
  /\ pc = "Idle" /\ o # "Rename"
  /\ pc' = "Opening" /\ op' = o
  /\ asyn' = "running" /\ ctrl' = "running"
  /\ status' = Doing("Open")
  /\ lib' = "open"
  /\ effect' = FALSE /\ waited' = 0
  /\ UNCHANGED <<result, clocks, found, presses, stop, lost, undone>>

Silence == IF waited > TimeoutTicks THEN waited ELSE waited + 1

(* Mutant of Poll: the loop does not look at the timeout. *)
PollForever(at) ==
  /\ pc = at /\ asyn = "running"
  /\ timeused' = timeused + 1
  /\ UNCHANGED <<pc, op, devVars, flags, seen, found, lib, presses, stop, history>>

(* One round of the polling loops of open and close that finds the call still
   running: nothing else writes timeused then. *)
Poll(at) ==
  /\ pc = at /\ asyn = "running" /\ timeused <= TimeoutTicks
  /\ timeused' = timeused + 1
  /\ waited' = Silence
  /\ UNCHANGED <<pc, op, devVars, flags, seen, found, lib, presses, stop, effect, lost,
                 undone>>

(* The loop finds timeused above the timeout: it cancels and waits on. *)
GivesUp(at, after) ==
  /\ pc = at /\ asyn = "running" /\ timeused > TimeoutTicks
  /\ pc' = after
  /\ UNCHANGED <<op, devVars, flags, clocks, found, lib, presses, stop, history>>

(* The worker finds DONE and writes the status and the result. *)
Finishes(at, after, newStatus, newResult) ==
  /\ pc = at /\ asyn = "done"
  /\ pc' = after
  /\ status' = newStatus /\ result' = newResult
  /\ UNCHANGED <<op, flags, clocks, found, lib, presses, stop, history>>

(* Mutant of OpenSucceeds: the result of the last session is not replaced. *)
OpenKeepsResult == Finishes("Opening", "Opened", DevIdle, result)

OpenSucceeds == Finishes("Opening", "Opened", DevIdle, Code("Open", Success))
OpenFails    == Finishes("OpenCancelled", "Close", DevIdle, Code("Open", Fail))
Opens == Poll("Opening") \/ GivesUp("Opening", "OpenCancelled")
         \/ OpenSucceeds \/ OpenFails

-----------------------------------------------------------------------------
(* The worker: an operation that waits for libfprint.                       *)

StartStatus(o) == IF o \in {"Identify", "Search"} THEN OpsType[o] ELSE Doing(o)

StartOp ==
  /\ pc = "Opened" /\ op \in AsyncOps
  /\ pc' = "Running"
  /\ status' = StartStatus(op)
  /\ asyn' = "running" /\ timeused' = 0 /\ found' = FALSE
  /\ lib' = "op" /\ presses' = 0 /\ waited' = 0 /\ undone' = FALSE
  /\ UNCHANGED <<op, result, ctrl, seen, stop, effect, lost>>

(* Where ops_capture is NULL the framework reports an error, relative to the
   idle status of a device that has just been opened. *)
Unsupported ==
  /\ NullCapture /\ pc = "Opened" /\ op = "Capture"
  /\ pc' = "Close"
  /\ result' = Relative(status, Error)
  /\ UNCHANGED <<op, status, flags, clocks, found, lib, presses, stop, history>>

(* A round of the polling loop of an operation that finds the call still
   running.  It adds to timeused by reading it and writing it again, and the
   callback of a press may write it in between. *)
PollReads ==
  /\ pc = "Running" /\ asyn = "running" /\ timeused <= TimeoutTicks
  /\ pc' = "Adding"
  /\ seen' = timeused
  /\ UNCHANGED <<op, devVars, flags, timeused, found, lib, presses, stop, history>>

PollAdds ==
  /\ pc = "Adding"
  /\ pc' = "Slept"
  /\ timeused' = seen + 1 /\ seen' = 0
  /\ waited' = Silence
  /\ UNCHANGED <<op, devVars, flags, found, lib, presses, stop, effect, lost, undone>>

(* Verify reads the template before it calls libfprint: one that does not
   deserialize ends the operation, one that is missing is a NULL pointer. *)
BadTemplate ==
  /\ BadTemplates /\ pc = "Opened" /\ op = "Verify"
  /\ pc' \in {"Close", "Crashed"}
  /\ status' = StartStatus(op)
  /\ asyn' = "running" /\ timeused' = 0
  /\ UNCHANGED <<op, result, ctrl, seen, found, lib, presses, stop, history>>

(* Mutant of OpEnds: a capture writes its result before it goes idle, and the
   result is relative to the capture status. *)
OpEndsCaptureFirst ==
  /\ op # "Search"
  /\ Finishes("Running", "Close",
              IF op = "Enroll" \/ (op = "Capture" /\ ~ found) THEN status ELSE DevIdle,
              IF op = "Capture" /\ found THEN Relative(status, Success) ELSE result)

(* What an operation leaves when its loop ends because of DONE: enroll and a
   failed capture leave the status alone, a captured feature is reported
   relative to a status that is already idle. *)
OpEnds ==
  /\ op # "Search"
  /\ CASE op = "Enroll" -> Finishes("Running", "Close", status, result)
       [] op = "Capture" /\ ~ found -> Finishes("Running", "Close", status, result)
       [] op = "Capture" /\ found ->
            Finishes("Running", "Close", DevIdle, Relative(DevIdle, Code("Capture", Success)))
       [] OTHER -> Finishes("Running", "Close", DevIdle, result)

(* A search goes round until the callback found nothing more. *)
SearchEnds ==
  /\ op = "Search" /\ ctrl = "done"
  /\ Finishes("Running", "Close", DevIdle,
              Code("Search", IF found THEN Success ELSE Fail))

SearchAgain ==
  /\ op = "Search" /\ ctrl # "done"
  /\ pc = "Running" /\ asyn = "done"
  /\ asyn' = "running" /\ timeused' = 0
  /\ lib' = "op" /\ waited' = 0 /\ undone' = FALSE
  /\ UNCHANGED <<pc, op, devVars, ctrl, seen, found, presses, stop, effect, lost>>

OpTimesOut == Finishes("RunCancelled", "Close", DevIdle, Code(op, TimedOut))

(* After each interval the loop looks at ctrlFlag: a stop request is
   acknowledged, the call cancelled, and then only DONE is waited for.  A
   callback that writes result or status between the reading of the status and
   the writes of the result and the idle status leaves what it leaves before
   or after all three. *)
NotStopped ==
  /\ pc = "Slept" /\ ctrl # "stoping"
  /\ pc' = "Running"
  /\ UNCHANGED <<op, devVars, flags, clocks, found, lib, presses, stop, history>>

Stops ==
  /\ pc = "Slept" /\ ctrl = "stoping"
  /\ pc' = "RunStopped"
  /\ result' = Relative(status, StopByUser)
  /\ status' = DevIdle
  /\ ctrl' = "stopped"
  /\ UNCHANGED <<op, asyn, clocks, found, lib, presses, stop, history>>

StoppedEnds == Finishes("RunStopped", "Close", status, result)

Runs == StartOp \/ Unsupported \/ BadTemplate \/ PollReads \/ PollAdds
        \/ GivesUp("Running", "RunCancelled") \/ OpEnds \/ SearchEnds \/ SearchAgain
        \/ OpTimesOut \/ NotStopped \/ Stops \/ StoppedEnds

-----------------------------------------------------------------------------
(* The worker: an operation on the database, and closing the device.        *)

DbStart ==
  /\ pc = "Opened" /\ op \in DbOps
  /\ pc' = "InDb"
  /\ status' = IF op = "GetFlist" THEN OpsType[op] ELSE Doing(op)
  /\ UNCHANGED <<op, result, flags, clocks, found, lib, presses, stop, history>>

DbEnds ==
  /\ pc = "InDb"
  /\ pc' = "Close"
  /\ \/ effect' = TRUE /\ result' = Code(op, Success)
     \/ op = "Clean" /\ result' = Relative(status, Fail) /\ UNCHANGED effect
  /\ status' = DevIdle
  /\ UNCHANGED <<op, flags, clocks, found, lib, presses, stop, waited, lost, undone>>

(* Mutant of CloseStart: asyn_flag keeps the DONE of the operation. *)
CloseWithoutReset ==
  /\ pc = "Close"
  /\ pc' = "Closing"
  /\ lib' = "close" /\ waited' = 0
  /\ UNCHANGED <<op, devVars, flags, clocks, found, presses, stop, effect, lost, undone>>

(* Whatever open and the operation returned, the device is closed. *)
CloseStart ==
  /\ pc = "Close"
  /\ pc' = "Closing"
  /\ asyn' = "running"
  /\ lib' = "close" /\ waited' = 0
  /\ UNCHANGED <<op, devVars, ctrl, clocks, found, presses, stop, effect, lost, undone>>

CloseSucceeds ==
  /\ pc = "Closing" /\ asyn = "done"
  /\ pc' = "Idle"
  /\ ctrl' = "idle"
  /\ UNCHANGED <<op, devVars, asyn, clocks, found, lib, presses, stop, history>>

CloseFails == Finishes("CloseCancelled", "Idle", DevIdle, Code("Close", Fail))

Closes == CloseStart \/ Poll("Closing")
          \/ GivesUp("Closing", "CloseCancelled") \/ CloseSucceeds \/ CloseFails

(* bio_ops_feature_rename: the drivers leave it to the framework, which works
   on the database alone and does not open the device. *)
RenameStart ==
  /\ pc = "Idle" /\ "Rename" \in Ops
  /\ pc' = "InRename" /\ op' = "Rename"
  /\ status' = Doing("Rename")
  /\ effect' = FALSE
  /\ UNCHANGED <<result, flags, clocks, found, lib, presses, stop, waited, lost, undone>>

RenameEnds ==
  /\ pc = "InRename"
  /\ pc' = "Idle"
  /\ status' = DevIdle
  /\ effect' \in BOOLEAN
  /\ result' = Code("Rename", IF effect' THEN Success ELSE Fail)
  /\ UNCHANGED <<op, flags, clocks, found, lib, presses, stop, waited, lost, undone>>

-----------------------------------------------------------------------------
(* The main loop: libfprint and its callbacks.                              *)

Done(libNext) ==
  /\ lib' = libNext /\ asyn' = "done"
  /\ UNCHANGED <<pc, op, ctrl, clocks, stop, waited, lost, undone>>

(* The callback returns without setting DONE. *)
NeverDone(cause) ==
  /\ LibErrors
  /\ lib' = "none" /\ lost' = cause
  /\ UNCHANGED <<pc, op, devVars, flags, clocks, found, presses, stop, effect, waited, undone>>

(* on_device_opened and on_device_closed. *)
OnOpened ==
  /\ lib = "open"
  /\ \/ Done("none") /\ UNCHANGED <<devVars, found, presses, effect>>
     \/ NeverDone("open error")

OnClosed ==
  lib = "close" /\ Done("none") /\ UNCHANGED <<devVars, found, presses, effect>>

(* Mutant of OnEnrollProgress: a passed stage does not restart the clock. *)
OnEnrollProgressSameClock ==
  /\ lib = "op" /\ op = "Enroll" /\ presses < MaxPresses
  /\ presses' = presses + 1 /\ waited' = 0 /\ undone' = (pc = "Adding")
  /\ UNCHANGED <<pc, op, devVars, flags, clocks, found, lib, stop, effect, lost>>

(* on_enroll_progress: a stage passed, or a press that has to be repeated. *)
OnEnrollProgress ==
  /\ lib = "op" /\ op = "Enroll" /\ presses < MaxPresses
  /\ timeused' = 0
  /\ presses' = presses + 1 /\ waited' = 0 /\ undone' = (pc = "Adding")
  /\ UNCHANGED <<pc, op, devVars, flags, seen, found, lib, stop, effect, lost>>

(* on_enroll_completed: the feature is stored and the result written, or
   libfprint reports an error, or the new template cannot be serialized. *)
OnEnrollCompleted ==
  /\ lib = "op" /\ op = "Enroll"
  /\ \/ /\ lib' = "stored"
        /\ result' = Code("Enroll", Success) /\ effect' = TRUE
        /\ UNCHANGED <<pc, op, status, flags, clocks, found, presses, stop, waited, lost,
                       undone>>
     \/ Done("none") /\ UNCHANGED <<devVars, found, presses, effect>>
     \/ NeverDone("serialize error")

(* After the result the callback writes the status, and then DONE.  Worker and
   stoppers go on in between. *)
EnrollIdles ==
  /\ lib = "stored"
  /\ lib' = "idled"
  /\ status' = DevIdle
  /\ UNCHANGED <<pc, op, result, flags, clocks, found, presses, stop, history>>

EnrollDone == lib = "idled" /\ Done("none") /\ UNCHANGED <<devVars, found, presses, effect>>

(* on_capture_completed. *)
OnCaptureCompleted ==
  /\ lib = "op" /\ op = "Capture"
  /\ Done("none")
  /\ found' \in BOOLEAN /\ effect' = found'
  /\ UNCHANGED <<devVars, presses>>

(* on_match_cb_verify and on_match_cb_identify. *)
OnMatch(match) ==
  /\ lib = "op" /\ op \in {"Verify", "Identify"}
  /\ lib' = "reported"
  /\ result' = Code(op, IF match THEN Success ELSE Fail)
  /\ effect' = match
  /\ UNCHANGED <<pc, op, status, flags, clocks, found, presses, stop, waited, lost, undone>>

(* Mutant of OnSearchMatch: no match does not end the search. *)
OnSearchMatchGoesOn(match) ==
  /\ lib = "op" /\ op = "Search"
  /\ lib' = "reported"
  /\ match => presses < MaxPresses
  /\ presses' = presses + (IF match THEN 1 ELSE 0)
  /\ found' = (found \/ match) /\ effect' = found'
  /\ UNCHANGED <<pc, op, devVars, flags, clocks, stop, waited, lost, undone>>

(* on_match_cb_search: a match is added to the list, if its row is still in the
   database, and no match ends the search. *)
OnSearchMatch(match) ==
  /\ lib = "op" /\ op = "Search"
  /\ lib' = "reported"
  /\ IF match
     THEN presses < MaxPresses /\ presses' = presses + 1 /\ found' \in {found, TRUE}
          /\ UNCHANGED ctrl
     ELSE ctrl' = "done" /\ UNCHANGED <<found, presses>>
  /\ effect' = found'
  /\ UNCHANGED <<pc, op, devVars, asyn, clocks, stop, waited, lost, undone>>

(* The loop of on_match_cb_search over the samples of the matched row frees a
   buffer twice when a sample that is not equal to the print has another one
   after it. *)
OnSearchCrash ==
  /\ BadTemplates /\ lib = "op" /\ op = "Search"
  /\ pc' = "Crashed" /\ lib' = "none"
  /\ UNCHANGED <<op, devVars, flags, clocks, found, presses, stop, history>>

(* Mutant of OnMatchCompleted: an error returns before DONE is set. *)
OnMatchCompletedSilent ==
  /\ op \in {"Verify", "Identify", "Search"}
  /\ \/ lib = "reported" /\ asyn' = "done"
     \/ lib = "op" /\ UNCHANGED asyn
  /\ lib' = "none"
  /\ UNCHANGED <<pc, op, devVars, ctrl, clocks, found, presses, stop, history>>

(* on_verify_completed and on_device_identify: after a report, or after an
   error (a cancelled call, a press that has to be repeated) without one. *)
OnMatchCompleted ==
  /\ op \in {"Verify", "Identify", "Search"}
  /\ \/ lib = "reported" /\ UNCHANGED presses
     \/ lib = "op" /\ (op # "Search" \/ pc \in Cancelled) /\ UNCHANGED presses
     \/ lib = "op" /\ op = "Search" /\ presses < MaxPresses /\ presses' = presses + 1
  /\ Done("none")
  /\ UNCHANGED <<devVars, found, effect>>

OpCallbacks ==
  \/ OnEnrollCompleted \/ OnCaptureCompleted
  \/ \E match \in BOOLEAN : OnMatch(match) \/ OnSearchMatch(match)
  \/ OnSearchCrash \/ OnMatchCompleted

CallbackGoesOn == EnrollIdles \/ EnrollDone

-----------------------------------------------------------------------------
(* The stoppers: community_ops_stop_by_user.  A call that finds the device   *)
(* idle returns 0 at once and changes nothing.                              *)

StopperGoes(s, to, time) ==
  stop' = [stop EXCEPT ![s] = [at |-> to, waited |-> time]]

StopCall(s) ==
  /\ stop[s].at = "none" /\ pc # "Crashed"
  /\ status # DevIdle
  /\ StopperGoes(s, "seen", 0)
  /\ UNCHANGED <<pc, op, devVars, flags, clocks, found, lib, presses, history>>

(* Nothing has kept the device in the state StopCall saw. *)
StopRequest(s) ==
  /\ stop[s].at = "seen" /\ pc # "Crashed"
  /\ StopperGoes(s, "waiting", 0)
  /\ asyn' = "running" /\ ctrl' = "stoping"
  /\ lost' = IF pc \in Waits /\ asyn = "done" THEN "stop" ELSE lost
  /\ UNCHANGED <<pc, op, devVars, clocks, found, lib, presses, effect, waited, undone>>

StopWait(s) ==
  /\ stop[s].at = "waiting" /\ pc # "Crashed"
  /\ ctrl \notin Settled /\ stop[s].waited < MaxWait
  /\ StopperGoes(s, "waiting", stop[s].waited + 1)
  /\ UNCHANGED <<pc, op, devVars, flags, clocks, found, lib, presses, history>>

(* Mutant of StopReturn: the waiting time of the caller is ignored. *)
StopReturnsWhenSettled(s) ==
  /\ stop[s].at = "waiting" /\ pc # "Crashed"
  /\ ctrl \in Settled
  /\ StopperGoes(s, "none", 0)
  /\ UNCHANGED <<pc, op, devVars, flags, clocks, found, lib, presses, history>>

(* Returns 0 if ctrlFlag has settled, else -1. *)
StopReturn(s) ==
  /\ stop[s].at = "waiting" /\ pc # "Crashed"
  /\ ctrl \in Settled \/ stop[s].waited >= MaxWait
  /\ StopperGoes(s, "none", 0)
  /\ UNCHANGED <<pc, op, devVars, flags, clocks, found, lib, presses, history>>

-----------------------------------------------------------------------------
(* A crash takes the whole daemon down; systemd starts it again.            *)

Restart ==
  /\ pc = "Crashed"
  /\ pc' = "Idle"
  /\ status' = DevIdle /\ result' = DevIdle
  /\ asyn' = "done" /\ ctrl' = "idle" /\ timeused' = 0 /\ seen' = 0
  /\ found' = FALSE /\ lib' = "none" /\ presses' = 0
  /\ stop' = [s \in Stoppers |-> StopIdle]
  /\ effect' = FALSE /\ waited' = 0 /\ lost' = "no" /\ undone' = FALSE
  /\ UNCHANGED op

Start == RenameStart \/ \E o \in Ops : OpenStart(o)
Worker == Opens \/ Runs \/ DbStart \/ DbEnds \/ Closes \/ RenameEnds
Library == OnOpened \/ OnClosed \/ OnEnrollProgress \/ OpCallbacks \/ CallbackGoesOn
Stopper(s) == StopRequest(s) \/ StopWait(s) \/ StopReturn(s)

Next == Start \/ Worker \/ Library \/ Restart
        \/ \E s \in Stoppers : StopCall(s) \/ Stopper(s)

(* Threads are scheduled; the service manager restarts the daemon; libfprint
   answers opening and closing, and ends an operation it was told to cancel; a
   callback that has begun runs to its end.  An operation nobody puts a finger
   on is owed no answer. *)
Fairness ==
  /\ WF_vars(Worker)
  /\ WF_vars(Restart)
  /\ WF_vars(OnOpened)
  /\ WF_vars(OnClosed)
  /\ WF_vars(pc \in Cancelled /\ OpCallbacks)
  /\ WF_vars(CallbackGoesOn)
  /\ \A s \in Stoppers : WF_vars(Stopper(s))

Spec == Init /\ [][Next]_vars /\ Fairness
-----------------------------------------------------------------------------
(* Properties.                                                              *)

(* The device seen by the service: one session is one step of the contract,
   and the operation leaves one of the outcomes the contract lists. *)
Contract == INSTANCE DeviceContract WITH
  phase   <- IF pc = "Idle" THEN "free" ELSE "busy",
  current <- op,
  effect  <- IF pc = "Idle" THEN effect ELSE Hidden,
  result  <- IF pc = "Idle" THEN result ELSE Hidden

(* Whatever callbacks, timeouts and stop requests interleave with a session,
   it ends with one of the results its operation can have. *)
ImplementsContract == Contract!Spec

(* libfprint refuses a call on a device that is busy with another one.  The
   worker goes on only after the callback of its last call has run, and waits
   at the place that belongs to that call: a DONE is never taken for the end
   of a call it was not meant for. *)
OneCallAtATime ==
  lib # "none" =>
    /\ asyn = "running"
    /\ pc \in CASE lib = "open"  -> {"Opening", "OpenCancelled"}
               [] lib = "close" -> {"Closing", "CloseCancelled"}
               [] OTHER -> {"Running", "Adding", "Slept", "RunCancelled", "RunStopped"}

(* A session that ends with "enrolled", "verified", "identified" or "found"
   had that very answer from libfprint: no answer of an earlier session, and
   no answer of an operation that failed, was cancelled or timed out without
   one, is passed on. *)
AffirmedByTheLibrary == pc = "Idle" /\ result \in Affirmative => effect

(* An operation is given up for lack of time only when nothing happened for
   the whole timeout: a press of the finger starts the clock again.  The one
   press that does not is one that falls into the worker's addition to the
   clock, and only until the next press or the next operation. *)
TimesOutOnlyAfterSilence ==
  [][ pc # "RunCancelled" /\ pc' = "RunCancelled" => waited > TimeoutTicks \/ undone ]_vars

(* The worker waits for a DONE that nobody will write any more. *)
Stranded == pc \in Waits /\ lib = "none" /\ asyn = "running"

(* There are three ways to get there: an error of fp_device_open, an error of
   fp_print_serialize, and a stop request that overwrites a DONE the worker
   has not seen yet.  In every other interleaving DONE arrives, and after one
   of the three it never does. *)
StrandedHasCause == Stranded <=> lost # "no"

(* Every session ends and gives the device back, unless it is stranded.  A
   search can also be kept going for ever, by stop requests that come in every
   round and overwrite the ctrlFlag DONE that would have ended it. *)
SessionOver == pc = "Idle" \/ Stranded
StopsCease  == <>[] (\A s \in Stoppers : stop[s].at = "none")
SessionEnds ==
  /\ pc # "Idle" /\ op # "Search" ~> SessionOver
  /\ StopsCease => (pc # "Idle" ~> SessionOver)

(* A stop request is answered within its waiting time, whatever the worker
   does: also when it does not look at ctrlFlag or has been stranded. *)
StopAnswers == \A s \in Stoppers : stop[s].at = "seen" ~> stop[s].at = "none"

-----------------------------------------------------------------------------
(* What the interface promises and this driver does not keep.               *)

(* ops_stop_by_user is there to end the current operation of the device
   (biometric_common.h): after a stop request the session ends.  It does not
   when the request overwrites a DONE the worker has not seen. *)
StopEndsTheOperation ==
  \A s \in Stoppers : stop[s].at = "waiting" ~> pc = "Idle"

(* The driver gives an operation, its opening and its closing the timeout of
   the framework.  It does not: timeused is reset only when an operation
   starts, so after one that timed out the device is closed, and from then on
   opened, with a clock that has already run out. *)
GivesUpOnlyAfterTimeout ==
  [][ (pc \in Polling /\ pc' \in Cancelled \ {"RunStopped"})
      => waited > TimeoutTicks ]_vars
=============================================================================
