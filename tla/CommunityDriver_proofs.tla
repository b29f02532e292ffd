------------------------ MODULE CommunityDriver_proofs ------------------------
(***************************************************************************)
(* The session of a community driver, for every set of operations and       *)
(* stoppers and every timeout: its types, the pairing of libfprint calls    *)
(* and waits, the causes of a stranded worker, and that a session is one    *)
(* step of DeviceContract.                                                  *)
(***************************************************************************)
EXTENDS CommunityDriver, TLAPS

-----------------------------------------------------------------------------
(* Codes.                                                                   *)

Types   == DOMAIN OpsType
Details == {Success, Fail, Error, StopByUser, TimedOut}

(* The record of operation types, field by field. *)
LEMMA OpsTypes ==
  /\ Types = {"Comm", "Open", "Enroll", "Verify", "Identify", "Capture", "Search",
              "Clean", "GetFlist", "Rename", "Close"}
  /\ OpsType["Comm"] = 0 /\ OpsType["Open"] = 1 /\ OpsType["Enroll"] = 2
  /\ OpsType["Verify"] = 3 /\ OpsType["Identify"] = 4 /\ OpsType["Capture"] = 5
  /\ OpsType["Search"] = 6 /\ OpsType["Clean"] = 7 /\ OpsType["GetFlist"] = 8
  /\ OpsType["Rename"] = 9 /\ OpsType["Close"] = 10
BY DEF OpsType, Types

(* The types number from 0 to 10. *)
LEMMA TypeNumbers == \A t \in Types : OpsType[t] \in 0 .. 10
BY OpsTypes

(* Every code a driver writes absolutely is a result. *)
LEMMA CodeTyped == \A t \in Types, d \in Details : Code(t, d) \in Results
BY DEF Results, Types, Details, Success, Fail, Error, StopByUser, TimedOut

(* The division by 100 takes the type of a code out. *)
LEMMA Division ==
  ASSUME NEW k \in Nat, NEW d \in 0 .. 99
  PROVE  (k * 100 + d) \div 100 = k /\ (k * 100 + d) % 100 = d
OBVIOUS

(* So is a detail put in the place of the detail of a status. *)
LEMMA RelativeTyped ==
  ASSUME NEW st \in Statuses, NEW d \in Details
  PROVE  Relative(st, d) \in Results
<1>1. PICK t \in Types : st \div 100 = OpsType[t]
  <2>1. CASE st = DevIdle
    BY <2>1, Division, OpsTypes DEF DevIdle, Code
  <2>2. CASE \E t \in Types : st = Doing(t)
    <3>1. PICK t \in Types : st = OpsType[t] * 100 + 1
      BY <2>2 DEF Doing, Code
    <3> QED
      BY <3>1, Division, TypeNumbers
  <2>3. CASE st \in {4, 6, 8}
    BY <2>3, Division, OpsTypes
  <2> QED
    BY <2>1, <2>2, <2>3, OpsTypes DEF Statuses, Types
<1>2. d % 100 = d
  BY Division DEF Details, Success, Fail, Error, StopByUser, TimedOut
<1>3. Relative(st, d) = Code(t, d)
  BY <1>1, <1>2 DEF Relative, Code
<1> QED
  BY <1>3, CodeTyped

(* The idle status is a status, and as a result a result. *)
LEMMA StatusTyped == DevIdle \in Statuses /\ DevIdle \in Results
BY OpsTypes, CodeTyped DEF Statuses, Types, DevIdle, Details, Success

(* What an operation writes when it starts is a status. *)
LEMMA StartStatusTyped ==
  ASSUME NEW o \in AsyncOps \cup {"Clean", "GetFlist"}
  PROVE  /\ StartStatus(o) \in Statuses
         /\ Doing(o) \in Statuses
<1>1. o \in Types \ {"Comm", "Close"}
  BY OpsTypes DEF AsyncOps
<1>2. Doing(o) \in Statuses
  BY <1>1 DEF Statuses, Types
<1>3. o \in {"Identify", "Search", "GetFlist"} => OpsType[o] \in Statuses
  BY DEF Statuses
<1> QED
  BY <1>2, <1>3 DEF StartStatus

(* Every operation has a type. *)
LEMMA OpsAreTypes == AllOps \subseteq Types
BY OpsTypes DEF AllOps, AsyncOps, DbOps

(* A captured feature is reported relative to an idle status, and so is a
   capture that is not supported. *)
LEMMA RelativeToIdle ==
  /\ Relative(DevIdle, Code("Capture", Success)) = Code("Comm", Success)
  /\ Relative(DevIdle, StopByUser) = Code("Comm", StopByUser)
  /\ Relative(DevIdle, Error) = Code("Comm", Error)
BY OpsTypes DEF Relative, Code, DevIdle, Success, StopByUser, Error

-----------------------------------------------------------------------------
(* Types.                                                                   *)

(* TypeOK in three parts, with the sets of codes by name. *)
Registers ==
  /\ pc \in Points
  /\ op \in Ops
  /\ status \in Statuses
  /\ result \in Results
  /\ asyn \in {"running", "done"}
  /\ ctrl \in Settled \cup {"running", "stoping"}
  /\ found \in BOOLEAN
  /\ lib \in {"none", "open", "op", "stored", "idled", "reported", "close"}
  /\ effect \in BOOLEAN
  /\ lost \in {"no", "open error", "serialize error", "stop"}
  /\ undone \in BOOLEAN

Clocks ==
  /\ timeused \in 0 .. TimeoutTicks + 1
  /\ seen \in 0 .. TimeoutTicks
  /\ presses \in 0 .. MaxPresses
  /\ waited \in 0 .. TimeoutTicks + 1

Typed == Registers /\ Clocks /\ stop \in [Stoppers -> StopStates]

(* The three parts are the type invariant. *)
LEMMA TypedIsTypeOK == Typed => TypeOK
BY DEF Typed, TypeOK, Registers, Clocks

(* The bounds are numbers. *)
LEMMA Bounds == TimeoutTicks \in Nat /\ MaxWait \in Nat /\ MaxPresses \in Nat
BY DriverAssumption

(* Stoppers that have not called are well typed. *)
LEMMA NoStop == [s \in Stoppers |-> StopIdle] \in [Stoppers -> StopStates]
BY Bounds DEF StopIdle, StopStates

(* The device is well typed when it is configured. *)
LEMMA InitTyped == Init => Typed
<1> SUFFICES ASSUME Init PROVE Typed
  OBVIOUS
<1>1. Registers
  BY StatusTyped DEF Init, Registers, Points, Settled
<1>2. Clocks
  BY Bounds DEF Init, Clocks
<1> QED
  BY <1>1, <1>2, NoStop DEF Init, Typed

(* Every clock is reset, kept, or one that has not run out moves on. *)
LEMMA NextClocks == Typed /\ [Next]_vars => Clocks'
<1> SUFFICES ASSUME Clocks, [Next]_vars PROVE Clocks'
  BY DEF Typed
<1> USE DEF devVars, flags, clocks, history
<1>0. /\ timeused \in Nat /\ waited \in Nat /\ presses \in Nat /\ seen \in Nat
      /\ seen <= TimeoutTicks
      /\ timeused <= TimeoutTicks + 1 /\ waited <= TimeoutTicks + 1 /\ presses <= MaxPresses
  BY Bounds DEF Clocks
<1>1. /\ \/ timeused' \in {0, timeused}
         \/ timeused <= TimeoutTicks /\ timeused' = timeused + 1
         \/ timeused' = seen + 1
      /\ seen' \in {0, seen} \/ (timeused <= TimeoutTicks /\ seen' = timeused)
      /\ waited' \in {0, waited} \/ (~ (waited > TimeoutTicks) /\ waited' = waited + 1)
      /\ presses' \in {0, presses} \/ (presses < MaxPresses /\ presses' = presses + 1)
  <2>1. CASE Start \/ Restart
    BY <2>1 DEF Start, RenameStart, OpenStart, Restart
  <2>2. CASE Worker
    BY <2>2 DEF Worker, Opens, OpenSucceeds, OpenFails, Runs, StartOp, Unsupported, BadTemplate, PollReads, PollAdds, OpEnds,
       SearchEnds, SearchAgain, OpTimesOut, NotStopped, Stops, StoppedEnds, DbStart, DbEnds,
       Closes, CloseStart, CloseSucceeds, CloseFails, RenameEnds, Poll, GivesUp, Finishes,
       Silence
  <2>3. CASE Library
    BY <2>3 DEF Library, OnOpened, OnClosed, OnEnrollProgress, OpCallbacks,
       OnEnrollCompleted, OnCaptureCompleted, OnMatch, OnSearchMatch, OnMatchCompleted, OnSearchCrash, CallbackGoesOn, EnrollIdles, EnrollDone,
       Done, NeverDone
  <2>4. ASSUME NEW s \in Stoppers, StopCall(s) \/ Stopper(s)
        PROVE  UNCHANGED <<timeused, seen, waited, presses>>
    BY <2>4 DEF StopCall, Stopper, StopRequest, StopWait, StopReturn
  <2>5. CASE UNCHANGED vars
    BY <2>5 DEF vars
  <2> QED
    BY <2>1, <2>2, <2>3, <2>4, <2>5 DEF Next
<1>2. timeused' \in 0 .. TimeoutTicks + 1
  BY <1>0, <1>1, Bounds
<1>3. waited' \in 0 .. TimeoutTicks + 1
  BY <1>0, <1>1, Bounds
<1>4. presses' \in 0 .. MaxPresses
  BY <1>0, <1>1, Bounds
<1>5. seen' \in 0 .. TimeoutTicks
  BY <1>0, <1>1, Bounds
<1> QED
  BY <1>2, <1>3, <1>4, <1>5 DEF Clocks

(* One round of a polling loop touches no register of the device. *)
LEMMA PollRegisters ==
  ASSUME Registers, NEW from, NEW to \in Points, Poll(from) \/ GivesUp(from, to)
  PROVE  Registers'
BY DEF Registers, Poll, GivesUp, devVars, flags, clocks, history

(* The end of a wait writes the status and the result it is given. *)
LEMMA FinishesRegisters ==
  ASSUME Registers, NEW from, NEW to \in Points, NEW st \in Statuses, NEW res \in Results,
         Finishes(from, to, st, res)
  PROVE  Registers'
BY DEF Registers, Finishes, flags, clocks, history

(* Every step of the worker, the callbacks and the stoppers keeps the
   registers in their types. *)
LEMMA NextRegisters == Typed /\ [Next]_vars => Registers'
<1> SUFFICES ASSUME Registers, [Next]_vars PROVE Registers'
  BY DEF Typed
<1> USE DEF devVars, flags, clocks, history
<1>0. op \in Types /\ op \in AllOps /\ op \in Ops
  BY OpsAreTypes, DriverAssumption DEF Registers
<1>p. Points = {"Opening", "Running", "Adding", "Slept", "Closing", "OpenCancelled", "RunCancelled",
                "RunStopped", "CloseCancelled", "Idle", "Opened", "InDb", "Close",
                "InRename", "Crashed"}
  BY DEF Points, Waits, Polling, Cancelled
<1>1. CASE RenameStart
  <2>1. Doing("Rename") \in Statuses
    BY OpsTypes DEF Statuses, Types
  <2> QED
    BY <1>1, <1>p, <2>1 DEF RenameStart, Registers
<1>2. ASSUME NEW o \in Ops, OpenStart(o) PROVE Registers'
  <2>1. Doing("Open") \in Statuses
    BY OpsTypes DEF Statuses, Types
  <2> QED
    BY <1>2, <1>p, <2>1 DEF OpenStart, Registers, Settled
<1>3. CASE Opens
  <2>1. Code("Open", Success) \in Results /\ Code("Open", Fail) \in Results
    BY CodeTyped, OpsTypes DEF Details
  <2> QED
    BY <1>3, <1>p, <2>1, StatusTyped, PollRegisters, FinishesRegisters
       DEF Opens, OpenSucceeds, OpenFails
<1>4. CASE Runs
  <2>1. CASE StartOp
    BY <2>1, <1>p, <1>0, StartStatusTyped DEF StartOp, Registers
  <2>2. CASE BadTemplate
    BY <2>2, <1>p, StartStatusTyped DEF BadTemplate, Registers, AsyncOps
  <2>3. CASE OpEnds
    <3>1. Code("Comm", Success) \in Results
      BY CodeTyped, OpsTypes DEF Details
    <3>2. status \in Statuses /\ result \in Results
      BY DEF Registers
    <3>3. \E st \in Statuses, res \in Results : Finishes("Running", "Close", st, res)
      BY <2>3, <3>1, <3>2, StatusTyped, RelativeToIdle DEF OpEnds
    <3> QED
      BY <3>3, <1>p, FinishesRegisters
  <2>4. CASE SearchEnds
    <3>1. Code("Search", Success) \in Results /\ Code("Search", Fail) \in Results
      BY CodeTyped, OpsTypes DEF Details
    <3> QED
      BY <2>4, <1>p, <3>1, StatusTyped, FinishesRegisters DEF SearchEnds
  <2>5. CASE SearchAgain
    BY <2>5 DEF SearchAgain, Registers
  <2>6. CASE OpTimesOut
    BY <2>6, <1>p, <1>0, StatusTyped, CodeTyped, FinishesRegisters DEF OpTimesOut, Details
  <2>7. CASE NotStopped
    BY <2>7, <1>p DEF NotStopped, Registers
  <2>8. CASE Stops
    <3>1. Relative(status, StopByUser) \in Results
      BY RelativeTyped DEF Registers, Details
    <3> QED
      BY <2>8, <1>p, <3>1, StatusTyped DEF Stops, Registers, Settled
  <2>9. CASE StoppedEnds
    BY <2>9, <1>p, FinishesRegisters DEF StoppedEnds, Registers
  <2>10. CASE Unsupported
    <3>1. Relative(status, Error) \in Results
      BY RelativeTyped DEF Registers, Details
    <3> QED
      BY <2>10, <1>p, <3>1 DEF Unsupported, Registers
  <2>11. CASE PollReads \/ PollAdds
    BY <2>11, <1>p DEF PollReads, PollAdds, Registers
  <2> QED
    BY <1>4, <1>p, <2>1, <2>2, <2>3, <2>4, <2>5, <2>6, <2>7, <2>8, <2>9, <2>10, <2>11,
       PollRegisters
       DEF Runs
<1>5. CASE DbStart
  <2>1. OpsType["GetFlist"] \in Statuses
    BY DEF Statuses
  <2> QED
    BY <1>5, <1>p, <2>1, StartStatusTyped DEF DbStart, DbOps, Registers
<1>6. CASE DbEnds
  <2>1. Code(op, Success) \in Results /\ Relative(status, Fail) \in Results
    BY <1>0, CodeTyped, RelativeTyped DEF Registers, Details
  <2> QED
    BY <1>6, <1>p, <2>1, StatusTyped DEF DbEnds, Registers
<1>7. CASE Closes
  <2>1. Code("Close", Fail) \in Results
    BY CodeTyped, OpsTypes DEF Details
  <2>2. CASE CloseStart \/ CloseSucceeds
    BY <2>2, <1>p DEF CloseStart, CloseSucceeds, Registers, Settled
  <2> QED
    BY <1>7, <1>p, <2>1, <2>2, StatusTyped, PollRegisters, FinishesRegisters
       DEF Closes, CloseFails
<1>8. CASE RenameEnds
  <2>1. Code("Rename", Success) \in Results /\ Code("Rename", Fail) \in Results
    BY CodeTyped, OpsTypes DEF Details
  <2> QED
    BY <1>8, <1>p, <2>1, StatusTyped DEF RenameEnds, Registers
<1>9. CASE Library
  <2>1. /\ Code("Enroll", Success) \in Results
        /\ Code(op, Success) \in Results /\ Code(op, Fail) \in Results
    BY <1>0, CodeTyped, OpsTypes DEF Details
  <2>2. CASE OnOpened \/ OnClosed
    BY <2>2 DEF OnOpened, OnClosed, Done, NeverDone, Registers
  <2>3. CASE OnEnrollProgress
    BY <2>3 DEF OnEnrollProgress, Registers
  <2>4. CASE OnEnrollCompleted
    BY <2>4, <2>1, StatusTyped DEF OnEnrollCompleted, Done, NeverDone, Registers
  <2>5. CASE OnCaptureCompleted
    BY <2>5 DEF OnCaptureCompleted, Done, Registers
  <2>6. ASSUME NEW match \in BOOLEAN, OnMatch(match) PROVE Registers'
    BY <2>6, <2>1 DEF OnMatch, Registers
  <2>7. ASSUME NEW match \in BOOLEAN, OnSearchMatch(match) PROVE Registers'
    BY <2>7 DEF OnSearchMatch, Registers, Settled
  <2>8. CASE OnMatchCompleted
    BY <2>8 DEF OnMatchCompleted, Done, Registers
  <2>9. CASE OnSearchCrash \/ EnrollIdles \/ EnrollDone
    BY <2>9, <1>p, StatusTyped DEF OnSearchCrash, EnrollIdles, EnrollDone, Done, Registers
  <2> QED
    BY <1>9, <2>2, <2>3, <2>4, <2>5, <2>6, <2>7, <2>8, <2>9
       DEF Library, OpCallbacks, CallbackGoesOn
<1>10. CASE Restart
  BY <1>10, <1>p, StatusTyped DEF Restart, Registers, Settled
<1>11. ASSUME NEW s \in Stoppers, StopCall(s) \/ Stopper(s) PROVE Registers'
  BY <1>11 DEF StopCall, Stopper, StopRequest, StopWait, StopReturn, Registers
<1>12. CASE UNCHANGED vars
  BY <1>12 DEF vars, Registers
<1> QED
  BY <1>1, <1>2, <1>3, <1>4, <1>5, <1>6, <1>7, <1>8, <1>9, <1>10, <1>11, <1>12
     DEF Next, Start, Worker

(* A stopper counts its waiting time up to its bound and no further. *)
LEMMA NextStops == Typed /\ [Next]_vars => stop' \in [Stoppers -> StopStates]
<1> SUFFICES ASSUME Typed, [Next]_vars PROVE stop' \in [Stoppers -> StopStates]
  OBVIOUS
<1>1. ASSUME NEW s \in Stoppers, StopCall(s) \/ Stopper(s)
      PROVE  stop' \in [Stoppers -> StopStates]
  <2>1. PICK to \in {"none", "seen", "waiting"}, time \in 0 .. MaxWait :
              StopperGoes(s, to, time)
    <3>1. CASE StopWait(s)
      <4>1. stop[s].waited \in 0 .. MaxWait
        BY DEF Typed, StopStates
      <4>2. stop[s].waited + 1 \in 0 .. MaxWait
        BY <3>1, <4>1, Bounds DEF StopWait
      <4> QED
        BY <3>1, <4>2 DEF StopWait
    <3>2. CASE StopCall(s) \/ StopRequest(s) \/ StopReturn(s)
      BY <3>2, Bounds DEF StopCall, StopRequest, StopReturn
    <3> QED
      BY <1>1, <3>1, <3>2 DEF Stopper
  <2>2. [at |-> to, waited |-> time] \in StopStates
    BY <2>1 DEF StopStates
  <2> QED
    BY <2>1, <2>2 DEF StopperGoes, Typed
<1>2. CASE Restart
  BY <1>2, NoStop DEF Restart
<1>3. CASE Start \/ Worker \/ Library \/ UNCHANGED vars
  <2>1. UNCHANGED stop
    BY <1>3 DEF Start, RenameStart, OpenStart, Worker, Opens, OpenSucceeds, OpenFails,
       Runs, StartOp, Unsupported, BadTemplate, PollReads, PollAdds, OpEnds, SearchEnds, SearchAgain, OpTimesOut, NotStopped,
       Stops, StoppedEnds, DbStart, DbEnds, Closes, CloseStart, CloseSucceeds, CloseFails,
       RenameEnds, Poll, GivesUp, Finishes, Library, OnOpened, OnClosed, OnEnrollProgress,
       OpCallbacks, OnEnrollCompleted, OnCaptureCompleted, OnMatch, OnSearchMatch,
       OnMatchCompleted, OnSearchCrash, CallbackGoesOn, EnrollIdles, EnrollDone, Done, NeverDone, vars
  <2> QED
    BY <2>1 DEF Typed
<1> QED
  BY <1>1, <1>2, <1>3 DEF Next

(* Typed is inductive. *)
LEMMA NextTyped == Typed /\ [Next]_vars => Typed'
BY NextRegisters, NextClocks, NextStops DEF Typed

(* Every variable of the device stays in its type, for every set of
   operations and stoppers and every timeout: in particular every result the
   framework computes from a status is one of its codes, and no clock and no
   waiting time runs past its bound. *)
THEOREM TypeCorrect == Spec => []TypeOK
<1>1. Spec => []Typed
  BY InitTyped, NextTyped, PTL DEF Spec
<1>2. Typed => TypeOK
  BY TypedIsTypeOK
<1> QED
  BY <1>1, <1>2, PTL

-----------------------------------------------------------------------------
(* Calls and waits.                                                         *)

(* A call of libfprint is pending only while the worker waits at its place
   with asyn_flag running: callbacks set DONE when the call is over, and the
   worker leaves the place only when it has seen DONE. *)
LEMMA NextOneCall == Typed /\ OneCallAtATime /\ [Next]_vars => OneCallAtATime'
<1> SUFFICES ASSUME Typed, OneCallAtATime, [Next]_vars PROVE OneCallAtATime'
  OBVIOUS
<1> USE DEF OneCallAtATime, devVars, flags, clocks, history
<1>0. lib \in {"none", "open", "op", "stored", "idled", "reported", "close"}
  BY DEF Typed, Registers
<1>1. CASE Start
  BY <1>1 DEF Start, RenameStart, OpenStart
<1>2. CASE Opens
  BY <1>2, <1>0 DEF Opens, OpenSucceeds, OpenFails, Poll, GivesUp, Finishes
<1>3. CASE Runs
  <2>1. CASE StartOp \/ Unsupported \/ BadTemplate
    BY <2>1, <1>0 DEF StartOp, Unsupported, BadTemplate
  <2>2. CASE PollReads \/ PollAdds \/ GivesUp("Running", "RunCancelled") \/ NotStopped \/ Stops
    BY <2>2, <1>0 DEF PollReads, PollAdds, GivesUp, NotStopped, Stops
  <2>3. CASE OpEnds
    <3>1. PICK st, res : Finishes("Running", "Close", st, res)
      BY <2>3 DEF OpEnds
    <3> QED
      BY <3>1, <1>0 DEF Finishes
  <2>4. CASE SearchEnds \/ SearchAgain \/ OpTimesOut \/ StoppedEnds
    BY <2>4, <1>0 DEF SearchEnds, SearchAgain, OpTimesOut, StoppedEnds, Finishes
  <2> QED
    BY <1>3, <2>1, <2>2, <2>3, <2>4 DEF Runs
<1>4. CASE DbStart \/ DbEnds \/ RenameEnds
  BY <1>4, <1>0 DEF DbStart, DbEnds, RenameEnds
<1>5. CASE Closes
  BY <1>5, <1>0 DEF Closes, CloseStart, CloseSucceeds, CloseFails, Poll, GivesUp, Finishes
<1>6. CASE Library
  BY <1>6, <1>0 DEF Library, OnOpened, OnClosed, OnEnrollProgress, OpCallbacks,
     OnEnrollCompleted, OnCaptureCompleted, OnMatch, OnSearchMatch, OnMatchCompleted, OnSearchCrash, CallbackGoesOn, EnrollIdles, EnrollDone,
     Done, NeverDone
<1>7. CASE Restart
  BY <1>7 DEF Restart
<1>8. ASSUME NEW s \in Stoppers, StopCall(s) \/ Stopper(s) PROVE OneCallAtATime'
  BY <1>8 DEF StopCall, Stopper, StopRequest, StopWait, StopReturn
<1>9. CASE UNCHANGED vars
  BY <1>9 DEF vars
<1> QED
  BY <1>1, <1>2, <1>3, <1>4, <1>5, <1>6, <1>7, <1>8, <1>9 DEF Next, Worker

(* The worker goes on only after the callback of its last libfprint call has
   run, and a call is pending only at the wait that belongs to it, whatever
   stop requests, timeouts and errors come in between. *)
THEOREM CallsPaired == Spec => []OneCallAtATime
<1>1. Init => Typed /\ OneCallAtATime
  BY InitTyped DEF Init, OneCallAtATime
<1>2. Typed /\ OneCallAtATime /\ [Next]_vars => (Typed /\ OneCallAtATime)'
  BY NextTyped, NextOneCall
<1> QED
  BY <1>1, <1>2, PTL DEF Spec

-----------------------------------------------------------------------------
(* The stranded worker.                                                     *)

(* Where a call is pending the worker is not stranded; it gets stranded when
   the call ends without DONE or a stop request takes a DONE back, and then
   every guard that would let it go on is false for good. *)
LEMMA NextCause ==
  Typed /\ OneCallAtATime /\ StrandedHasCause /\ [Next]_vars => StrandedHasCause'
<1> SUFFICES ASSUME Typed, OneCallAtATime, StrandedHasCause, [Next]_vars
             PROVE  StrandedHasCause'
  OBVIOUS
<1> USE DEF devVars, flags, clocks, history
<1>0. /\ asyn \in {"running", "done"}
      /\ lib # "none" => asyn = "running" /\ pc \in Waits
  BY DEF Typed, Registers, OneCallAtATime, Waits, Polling, Cancelled
<1>1. Stranded <=> lost # "no"
  BY DEF StrandedHasCause
<1>w. Waits = {"Opening", "Running", "Adding", "Slept", "Closing", "OpenCancelled", "RunCancelled",
               "RunStopped", "CloseCancelled"}
  BY DEF Waits, Polling, Cancelled
<1> SUFFICES (pc' \in Waits /\ lib' = "none" /\ asyn' = "running") <=> lost' # "no"
  BY DEF StrandedHasCause, Stranded
<1>2. CASE Start
  BY <1>2, <1>1, <1>w DEF Start, RenameStart, OpenStart, Stranded
<1>3. CASE Opens
  BY <1>3, <1>1, <1>w DEF Opens, OpenSucceeds, OpenFails, Poll, GivesUp, Finishes, Stranded
<1>4. CASE Runs
  <2>1. CASE StartOp \/ Unsupported \/ BadTemplate
    BY <2>1, <1>1, <1>w DEF StartOp, Unsupported, BadTemplate, Stranded
  <2>2. CASE PollReads \/ PollAdds \/ GivesUp("Running", "RunCancelled") \/ NotStopped \/ Stops
    BY <2>2, <1>1, <1>w DEF PollReads, PollAdds, GivesUp, NotStopped, Stops, Stranded
  <2>3. CASE OpEnds
    <3>1. PICK st, res : Finishes("Running", "Close", st, res)
      BY <2>3 DEF OpEnds
    <3> QED
      BY <3>1, <1>1, <1>w DEF Finishes, Stranded
  <2>4. CASE SearchEnds \/ SearchAgain \/ OpTimesOut \/ StoppedEnds
    BY <2>4, <1>1, <1>w DEF SearchEnds, SearchAgain, OpTimesOut, StoppedEnds, Finishes, Stranded
  <2> QED
    BY <1>4, <2>1, <2>2, <2>3, <2>4 DEF Runs
<1>5. CASE DbStart \/ DbEnds \/ RenameEnds
  BY <1>5, <1>1, <1>w DEF DbStart, DbEnds, RenameEnds, Stranded
<1>6. CASE Closes
  BY <1>6, <1>1, <1>w
     DEF Closes, CloseStart, CloseSucceeds, CloseFails, Poll, GivesUp, Finishes, Stranded
<1>7. CASE Library
  BY <1>7, <1>0, <1>1, <1>w DEF Library, OnOpened, OnClosed, OnEnrollProgress, OpCallbacks,
     OnEnrollCompleted, OnCaptureCompleted, OnMatch, OnSearchMatch, OnMatchCompleted, OnSearchCrash, CallbackGoesOn, EnrollIdles, EnrollDone,
     Done, NeverDone, Stranded
<1>8. CASE Restart
  BY <1>8, <1>w DEF Restart
<1>9. ASSUME NEW s \in Stoppers, StopCall(s) \/ Stopper(s)
      PROVE  (pc' \in Waits /\ lib' = "none" /\ asyn' = "running") <=> lost' # "no"
  BY <1>9, <1>0, <1>1 DEF StopCall, Stopper, StopRequest, StopWait, StopReturn, Stranded
<1>10. CASE UNCHANGED vars
  BY <1>10, <1>1 DEF vars, Stranded
<1> QED
  BY <1>2, <1>3, <1>4, <1>5, <1>6, <1>7, <1>8, <1>9, <1>10 DEF Next, Worker

(* The worker waits for a DONE that cannot come exactly when libfprint failed
   to open the device, failed to serialize a feature, or a stop request came
   between a DONE and the worker's look at it. *)
THEOREM StrandedForAReason == Spec => []StrandedHasCause
<1>1. Init => Typed /\ OneCallAtATime /\ StrandedHasCause
  BY InitTyped
     DEF Init, OneCallAtATime, StrandedHasCause, Stranded, Waits, Polling, Cancelled
<1>2. Typed /\ OneCallAtATime /\ StrandedHasCause /\ [Next]_vars
        => (Typed /\ OneCallAtATime /\ StrandedHasCause)'
  BY NextTyped, NextOneCall, NextCause
<1> QED
  BY <1>1, <1>2, PTL DEF Spec

-----------------------------------------------------------------------------
(* The outcome of a session.                                                *)

AtOperation == {"Running", "Adding", "Slept", "RunCancelled", "RunStopped"}

(* The callback of an enrollment goes on after the feature is stored. *)
StoredByEnroll == lib \in {"stored", "idled"} => op = "Enroll" /\ effect

(* What libfprint has answered so far is in the registers: the result says so
   for an enrollment and a comparison, found for the others, which leave the
   result of opening in place.  The callback of an enrollment writes the result
   before the status. *)
Answered ==
  /\ op = "Enroll" =>
       IF effect THEN result = Code("Enroll", Success) /\ status \in {DevIdle, StartStatus(op)}
                 ELSE result = Code("Open", Success) /\ status = StartStatus(op)
  /\ op \in {"Verify", "Identify"} =>
       /\ status = StartStatus(op)
       /\ IF effect THEN result = Code(op, Success)
                    ELSE result \in {Code("Open", Success), Code(op, Fail)}
  /\ op \in {"Capture", "Search"} =>
       /\ status = StartStatus(op)
       /\ effect = found /\ result = Code("Open", Success)

(* An operation that was stopped already has an outcome, and a late answer
   gives it another one. *)
StoppedAlready ==
  IF op \in {"Capture", "Search"} THEN effect = found /\ result = StopResult(op)
                                  ELSE result \in Outcomes(op, effect)

(* What holds at each point of the worker for its result to be right in the
   end.  AffirmedByTheLibrary speaks of the end only and is not inductive. *)
Session ==
  /\ pc = "Idle" => result \in Outcomes(op, effect) \cup {DevIdle}
  /\ pc \in {"Opening", "OpenCancelled", "Opened"} => ~ effect /\ op # "Rename"
  /\ pc = "Opened" => result = Code("Open", Success) /\ status = DevIdle
  /\ pc \in AtOperation => op \in AsyncOps
  /\ pc \in AtOperation \ {"RunStopped"} => Answered
  /\ pc = "RunStopped" => StoppedAlready
  /\ pc = "InDb" => ~ effect /\ op \in DbOps /\ (op = "Clean" => status = Doing("Clean"))
  /\ pc = "InRename" => op = "Rename"
  /\ pc \in {"Close", "Closing", "CloseCancelled"}
       => op # "Rename" /\ result \in Outcomes(op, effect)

(* The entries of the table of outcomes that sessions end with. *)
LEMMA OutcomesOfOperations ==
  ASSUME NEW o \in AsyncOps
  PROVE  /\ \A e \in BOOLEAN : Code(o, TimedOut) \in Outcomes(o, e)
         /\ \A e \in BOOLEAN : StopResult(o) \in Outcomes(o, e)
         /\ o # "Capture" => Code(o, Success) \in Outcomes(o, TRUE)
         /\ o # "Search" => Code("Open", Success) \in Outcomes(o, FALSE)
         /\ o \in {"Verify", "Identify", "Search"} => Code(o, Fail) \in Outcomes(o, FALSE)
BY DEF AsyncOps, Outcomes, EffectiveOutcomes, VainOutcomes

(* The outcomes that depend on one operation alone. *)
LEMMA OutcomesOfTheOthers ==
  /\ Code("Comm", StopByUser) \in Outcomes("Enroll", TRUE)
  /\ Code("Comm", Success) \in Outcomes("Capture", TRUE)
  /\ Code("Comm", Error) \in Outcomes("Capture", FALSE)
  /\ \A o \in DbOps \cup {"Rename"} : Code(o, Success) \in Outcomes(o, TRUE)
  /\ \A o \in {"Clean", "Rename"} : Code(o, Fail) \in Outcomes(o, FALSE)
BY DEF DbOps, Outcomes, EffectiveOutcomes, VainOutcomes

(* Opening and closing may fail in every session. *)
LEMMA OutcomesOfTheDevice ==
  \A o \in AllOps \ {"Rename"} :
     /\ Code("Open", Fail) \in Outcomes(o, FALSE)
     /\ \A e \in BOOLEAN : Code("Close", Fail) \in Outcomes(o, e)
BY DEF Outcomes

(* No outcome of an operation that did nothing is affirmative. *)
LEMMA VainIsNotAffirmative ==
  \A o \in AllOps : Affirmative \cap (Outcomes(o, FALSE) \cup {DevIdle}) = {}
<1> SUFFICES ASSUME NEW o \in AllOps, NEW r \in Affirmative,
                    r \in Outcomes(o, FALSE) \cup {DevIdle}
             PROVE  FALSE
  OBVIOUS
<1>1. r \in {200, 300, 400, 600}
  BY OpsTypes DEF Affirmative, AsyncOps, Code, Success
<1>2. CASE r = DevIdle
  BY <1>1, <1>2, OpsTypes DEF DevIdle, Code
<1>3. CASE r \in VainOutcomes(o)
  BY <1>1, <1>3, OpsTypes
     DEF AllOps, AsyncOps, DbOps, VainOutcomes, StopResult, Code, Success, Fail, StopByUser,
         TimedOut, Error
<1>4. CASE r \in {Code("Close", Fail), Code("Open", Fail)}
  BY <1>1, <1>4, OpsTypes DEF Code, Fail
<1> QED
  BY <1>2, <1>3, <1>4 DEF Outcomes

(* What a stop request makes of the statuses an operation can have. *)
LEMMA StopIsRelative ==
  \A o \in AsyncOps : Relative(StartStatus(o), StopByUser) = StopResult(o)
BY OpsTypes DEF AsyncOps, StartStatus, Doing, Relative, StopResult, Code, StopByUser

(* A clean that fails is reported relative to its own status. *)
LEMMA CleanIsRelative == Relative(Doing("Clean"), Fail) = Code("Clean", Fail)
BY OpsTypes DEF Doing, Relative, Code, Fail

(* A step that leaves the operation, its effect, its result and its status
   alone and goes to a point that asks for no more than the one before. *)
LEMMA NothingNew ==
  ASSUME Session, UNCHANGED <<op, effect, result, status, found>>,
         \/ pc' = pc
         \/ pc = "Opening" /\ pc' = "OpenCancelled"
         \/ pc \in {"Running", "Adding", "Slept"} /\ pc' \in AtOperation \ {"RunStopped"}
         \/ pc = "RunStopped" /\ pc' = pc
         \/ pc \in {"Close", "Closing"} /\ pc' \in {"Closing", "CloseCancelled"}
         \/ pc' = "Crashed"
  PROVE  Session'
BY DEF Session, Answered, StoppedAlready, AtOperation

(* The session ends its operation with an outcome. *)
LEMMA GoesToClose ==
  ASSUME pc' = "Close", op' # "Rename", result' \in Outcomes(op', effect')
  PROVE  Session'
BY DEF Session, AtOperation

(* The operation and its effect stay until the callback is over. *)
LEMMA NextStored == Typed /\ OneCallAtATime /\ StoredByEnroll /\ [Next]_vars => StoredByEnroll'
<1> SUFFICES ASSUME Typed, OneCallAtATime, StoredByEnroll, [Next]_vars PROVE StoredByEnroll'
  OBVIOUS
<1> USE DEF devVars, flags, clocks, history, StoredByEnroll
<1>1. CASE Start \/ Restart
  BY <1>1 DEF Start, RenameStart, OpenStart, Restart, OneCallAtATime
<1>2. CASE DbStart \/ DbEnds \/ RenameEnds
  BY <1>2 DEF DbStart, DbEnds, RenameEnds, OneCallAtATime
<1>3. CASE Opens \/ Runs \/ Closes
  BY <1>3 DEF Opens, OpenSucceeds, OpenFails, Runs, StartOp, Unsupported, BadTemplate,
     PollReads, PollAdds, OpEnds, SearchEnds, SearchAgain, OpTimesOut, NotStopped, Stops,
     StoppedEnds, Closes, CloseStart, CloseSucceeds, CloseFails, Poll, GivesUp, Finishes
<1>4. CASE Library
  BY <1>4 DEF Library, OnOpened, OnClosed, OnEnrollProgress, OpCallbacks,
     OnEnrollCompleted, OnCaptureCompleted, OnMatch, OnSearchMatch, OnMatchCompleted,
     OnSearchCrash, CallbackGoesOn, EnrollIdles, EnrollDone, Done, NeverDone
<1>5. ASSUME NEW s \in Stoppers, StopCall(s) \/ Stopper(s) PROVE StoredByEnroll'
  BY <1>5 DEF StopCall, Stopper, StopRequest, StopWait, StopReturn
<1>6. CASE UNCHANGED vars
  BY <1>6 DEF vars
<1> QED
  BY <1>1, <1>2, <1>3, <1>4, <1>5, <1>6 DEF Next, Worker

(* Session is inductive, given that a pending call is where it belongs. *)
LEMMA NextSession ==
  Typed /\ OneCallAtATime /\ StoredByEnroll /\ Session /\ [Next]_vars => Session'
<1> SUFFICES ASSUME Typed, OneCallAtATime, StoredByEnroll, Session, [Next]_vars
             PROVE  Session'
  OBVIOUS
<1> USE DEF devVars, flags, clocks, history
<1>0. op \in AllOps /\ effect \in BOOLEAN /\ found \in BOOLEAN
  BY DriverAssumption DEF Typed, Registers
<1>1. CASE RenameStart
  BY <1>1 DEF RenameStart, Session, AtOperation
<1>2. ASSUME NEW o \in Ops, OpenStart(o) PROVE Session'
  BY <1>2 DEF OpenStart, Session, AtOperation
<1>3. CASE Opens
  <2>1. CASE Poll("Opening") \/ GivesUp("Opening", "OpenCancelled")
    BY <2>1, NothingNew DEF Poll, GivesUp
  <2>2. CASE OpenSucceeds
    BY <2>2 DEF OpenSucceeds, Finishes, Session, AtOperation
  <2>3. CASE OpenFails
    BY <2>3, <1>0, OutcomesOfTheDevice, GoesToClose DEF OpenFails, Finishes, Session
  <2> QED
    BY <1>3, <2>1, <2>2, <2>3 DEF Opens
<1>4. CASE Runs
  <2>1. CASE StartOp
    <3>1. /\ op' = op /\ op \in AsyncOps /\ pc' = "Running" /\ status' = StartStatus(op')
          /\ effect' = FALSE /\ found' = FALSE /\ result' = Code("Open", Success)
      BY <1>0, <2>1 DEF StartOp, Session
    <3>2. Answered'
      BY <3>1 DEF Answered
    <3> QED
      BY <3>1, <3>2 DEF Session, AtOperation
  <2>2. CASE BadTemplate
    <3>1. op \in AsyncOps /\ op # "Search" /\ op # "Rename" /\ ~ effect
          /\ result = Code("Open", Success)
      BY <2>2 DEF BadTemplate, AsyncOps, Session
    <3>2. result \in Outcomes(op, effect)
      BY <1>0, <3>1, OutcomesOfOperations
    <3>3. UNCHANGED <<op, effect, result>> /\ pc' \in {"Close", "Crashed"}
      BY <2>2 DEF BadTemplate
    <3> QED
      BY <3>1, <3>2, <3>3, GoesToClose DEF Session, AtOperation
  <2>3. CASE PollReads \/ PollAdds \/ GivesUp("Running", "RunCancelled") \/ NotStopped
    BY <2>3, NothingNew DEF PollReads, PollAdds, GivesUp, NotStopped, AtOperation
  <2>4. CASE OpEnds
    <3>1. op \in AsyncOps /\ op # "Rename" /\ Answered
      BY <2>4 DEF OpEnds, Finishes, Session, AtOperation, AsyncOps
    <3>2. CASE op = "Enroll"
      <4>1. Finishes("Running", "Close", status, result)
        BY <2>4, <3>2 DEF OpEnds
      <4>2. result \in Outcomes(op, effect)
        BY <3>1, <3>2, <1>0, OutcomesOfOperations DEF Answered
      <4> QED
        BY <3>1, <4>1, <4>2, GoesToClose DEF Finishes
    <3>3. CASE op = "Capture" /\ ~ found
      <4>1. Finishes("Running", "Close", status, result)
        BY <2>4, <3>3 DEF OpEnds
      <4>2. result \in Outcomes(op, effect)
        BY <3>1, <3>3, <1>0, OutcomesOfOperations DEF Answered
      <4> QED
        BY <3>1, <4>1, <4>2, GoesToClose DEF Finishes
    <3>4. CASE op = "Capture" /\ found
      <4>1. Finishes("Running", "Close", DevIdle, Code("Comm", Success))
        BY <2>4, <3>4, RelativeToIdle DEF OpEnds
      <4>2. Code("Comm", Success) \in Outcomes(op, effect)
        BY <3>1, <3>4, <1>0, OutcomesOfTheOthers DEF Answered
      <4> QED
        BY <3>1, <4>1, <4>2, GoesToClose DEF Finishes
    <3>5. CASE op \in {"Verify", "Identify"}
      <4>1. Finishes("Running", "Close", DevIdle, result)
        BY <2>4, <3>5 DEF OpEnds
      <4>2. result \in Outcomes(op, effect)
        BY <3>1, <3>5, <1>0, OutcomesOfOperations DEF Answered
      <4> QED
        BY <3>1, <4>1, <4>2, GoesToClose DEF Finishes
    <3>6. op # "Search"
      BY <2>4 DEF OpEnds
    <3> QED
      BY <3>1, <3>2, <3>3, <3>4, <3>5, <3>6 DEF AsyncOps
  <2>5. CASE SearchEnds
    <3>1. op = "Search" /\ op \in AsyncOps /\ effect = found
      BY <2>5 DEF SearchEnds, Finishes, Session, Answered, AtOperation, AsyncOps
    <3>2. Code("Search", IF found THEN Success ELSE Fail) \in Outcomes(op, effect)
      BY <3>1, <1>0, OutcomesOfOperations
    <3> QED
      BY <2>5, <3>1, <3>2, GoesToClose DEF SearchEnds, Finishes
  <2>6. CASE SearchAgain
    BY <2>6, NothingNew DEF SearchAgain
  <2>7. CASE OpTimesOut
    <3>1. op \in AsyncOps /\ op # "Rename"
      BY <2>7 DEF OpTimesOut, Finishes, Session, AtOperation, AsyncOps
    <3>2. Code(op, TimedOut) \in Outcomes(op, effect)
      BY <3>1, <1>0, OutcomesOfOperations
    <3> QED
      BY <2>7, <3>1, <3>2, GoesToClose DEF OpTimesOut, Finishes
  <2>8. CASE Stops
    <3>1. op \in AsyncOps /\ Answered
      BY <2>8 DEF Stops, Session, AtOperation
    <3>2. result' = Relative(status, StopByUser) /\ UNCHANGED <<op, effect, found>>
          /\ pc' = "RunStopped"
      BY <2>8 DEF Stops
    <3>3. CASE op = "Enroll" /\ effect
      <4>1. result' \in {Code("Comm", StopByUser), StopResult(op)}
        BY <3>1, <3>2, <3>3, RelativeToIdle, StopIsRelative DEF Answered
      <4>2. StoppedAlready'
        BY <1>0, <3>1, <3>2, <3>3, <4>1, OutcomesOfTheOthers, OutcomesOfOperations
           DEF StoppedAlready
      <4> QED
        BY <3>1, <3>2, <4>2 DEF Session, AtOperation
    <3>4. CASE ~ (op = "Enroll" /\ effect)
      <4>1. status = StartStatus(op)
        BY <3>1, <3>4 DEF Answered, AsyncOps
      <4>2. result' = StopResult(op)
        BY <3>1, <3>2, <4>1, StopIsRelative
      <4>3. StopResult(op) \in Outcomes(op, effect)
        BY <3>1, <3>4, <1>0, OutcomesOfOperations
      <4>4. op \in {"Capture", "Search"} => effect = found
        BY <3>1 DEF Answered
      <4>5. StoppedAlready'
        BY <3>2, <4>2, <4>3, <4>4 DEF StoppedAlready
      <4> QED
        BY <3>1, <3>2, <4>5 DEF Session, AtOperation
    <3> QED
      BY <3>3, <3>4
  <2>9. CASE StoppedEnds
    <3>1. op \in AsyncOps /\ op # "Rename" /\ StoppedAlready
      BY <2>9 DEF StoppedEnds, Finishes, Session, AtOperation, AsyncOps
    <3>2. result \in Outcomes(op, effect)
      BY <3>1, <1>0, OutcomesOfOperations DEF StoppedAlready
    <3> QED
      BY <2>9, <3>1, <3>2, GoesToClose DEF StoppedEnds, Finishes
  <2>10. CASE Unsupported
    <3>1. op = "Capture" /\ ~ effect /\ status = DevIdle
      BY <2>10 DEF Unsupported, Session
    <3>2. result' = Code("Comm", Error) /\ UNCHANGED <<op, effect>> /\ pc' = "Close"
      BY <2>10, <3>1, RelativeToIdle DEF Unsupported
    <3>3. result' \in Outcomes(op', effect')
      BY <1>0, <3>1, <3>2, OutcomesOfTheOthers
    <3> QED
      BY <3>1, <3>2, <3>3, GoesToClose
  <2> QED
    BY <1>4, <2>1, <2>2, <2>3, <2>4, <2>5, <2>6, <2>7, <2>8, <2>9, <2>10 DEF Runs
<1>5. CASE DbStart
  BY <1>5 DEF DbStart, Session, AtOperation
<1>6. CASE DbEnds
  <2>1. /\ op \in DbOps /\ op # "Rename" /\ ~ effect /\ op' = op /\ pc' = "Close"
        /\ op = "Clean" => status = Doing("Clean")
    BY <1>6 DEF DbEnds, Session, DbOps
  <2>2. result' \in Outcomes(op, effect')
    <3>1. CASE effect' = TRUE /\ result' = Code(op, Success)
      BY <2>1, <3>1, OutcomesOfTheOthers
    <3>2. CASE op = "Clean" /\ result' = Relative(status, Fail) /\ effect' = effect
      BY <2>1, <3>2, <1>0, CleanIsRelative, OutcomesOfTheOthers
    <3> QED
      BY <1>6, <3>1, <3>2 DEF DbEnds
  <2> QED
    BY <2>1, <2>2, GoesToClose
<1>7. CASE Closes
  <2>1. CASE CloseStart \/ Poll("Closing") \/ GivesUp("Closing", "CloseCancelled")
    BY <2>1, NothingNew DEF CloseStart, Poll, GivesUp
  <2>2. CASE CloseSucceeds
    BY <2>2 DEF CloseSucceeds, Session, AtOperation
  <2>3. CASE CloseFails
    BY <2>3, <1>0, OutcomesOfTheDevice DEF CloseFails, Finishes, Session, AtOperation
  <2> QED
    BY <1>7, <2>1, <2>2, <2>3 DEF Closes
<1>8. CASE RenameEnds
  <2>1. op = "Rename" /\ op' = op /\ pc' = "Idle" /\ effect' \in BOOLEAN
        /\ result' = Code("Rename", IF effect' THEN Success ELSE Fail)
    BY <1>8 DEF RenameEnds, Session
  <2>2. result' \in Outcomes(op, effect')
    BY <2>1, OutcomesOfTheOthers
  <2> QED
    BY <2>1, <2>2 DEF Session, AtOperation
<1>9. CASE Library
  <2>1. lib = "op" => pc \in AtOperation
    BY DEF OneCallAtATime, AtOperation
  <2>2. ASSUME pc \in AtOperation, UNCHANGED <<pc, op>>,
               pc # "RunStopped" => Answered', pc = "RunStopped" => StoppedAlready'
        PROVE  Session'
    BY <2>2 DEF Session, AtOperation
  <2>3. CASE OnOpened \/ OnClosed \/ OnEnrollProgress \/ OnMatchCompleted \/ OnSearchCrash
             \/ EnrollDone
    BY <2>3, NothingNew
       DEF OnOpened, OnClosed, OnEnrollProgress, OnMatchCompleted, OnSearchCrash, EnrollDone,
           Done, NeverDone
  <2>4. CASE OnEnrollCompleted
    <3>1. CASE UNCHANGED <<pc, op, effect, result, status, found>>
      BY <3>1, NothingNew
    <3>2. CASE /\ op = "Enroll" /\ pc \in AtOperation /\ UNCHANGED <<pc, op, status>>
               /\ result' = Code("Enroll", Success) /\ effect' = TRUE
      <4>1. result' \in Outcomes(op', effect')
        BY <3>2, OutcomesOfOperations DEF AsyncOps
      <4>2. pc # "RunStopped" => status \in {DevIdle, StartStatus(op)}
        BY <3>2 DEF Session, Answered
      <4> QED
        BY <3>2, <4>1, <4>2, <2>2 DEF Answered, StoppedAlready
    <3> QED
      BY <2>1, <2>4, <3>1, <3>2 DEF OnEnrollCompleted, Done, NeverDone
  <2>5. CASE OnCaptureCompleted
    <3>1. /\ op = "Capture" /\ pc \in AtOperation /\ effect' = found'
          /\ UNCHANGED <<pc, op, result, status>>
      BY <2>1, <2>5 DEF OnCaptureCompleted, Done
    <3> QED
      BY <3>1, <2>2 DEF Session, Answered, StoppedAlready, AtOperation
  <2>6. ASSUME NEW match \in BOOLEAN, OnMatch(match) PROVE Session'
    <3>1. /\ op \in {"Verify", "Identify"} /\ pc \in AtOperation /\ UNCHANGED <<pc, op, status>>
          /\ result' = Code(op, IF match THEN Success ELSE Fail) /\ effect' = match
      BY <2>1, <2>6 DEF OnMatch
    <3>2. result' \in Outcomes(op', effect')
      BY <3>1, OutcomesOfOperations DEF AsyncOps
    <3> QED
      BY <3>1, <3>2, <2>2 DEF Session, Answered, StoppedAlready, AtOperation
  <2>7. ASSUME NEW match \in BOOLEAN, OnSearchMatch(match) PROVE Session'
    <3>1. /\ op = "Search" /\ pc \in AtOperation /\ effect' = found'
          /\ UNCHANGED <<pc, op, result, status>>
      BY <2>1, <2>7 DEF OnSearchMatch
    <3> QED
      BY <3>1, <2>2 DEF Session, Answered, StoppedAlready, AtOperation
  <2>8. CASE EnrollIdles
    <3>1. /\ op = "Enroll" /\ effect /\ pc \in AtOperation
          /\ UNCHANGED <<pc, op, effect, result, found>> /\ status' = DevIdle
      BY <2>8 DEF EnrollIdles, StoredByEnroll, OneCallAtATime, AtOperation
    <3> QED
      BY <3>1, <2>2 DEF Session, Answered, StoppedAlready
  <2> QED
    BY <1>9, <2>3, <2>4, <2>5, <2>6, <2>7, <2>8 DEF Library, OpCallbacks, CallbackGoesOn
<1>10. CASE Restart
  BY <1>10 DEF Restart, Session, AtOperation
<1>11. ASSUME NEW s \in Stoppers, StopCall(s) \/ Stopper(s) PROVE Session'
  BY <1>11, NothingNew DEF StopCall, Stopper, StopRequest, StopWait, StopReturn
<1>12. CASE UNCHANGED vars
  BY <1>12, NothingNew DEF vars
<1> QED
  BY <1>1, <1>2, <1>3, <1>4, <1>5, <1>6, <1>7, <1>8, <1>9, <1>10, <1>11, <1>12
     DEF Next, Start, Worker

(* A device that has just been configured has run no session. *)
LEMMA InitSession == Init => Session
BY DEF Init, Session, AtOperation

(* The invariant the results of a session rest on. *)
LEMMA SessionHolds == Spec => [](Typed /\ OneCallAtATime /\ StoredByEnroll /\ Session)
<1>1. Init => Typed /\ OneCallAtATime /\ StoredByEnroll /\ Session
  BY InitTyped, InitSession DEF Init, OneCallAtATime, StoredByEnroll
<1>2. Typed /\ OneCallAtATime /\ StoredByEnroll /\ Session /\ [Next]_vars
        => (Typed /\ OneCallAtATime /\ StoredByEnroll /\ Session)'
  BY NextTyped, NextOneCall, NextStored, NextSession
<1> QED
  BY <1>1, <1>2, PTL DEF Spec

(* An affirmative result at the end of a session is the answer libfprint gave
   in this session, in every interleaving of callbacks, timeouts and stop
   requests, for any number of stoppers and any timeout. *)
THEOREM AffirmedRight == Spec => []AffirmedByTheLibrary
<1>1. Typed /\ Session => AffirmedByTheLibrary
  <2> SUFFICES ASSUME Typed, Session, pc = "Idle", result \in Affirmative, ~ effect
               PROVE  FALSE
    BY DEF AffirmedByTheLibrary
  <2>1. op \in AllOps /\ effect = FALSE
    BY DriverAssumption DEF Typed, Registers
  <2>2. result \in Outcomes(op, FALSE) \cup {DevIdle}
    BY <2>1 DEF Session
  <2> QED
    BY <2>1, <2>2, VainIsNotAffirmative
<1> QED
  BY <1>1, SessionHolds, PTL

-----------------------------------------------------------------------------
(* The session is a step of the contract.                                   *)

(* The contract means the same codes by its names. *)
LEMMA ContractOutcomes ==
  \A o, e : Contract!Outcomes(o, e) = Outcomes(o, e)
BY DEF Contract!Outcomes, Outcomes, Contract!EffectiveOutcomes, EffectiveOutcomes,
       Contract!VainOutcomes, VainOutcomes, Contract!StopResult, StopResult,
       Contract!Code, Code, Contract!OpsType, OpsType,
       Contract!Success, Success, Contract!Fail, Fail, Contract!StopByUser, StopByUser,
       Contract!TimedOut, TimedOut, Contract!Error, Error

(* It starts with the same result as the driver. *)
LEMMA ContractIdle == Contract!DevIdle = DevIdle
BY DEF Contract!DevIdle, DevIdle, Contract!Code, Code, Contract!OpsType, OpsType

(* A step in the middle of a session or between two sessions is not seen. *)
LEMMA Unseen ==
  ASSUME (pc = "Idle") <=> (pc' = "Idle"), op' = op,
         pc = "Idle" => UNCHANGED <<effect, result>>
  PROVE  UNCHANGED Contract!vars
BY DEF Contract!vars

(* A session begins. *)
LEMMA Begins ==
  ASSUME NEW o \in Ops, pc = "Idle", pc' # "Idle", op' = o
  PROVE  Contract!Next
BY DEF Contract!Next, Contract!Begin

(* A session ends with one of the outcomes of its operation. *)
LEMMA Ends ==
  ASSUME pc # "Idle", pc' = "Idle", op' = op, effect' \in BOOLEAN,
         result' \in Outcomes(op, effect')
  PROVE  Contract!Next
BY ContractOutcomes DEF Contract!Next, Contract!End

(* A step of the driver is a step of the contract or unseen. *)
LEMMA Simulates ==
  Typed /\ OneCallAtATime /\ Session /\ [Next]_vars => [Contract!Next]_(Contract!vars)
<1> SUFFICES ASSUME Typed, OneCallAtATime, Session, [Next]_vars
             PROVE  Contract!Next \/ UNCHANGED Contract!vars
  OBVIOUS
<1> USE DEF devVars, flags, clocks, history
<1>0. op \in Ops /\ op \in AllOps /\ effect \in BOOLEAN
  BY DriverAssumption DEF Typed, Registers
<1>1. CASE Start
  BY <1>1, Begins DEF Start, RenameStart, OpenStart
<1>2. CASE CloseSucceeds
  BY <1>0, <1>2, Ends DEF CloseSucceeds, Session
<1>3. CASE CloseFails
  BY <1>0, <1>3, Ends, OutcomesOfTheDevice DEF CloseFails, Finishes, Session
<1>4. CASE RenameEnds
  <2>1. op = "Rename" /\ op' = op /\ pc # "Idle" /\ pc' = "Idle" /\ effect' \in BOOLEAN
        /\ result' = Code("Rename", IF effect' THEN Success ELSE Fail)
    BY <1>4 DEF RenameEnds, Session
  <2>2. result' \in Outcomes(op, effect')
    BY <2>1, OutcomesOfTheOthers
  <2> QED
    BY <2>1, <2>2, Ends
<1>5. CASE Restart
  BY <1>5, ContractIdle DEF Restart, Contract!Next, Contract!Reset
<1>6. CASE Opens \/ Runs \/ DbStart \/ DbEnds
  BY <1>6, Unseen DEF Opens, OpenSucceeds, OpenFails, Runs, StartOp, Unsupported, BadTemplate, PollReads, PollAdds, OpEnds,
     SearchEnds, SearchAgain, OpTimesOut, NotStopped, Stops, StoppedEnds, DbStart, DbEnds,
     Poll, GivesUp, Finishes
<1>7. CASE CloseStart \/ Poll("Closing") \/ GivesUp("Closing", "CloseCancelled")
  BY <1>7, Unseen DEF CloseStart, Poll, GivesUp
<1>8. CASE Library
  <2>1. lib # "none"
    BY <1>8 DEF Library, OnOpened, OnClosed, OnEnrollProgress, OpCallbacks,
       OnEnrollCompleted, OnCaptureCompleted, OnMatch, OnSearchMatch, OnMatchCompleted, OnSearchCrash, CallbackGoesOn, EnrollIdles, EnrollDone
  <2>2. pc # "Idle"
    BY <2>1 DEF OneCallAtATime
  <2>3. pc' \in {pc, "Crashed"} /\ op' = op
    BY <1>8 DEF Library, OnOpened, OnClosed, OnEnrollProgress, OpCallbacks,
       OnEnrollCompleted, OnCaptureCompleted, OnMatch, OnSearchMatch, OnMatchCompleted, OnSearchCrash, CallbackGoesOn, EnrollIdles, EnrollDone,
       Done, NeverDone
  <2> QED
    BY <2>2, <2>3, Unseen
<1>9. ASSUME NEW s \in Stoppers, StopCall(s) \/ Stopper(s) PROVE UNCHANGED Contract!vars
  BY <1>9, Unseen DEF StopCall, Stopper, StopRequest, StopWait, StopReturn
<1>10. CASE UNCHANGED vars
  BY <1>10, Unseen DEF vars
<1> QED
  BY <1>1, <1>2, <1>3, <1>4, <1>5, <1>6, <1>7, <1>8, <1>9, <1>10 DEF Next, Worker, Closes

(* The driver implements DeviceContract: whatever interleaves with a session,
   it ends with an outcome the contract lists for its operation, one that fits
   what the operation did. *)
THEOREM DriverImplementsContract == Spec => ImplementsContract
<1>1. Init => Contract!Init
  BY ContractIdle DEF Init, Contract!Init
<1>2. Typed /\ OneCallAtATime /\ Session /\ [Next]_vars => [Contract!Next]_(Contract!vars)
  BY Simulates
<1> QED
  BY <1>1, <1>2, SessionHolds, PTL DEF Spec, ImplementsContract, Contract!Spec

-----------------------------------------------------------------------------
(* The clock of an operation.                                               *)

Timed == {"Running", "Adding", "Slept"}

(* While an operation runs, timeused is never ahead of the silence it is to
   measure, and neither is the value of timeused the worker is about to add
   to, unless a press has been undone.  This is not so while the device is
   opened and closed. *)
ClockIsHonest ==
  ~ undone =>
    /\ pc \in Timed => timeused <= waited
    /\ pc = "Adding" => seen <= waited

(* No step puts timeused ahead. *)
LEMMA NextClock == Typed /\ ClockIsHonest /\ [Next]_vars => ClockIsHonest'
<1> SUFFICES ASSUME Typed, ClockIsHonest, [Next]_vars, ~ undone', pc' \in Timed
             PROVE  timeused' <= waited' /\ (pc' = "Adding" => seen' <= waited')
  BY DEF ClockIsHonest, Timed
<1> USE DEF devVars, flags, clocks, history, Timed
<1>0. /\ timeused \in Nat /\ waited \in Nat /\ TimeoutTicks \in Nat /\ seen \in Nat
      /\ seen <= TimeoutTicks
  BY Bounds DEF Typed, Clocks
<1>1. \/ timeused' = 0 /\ waited' = 0 /\ pc' # "Adding"
      \/ /\ pc = "Running" /\ pc' = "Adding" /\ seen' = timeused
         /\ UNCHANGED <<timeused, waited, undone>>
      \/ /\ pc = "Adding" /\ pc' = "Slept" /\ timeused' = seen + 1 /\ undone' = undone
         /\ waited' = IF waited > TimeoutTicks THEN waited ELSE waited + 1
      \/ UNCHANGED <<timeused, seen, waited, undone, pc>> /\ pc \in Timed
      \/ /\ UNCHANGED <<timeused, seen, waited, undone>>
         /\ pc \in {"Running", "Slept"} /\ pc' # "Adding"
  <2>1. CASE Opens \/ DbStart \/ DbEnds \/ Closes \/ RenameEnds
    BY <2>1 DEF Opens, OpenSucceeds, OpenFails, DbStart, DbEnds,
       Closes, CloseStart, CloseSucceeds, CloseFails, RenameEnds, Poll, GivesUp, Finishes
  <2>2. CASE Runs
    BY <2>2 DEF Runs, StartOp, Unsupported, BadTemplate, PollReads, PollAdds, Silence, OpEnds,
       SearchEnds, SearchAgain, OpTimesOut, NotStopped, Stops, StoppedEnds, GivesUp, Finishes
  <2>3. CASE Start \/ Restart
    BY <2>3 DEF Start, RenameStart, OpenStart, Restart
  <2>4. CASE Library
    BY <2>4 DEF Library, OnOpened, OnClosed, OnEnrollProgress, OpCallbacks,
       OnEnrollCompleted, OnCaptureCompleted, OnMatch, OnSearchMatch, OnMatchCompleted,
       OnSearchCrash, CallbackGoesOn, EnrollIdles, EnrollDone, Done, NeverDone
  <2>5. ASSUME NEW s \in Stoppers, StopCall(s) \/ Stopper(s)
        PROVE  UNCHANGED <<timeused, seen, waited, undone, pc>>
    BY <2>5 DEF StopCall, Stopper, StopRequest, StopWait, StopReturn
  <2>6. CASE UNCHANGED vars
    BY <2>6 DEF vars
  <2> QED
    BY <2>1, <2>2, <2>3, <2>4, <2>5, <2>6 DEF Next, Worker
<1>2. CASE UNCHANGED undone
  <2>1. /\ pc \in Timed => timeused <= waited
        /\ pc = "Adding" => seen <= waited
    BY <1>2 DEF ClockIsHonest
  <2> QED
    BY <1>0, <1>1, <2>1
<1>3. CASE ~ UNCHANGED undone
  <2>1. timeused' = 0 /\ waited' = 0 /\ pc' # "Adding"
    BY <1>1, <1>3
  <2> QED
    BY <2>1
<1> QED
  BY <1>2, <1>3

(* An operation is given up for lack of time only after a silence of the whole
   timeout, for every timeout and number of presses, or when the last press
   fell into the worker's addition to the clock. *)
THEOREM SilenceBeforeTimeout == Spec => TimesOutOnlyAfterSilence
<1>1. Init => Typed /\ ClockIsHonest
  BY InitTyped DEF Init, ClockIsHonest
<1>2. Typed /\ ClockIsHonest /\ [Next]_vars => (Typed /\ ClockIsHonest)'
  BY NextTyped, NextClock
<1>3. Typed /\ ClockIsHonest /\ [Next]_vars
        => [pc # "RunCancelled" /\ pc' = "RunCancelled" => waited > TimeoutTicks \/ undone]_vars
  <2> SUFFICES ASSUME Typed, ClockIsHonest, Next, pc # "RunCancelled", pc' = "RunCancelled",
                      ~ undone
               PROVE  waited > TimeoutTicks
    OBVIOUS
  <2>1. GivesUp("Running", "RunCancelled")
    BY DEF Next, Start, RenameStart, OpenStart, Worker, Opens, OpenSucceeds, OpenFails,
       Runs, StartOp, Unsupported, BadTemplate, PollReads, PollAdds, OpEnds, SearchEnds, SearchAgain, OpTimesOut, NotStopped,
       Stops, StoppedEnds, DbStart, DbEnds, Closes, CloseStart, CloseSucceeds, CloseFails,
       RenameEnds, Poll, GivesUp, Finishes, Library, OnOpened, OnClosed, OnEnrollProgress,
       OpCallbacks, OnEnrollCompleted, OnCaptureCompleted, OnMatch, OnSearchMatch,
       OnMatchCompleted, OnSearchCrash, CallbackGoesOn, EnrollIdles, EnrollDone, Done, NeverDone, Restart, Stopper, StopCall, StopRequest,
       StopWait, StopReturn
  <2>2. timeused > TimeoutTicks /\ timeused <= waited
    BY <2>1 DEF GivesUp, ClockIsHonest, Timed
  <2>3. timeused \in Nat /\ waited \in Nat /\ TimeoutTicks \in Nat
    BY Bounds DEF Typed, Clocks
  <2> QED
    BY <2>2, <2>3
<1> QED
  BY <1>1, <1>2, <1>3, PTL DEF Spec, TimesOutOnlyAfterSilence
=============================================================================
