------------------------------ MODULE BioStatus ------------------------------
(***************************************************************************)
(* The status and result codes of src/src/lib/biometric_common.h and the   *)
(* two ways the framework writes a result: absolutely, or relative to the  *)
(* type of the operation the device status names.                          *)
(*                                                                         *)
(* A code is 100 * (operation type) + (detail).  A device status is 0 when *)
(* the device is idle and 100 * type + 1 while an operation of that type   *)
(* is in progress; a result carries the detail of how it ended.            *)
(***************************************************************************)
EXTENDS Integers

(* The operations a caller can start on a device. *)
AsyncOps == {"Enroll", "Verify", "Identify", "Capture", "Search"}
DbOps    == {"Clean", "GetFlist"}
AllOps   == AsyncOps \cup DbOps \cup {"Rename"}

(* BioOpsType: the hundreds digit of every code. *)
OpsType == [ Comm |-> 0, Open |-> 1, Enroll |-> 2, Verify |-> 3,
             Identify |-> 4, Capture |-> 5, Search |-> 6, Clean |-> 7,
             GetFlist |-> 8, Rename |-> 9, Close |-> 10 ]

(* OpsResult: the last two digits of a result. *)
Success    == 0     \* also MATCH
Fail       == 1     \* also NO_MATCH
Error      == 2
StopByUser == 3
TimedOut   == 4

Code(type, detail) == OpsType[type] * 100 + detail

(* DevStatus: what bio_get_dev_status reports. *)
DevIdle     == Code("Comm", 0)
Doing(type) == Code(type, 1)

(* The result bio_set_ops_result stores: the type comes from the status the
   device has at that moment, only the detail from the argument. *)
Relative(devStatus, code) == (devStatus \div 100) * 100 + (code % 100)

(* What a D-Bus handler looks at in a stored result. *)
Detail(result) == result % 100

(* The results that tell the caller that the user was recognised, or that a
   feature was stored. *)
Affirmative == { Code(o, Success) : o \in AsyncOps \ {"Capture"} }

-----------------------------------------------------------------------------
(* What a whole session of an operation, from ops_open to ops_close, can     *)
(* leave in the result register of a community driver, depending on whether *)
(* the operation took effect: libfprint stored, matched or captured the     *)
(* finger, a list was returned, or no statement on the database failed.     *)
(* The codes are not always the ones their names suggest.                   *)

(* The result of an operation stopped by the user is relative to the device
   status, and Identify and Search do not write a status of their own type. *)
StopResult(o) == IF o \in {"Identify", "Search"} THEN Code("Comm", StopByUser)
                 ELSE Code(o, StopByUser)

(* An enrollment may complete and store the feature just before a stop request
   or the timeout is noticed.  What the stop leaves depends on whether the
   device is idle already. *)
EffectiveOutcomes(o) ==
  CASE o = "Enroll"  -> { Code(o, Success), Code(o, TimedOut), StopResult(o),
                          Code("Comm", StopByUser) }
    [] o = "Capture" -> { Code("Comm", Success), Code(o, TimedOut), StopResult(o) }
    [] o \in {"Verify", "Identify", "Search"}
                     -> { Code(o, Success), Code(o, TimedOut), StopResult(o) }
    [] OTHER         -> { Code(o, Success) }

(* When libfprint ends an operation with an error nothing is written: the
   register still says that the device was opened.  A driver without
   ops_capture leaves a common error. *)
VainOutcomes(o) ==
  CASE o = "Enroll"  -> { Code("Open", Success), Code(o, TimedOut), StopResult(o) }
    [] o = "Capture" -> { Code("Open", Success), Code("Comm", Error), Code(o, TimedOut),
                          StopResult(o) }
    [] o \in {"Verify", "Identify"}
                     -> { Code("Open", Success), Code(o, Fail), Code(o, TimedOut),
                          StopResult(o) }
    [] o = "Search"  -> { Code(o, Fail), Code(o, TimedOut), StopResult(o) }
    [] o = "GetFlist" -> {}
    [] OTHER         -> { Code(o, Fail) }

(* All but Rename open and close the device, and either may give up. *)
Outcomes(o, effect) ==
  (IF effect THEN EffectiveOutcomes(o) ELSE VainOutcomes(o))
  \cup { c \in { Code("Close", Fail) } : o # "Rename" }
  \cup { c \in { Code("Open", Fail) } : o # "Rename" /\ ~ effect }
=============================================================================
