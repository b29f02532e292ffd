--------------------------- MODULE DeviceContract ---------------------------
(***************************************************************************)
(* What a biometric device promises to the service, seen from outside: it  *)
(* is free or busy with one operation, and when the operation ends the     *)
(* result register of the device holds one of the outcomes the operation   *)
(* can have, and an outcome that fits what the operation did.  While the   *)
(* device is busy the register promises nothing (bio_get_ops_result may    *)
(* return any intermediate code), so it is hidden.                         *)
(***************************************************************************)
EXTENDS BioStatus

CONSTANTS Ops,      \* the operations that are called
          Hidden    \* the value of the registers while the device is busy

VARIABLES phase,    \* "free" or "busy"
          current,  \* the operation the device runs, or ran last
          effect,   \* did it do what it was called for
          result    \* its outcome

vars == <<phase, current, effect, result>>

Init == /\ phase = "free"
        /\ current \in Ops
        /\ effect = FALSE
        /\ result = DevIdle

Begin(o) == /\ phase = "free"
            /\ phase' = "busy"
            /\ current' = o
            /\ effect' = Hidden /\ result' = Hidden

End == /\ phase = "busy"
       /\ phase' = "free"
       /\ effect' \in BOOLEAN
       /\ result' \in Outcomes(current, effect')
       /\ UNCHANGED current

(* The daemon crashes and is started again: the registers start over. *)
Reset == /\ phase = "busy"
         /\ phase' = "free"
         /\ effect' = FALSE /\ result' = DevIdle
         /\ UNCHANGED current

Next == (\E o \in Ops : Begin(o)) \/ End \/ Reset

Spec == Init /\ [][Next]_vars
=============================================================================
