---------------------------- MODULE MCBioService ----------------------------
(* BioService with values for its constants.  The driver `old` is not loaded  *)
(* any more and has only left a row in the database.                         *)
EXTENDS BioService

CONSTANTS d1, old

OneDriver == <<d1>>

Ask(kind, d, i) == [kind |-> kind, drv |-> d, uid |-> 1, idx |-> i]

(* Every way a handler deals with a request. *)
MixedCalls ==
  { Ask("Enroll", d1, AnyIdx), Ask("Enroll", d1, 0), Ask("Verify", d1, 0),
    Ask("Clean", d1, 0), Ask("Clean", All, 0), Ask("Rename", d1, 0),
    Ask("GetFlist", d1, 0) }

(* The requests of the runs that show a promise not kept. *)
VerifyCalls == { Ask("Verify", d1, 0) }
EnrollCalls == { Ask("Enroll", d1, AnyIdx) }

(* The database is empty, or every driver has left one row. *)
MCRows == { {}, { [drv |-> d, uid |-> 1, idx |-> 0] : d \in Drivers } }

MCInit == rows \in MCRows /\ Init

MCSpec == MCInit /\ [][Next]_vars /\ Fairness
=============================================================================
