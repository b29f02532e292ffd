---------------------------- MODULE MCBioStorage ----------------------------
(* BioStorage with values for its constants.                                *)
EXTENDS BioStorage, TLC

CONSTANTS d1, d2

(* Strings in the order of their first characters: the default UUID begins
   with 0123, the UUIDs of users begin with any hexadecimal digits. *)
MCDefault == 2

(* The devices differ in nothing but their names. *)
DeviceSymmetry == Permutations(Drivers)

OneUser  == [u \in {1} |-> {1}]
TwoUsers == [u \in {1, 2} |-> IF u = 1 THEN {3} ELSE {1}]
=============================================================================
