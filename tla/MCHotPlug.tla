----------------------------- MODULE MCHotPlug -----------------------------
(* HotPlug with values for its constants: two readers of one kind, and one   *)
(* of another.                                                              *)
EXTENDS HotPlug

CONSTANTS r1, r2, r3, a, b

MCKind == r1 :> a @@ r2 :> a @@ r3 :> b
=============================================================================
