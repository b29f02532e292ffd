-------------------------- MODULE MCCommunityDriver --------------------------
(* CommunityDriver with values for its constants. *)
EXTENDS CommunityDriver

MCOps == AllOps
=============================================================================
