---------------------------- MODULE MCOrgInvites ----------------------------
(* Instances of OrgInvites for TLC. *)
EXTENDS OrgInvites
=============================================================================
