------------------------------ MODULE MCCouncil ------------------------------
(* The history of announcements, with the small sets of MCRollupVerifier. *)
EXTENDS MCRollupVerifier, Announcements
=============================================================================
