----------------------------- MODULE MCWatchdog -----------------------------
(* The history of accusations, with the small sets of MCRollupVerifier. *)
EXTENDS MCRollupVerifier, Watchdog
=============================================================================
