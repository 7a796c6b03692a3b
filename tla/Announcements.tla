---------------------------- MODULE Announcements ----------------------------
(***************************************************************************)
(* RollupVerifier with the rounds at which the pending verifier and the    *)
(* pending program were announced.                                         *)
(***************************************************************************)
EXTENDS RollupVerifier

VARIABLES verifierAnnounced, programAnnounced

announcements == <<verifierAnnounced, programAnnounced>>

RememberAnnouncements ==
  /\ verifierAnnounced' =
       IF pendingVerifier' \notin {pendingVerifier, None} THEN round
       ELSE verifierAnnounced
  /\ programAnnounced' =
       IF pendingApprovalProgramHash' \notin {pendingApprovalProgramHash, None}
       THEN round ELSE programAnnounced

CouncilSpec ==
  /\ Init /\ verifierAnnounced = 0 /\ programAnnounced = 0
  /\ [][Next /\ RememberAnnouncements]_<<vars, announcements>>

(* A verifier or a program comes into force only after it, and not some
   other one it replaced, has been public for the whole delay, and never in
   an escaped rollup. *)
UpdatesWereAnnounced ==
  [][/\ verifier' # verifier =>
          round >= verifierAnnounced + updateDelay /\ ~escaped
     /\ program' # program =>
          round >= programAnnounced + updateDelay /\ ~escaped
    ]_<<vars, announcements>>
=============================================================================
