------------------------------ MODULE Watchdog ------------------------------
(***************************************************************************)
(* RollupVerifier with the history of an accusation: when it was made,     *)
(* what was discharged since, and whether a deadline ever lapsed.  The     *)
(* history is read by the properties only.                                 *)
(***************************************************************************)
EXTENDS RollupVerifier

VARIABLES signalledAt, discharged, lapsed

history == <<signalledAt, discharged, lapsed>>

PayoutsLeft(chain) == IF chain = None THEN 0 ELSE Len(chain)

Remember ==
  /\ signalledAt' =
       IF escapeDeadline = None /\ escapeDeadline' # None THEN round
       ELSE IF escapeDeadline' = None THEN 0 ELSE signalledAt
  /\ discharged' =
       IF escapeDeadline = None \/ escapeDeadline' = None THEN 0
       ELSE discharged + (settledInboxCursor' - settledInboxCursor)
              + (IF PayoutsLeft(pendingWithdrawals')
                      < PayoutsLeft(pendingWithdrawals) THEN 1 ELSE 0)
  /\ lapsed' = (lapsed \/ DeadlinePassed')

WatchdogSpec ==
  /\ Init /\ signalledAt = 0 /\ discharged = 0 /\ lapsed = FALSE
  /\ [][Next /\ Remember]_<<vars, history>>

(* A grace window is bought by a full tranche of inbox entries consumed and
   payouts made since the signal, and by nothing else: the sequencer cannot
   keep an accusation from falling due without the work being done.  (Payouts
   by others are counted too, though creditEscapeProgress never sees them.) *)
ExtensionsAreEarned ==
  escapeDeadline # None =>
    escapeDeadline <= signalledAt
      + escapeGrace * (1 + discharged \div ESCAPE_PROGRESS_TRANCHE)

(* "Once the deadline has passed no settlement can race executeEscape"
   (verifyBatch): after a lapse nothing settles any more. *)
LapseIsFinal ==
  [][lapsed => UNCHANGED <<stateRoot, settledInboxCursor>>]_<<vars, history>>
=============================================================================
