-------------------------- MODULE MCRollupVerifier --------------------------
(* RollupVerifier with small sets for its constants, and its progress. *)
EXTENDS RollupVerifier, TLC

CONSTANTS a, m, u, c, app, v0, v1, p0, p1, b0, b1

SchemesOfOne == (a :> "edd")
SchemesOfTwo == (a :> "edd") @@ (m :> "man")
SchemesWithHybrid == (a :> "edd") @@ (m :> "f1h")

(* "Permanently freeze the rollup so every user can use the existing escape
   paths immediately" (securityCouncilEscape): after an escape, whoever holds
   the key of an account worth more than its exit record can exit it. *)
EveryHolderCanExit ==
  escaped =>
    \A x \in Addresses :
      SchemeOf[x] # "none" /\ stateRoot[x].amount > EXIT_MBR
        => x \in DOMAIN exits \/ Exitable(x, stateRoot[x])

-----------------------------------------------------------------------------
(* Progress.  The inbox fills in round 0 and time then passes, but never past
   a round in which someone could signal or execute an escape: watchers act
   within the round.  Fairness is assumed only of permissionless calls, which
   every depositor, recipient and holder has an interest in making; nothing
   is assumed of the sequencer or the council. *)
WatchersAreDone == ~ENABLED signalEscape /\ ~ENABLED executeEscape

LiveTick == Tick /\ WatchersAreDone

LiveNext == Next /\ (inboxCursor' # inboxCursor => round = 0)
                 /\ (round' # round => WatchersAreDone)

DrainByAnyone == Drain /\ UNCHANGED escapeProgress

LiveSpec ==
  /\ Init /\ [][LiveNext]_vars
  /\ WF_vars(LiveTick) /\ WF_vars(signalEscape) /\ WF_vars(executeEscape)
  /\ WF_vars(DrainByAnyone)
  /\ \A i \in 0..(MaxInbox - 1) :
       WF_vars(i \in DOMAIN inbox /\ reclaimDeposit(i))
  /\ \A x \in Addresses : WF_vars(forceExit(x, stateRoot[x], u))

(* A deposit the app took in is credited by a settled batch or refunded,
   whatever the sequencer does or stops doing. *)
DepositNeverStranded ==
  \A i \in 0..(MaxInbox - 1) :
    (i \in DOMAIN inbox /\ inbox[i].kind = "d")
      ~> (i < settledInboxCursor \/ i \notin DOMAIN inbox)

(* The watchdog answers for requests as for deposits: every entry of the inbox
   is taken up by a settled batch, or the rollup escapes and its account can be
   exited; a sequencer that settles around a request, extends its deadline by
   other work or goes silent does not keep it waiting for ever. *)
EntryNeverIgnored ==
  \A i \in 0..(MaxInbox - 1) :
    i < inboxCursor ~> (i < settledInboxCursor \/ escaped)

(* Payouts a batch committed are all made, with or without the sequencer and
   across an escape. *)
PayoutsDrain == pendingWithdrawals # None ~> pendingWithdrawals = None

(* After an escape every ed25519 account worth its exit record gets out. *)
BalanceNeverStranded ==
  \A x \in Addresses :
    (escaped /\ SchemeOf[x] = "edd" /\ stateRoot[x].amount > EXIT_MBR)
      ~> x \in DOMAIN exits
=============================================================================
