---------------------------- MODULE SwapExecution ----------------------------
(***************************************************************************)
(* One wallet's execution of one countersigned swap: the handlers of       *)
(* hns-wallet-market/src/lib.rs and hns-wallet-mobile/src/market.rs that   *)
(* turn chain observations into evidence for the session of module         *)
(* SwapSession, the encrypted rows they save, and the chain runtimes that  *)
(* consume the single-use second-funding authorization.                    *)
(*                                                                         *)
(* A store transaction is one step.  A handler that saves twice under one  *)
(* store lock takes one step per save, with `lock' naming what it still    *)
(* has to do; a crash may fall between them and keeps the saved rows only. *)
(* Chain reads happen outside the lock, between taking an observation      *)
(* permit and applying it.  Expiry of a permit or an authorization is the  *)
(* permit or guard never being used.  The signed locators the handlers     *)
(* also keep for the counterparty (retain_local_funding_status_in_store)   *)
(* are rows of the session board, which no guard here reads.               *)
(***************************************************************************)
EXTENDS SwapSession, FiniteSets

CONSTANTS
    SpendEvidence,   \* evidence of the second lock and of the spends
    MaxUnscoped,     \* bound on the revision at which legacy refreshes stop
    MaxCrashes       \* bound on process crashes

ASSUME SpendAssumption == SpendEvidence \subseteq Evidence
ASSUME BoundAssumption == MaxUnscoped \in Nat /\ MaxCrashes \in Nat

VARIABLES
    role,        \* "maker" funds the first chain, "taker" the second
    revision,    \* the workflow row's revision
    row,         \* the SwapFundingAuthorization entity, or None
    preimage,    \* whether the observed preimage is stored
    window,      \* the countersigned funding window is still open
    permits,     \* outstanding first-chain observations, in memory
    guards,      \* broadcast guards handed to the chain runtime, in memory
    flow,        \* a second-funding request between its two lock sections
    lock,        \* what the handler holding the store lock still has to save
    broadcasts,  \* second-chain fundings made recoverably broadcastable
    crashes,
    chain,       \* the first lock the first chain confirms, or None
    seen         \* every value of chain since the last observation began

store == <<session, revision, row, preimage, broadcasts>>
memory == <<permits, guards, flow, lock>>
world == <<window, chain, seen, crashes, role>>
xvars == <<session, role, revision, row, preimage, window, permits, guards,
           flow, lock, broadcasts, crashes, chain, seen>>

Permit == [generation : Nat \ {0}, read : BOOLEAN, lock : Evidence \cup {None}]
Guard == [execution : Nat \ {0}, entity : Nat \ {0}]
Row == [authorization : Authorization, execution : Nat \ {0}, issued : Nat \ {0},
        entity : Nat \ {0}]
Pending == {"none", "funding_ready", "second_confirmed", "issue", "redemption",
            "secret", "completion"}

Consumed(r) == r.entity # r.issued

-----------------------------------------------------------------------------
(* WalletStoreJournal::save: the workflow row and the authorization row    *)
(* move in one transaction, for the session in session'.                   *)

\* validate_previous_second_funding_authorization
PreviousRowValid ==
    Some(row) =>
        /\ row.issued # 0
        /\ row.entity \in {row.issued, row.issued + 1}
        /\ IF Consumed(row) THEN row.execution <= revision
                            ELSE row.execution = revision

\* Variant: the first row is numbered as if none had to be written.
IssuedRowFromZero ==
    LET next == IF Some(row) THEN row.entity + 1 ELSE 0
    IN  [authorization |-> session'.authorization,
         execution |-> revision + 1, issued |-> next, entity |-> next]

IssuedRow ==
    LET next == IF Some(row) THEN row.entity + 1 ELSE 1
    IN  [authorization |-> session'.authorization,
         execution |-> revision + 1, issued |-> next, entity |-> next]

\* Variant: clears the authorization row whether or not it was consumed.
SaveDroppingTombstone ==
    /\ PreviousRowValid
    /\ revision' = revision + 1
    /\ row' = IF Some(session'.authorization) THEN IssuedRow ELSE None

\* Variant: leaves a revoked authorization row in place.
SaveKeepingRow ==
    /\ PreviousRowValid
    /\ revision' = revision + 1
    /\ row' = IF Some(session'.authorization) THEN IssuedRow ELSE row

Save ==
    /\ PreviousRowValid
    /\ revision' = revision + 1
    /\ IF Some(session'.authorization)
       THEN /\ Some(row) => ~Consumed(row)
            /\ row' = IssuedRow
       ELSE row' = IF Some(row) /\ (~Consumed(row) \/ Some(session'.second_funding))
                   THEN None ELSE row

\* A handler that runs alone, saves once and holds no memory afterwards.
OneSave ==
    /\ lock = "none"
    /\ Save
    /\ UNCHANGED <<memory, world, preimage, broadcasts>>

\* The first of two saves, and the last.
ThenSave(next) ==
    /\ lock = "none"
    /\ Save
    /\ lock' = next
    /\ UNCHANGED <<permits, guards, flow, world, preimage, broadcasts>>

LastSave(pending) ==
    /\ lock = pending
    /\ Save
    /\ lock' = "none"
    /\ UNCHANGED <<permits, guards, flow, world, preimage, broadcasts>>

-----------------------------------------------------------------------------
(* Before funding *)

\* authorize_local_{btc,hns}_first_funding for the maker, who must still be in
\* the window; the counterparty watch of the taker crosses the same points.
PrepareFunding ==
    /\ role = "maker" => window
    /\ \/ RefundsValidated /\ ThenSave("funding_ready")
       \/ FundingReady /\ OneSave

FinishPreparation == FundingReady /\ LastSave("funding_ready")

\* reconcile_direct_offer_lifecycle: time alone fails an execution that
\* granted no funding, and the taker's while the first lock is unknown.
FailExpired ==
    /\ ~window
    /\ \/ session.state \in {"TermsFrozen", "RefundsPrepared"}
       \/ /\ role = "taker"
          /\ session.state = "FirstFundingPending"
          /\ ~Some(session.first_funding)
    /\ TerminalFailure("prefunding")
    /\ OneSave

\* fail_expired_local_{hns,bitcoin}_first_funding: the maker needs a proof that
\* its lock was absent when its chain was asked, which may be some time ago.
FailUnfunded ==
    /\ role = "maker"
    /\ ~window
    /\ session.state = "FirstFundingPending"
    /\ ~Some(session.first_funding)
    /\ TerminalFailure("prefunding")
    /\ OneSave

CloseWindow ==
    /\ window
    /\ window' = FALSE
    /\ UNCHANGED <<store, memory, role, chain, seen, crashes>>

-----------------------------------------------------------------------------
(* Observing the first chain *)

MoveFirstChain ==
    /\ chain' \in (Evidence \cup {None}) \ {chain}
    /\ seen' = seen \cup {chain'}
    /\ UNCHANGED <<store, memory, role, window, crashes>>

\* begin_shakescape_first_funding_observation
BeginObservation ==
    /\ lock = "none"
    /\ FirstFundingObservationStarted
    /\ Save
    /\ permits' = permits \cup
          {[generation |-> session'.generation, read |-> FALSE, lock |-> None]}
    /\ seen' = {chain}
    /\ UNCHANGED <<guards, flow, lock, role, window, chain, crashes, preimage,
                   broadcasts>>

ReadFirstChain(p) ==
    /\ ~p.read
    /\ permits' = (permits \ {p}) \cup
          {[p EXCEPT !.read = TRUE, !.lock = chain]}
    /\ UNCHANGED <<store, guards, flow, lock, world>>

\* invalidate_first_funding_if_unconfirmed returns early on these sessions.
Revocable(s) ==
    /\ s.state \in FundedStates
    /\ ~s.first_funding_revoked
    /\ Some(s.first_funding)
    /\ ~FundedModuleIsSettled(s, "first")

\* reconcile_local_{bitcoin,hns}_funding: a permit is consumed whatever the
\* outcome, and a result of an older generation changes nothing.
ApplyObservation(p) ==
    /\ p.read
    /\ lock = "none"
    /\ permits' = permits \ {p}
    /\ UNCHANGED <<guards, flow, lock, world, preimage, broadcasts>>
    /\ \/ /\ Some(p.lock)
          /\ FirstFundingConfirmedAtGeneration(p.lock, p.generation)
          /\ Save
       \/ /\ ~Some(p.lock)
          /\ Revocable(session)
          /\ session.generation = p.generation
          /\ FirstFundingInvalidated(session.first_funding)
          /\ Save
       \/ /\ \/ session.generation # p.generation
             \/ Some(p.lock) /\ FirstSettled(session)
             \/ ~Some(p.lock) /\ ~Revocable(session)
          /\ UNCHANGED <<session, revision, row>>

\* apply_locally_verified_shakescape_funding for the first chain: the
\* compatibility path, refused once an observation was ever begun.
ApplyUnscopedFunding(e) ==
    /\ session.generation = 0
    /\ revision < MaxUnscoped
    /\ FirstFundingConfirmed(e)
    /\ OneSave

-----------------------------------------------------------------------------
(* Funding the second chain *)

\* authorize_local_{btc,hns}_second_funding.  First section: the fresh proof.
RequestSecondFunding(p) ==
    /\ role = "taker"
    /\ ~flow
    /\ lock = "none"
    /\ p.read /\ Some(p.lock)
    /\ FirstFundingConfirmedAtGeneration(p.lock, p.generation)
    /\ Save
    /\ permits' = permits \ {p}
    /\ flow' = TRUE
    /\ UNCHANGED <<guards, lock, world, preimage, broadcasts>>

CanAuthorize == session.state \in {"FirstFunded", "SecondFundingPending"} /\ window

\* issue_shakescape_second_funding_authorization, then the broadcast guard.
IssueAuthorization ==
    /\ session.generation # 0
    /\ SecondFundingAuthorizationIssued(
          [first_funding |-> session.first_funding,
           generation |-> session.generation])
    /\ Save
    /\ guards' = guards \cup
          {[execution |-> row'.execution, entity |-> row'.entity]}

\* Second section, entered after the lock was free for others.
AuthorizeSecondFunding ==
    /\ flow
    /\ lock = "none"
    /\ UNCHANGED <<permits, world, preimage, broadcasts>>
    /\ \/ /\ CanAuthorize
          /\ SecondFundingReady
          /\ Save
          /\ lock' = "issue"
          /\ UNCHANGED <<guards, flow>>
       \/ /\ CanAuthorize
          /\ IssueAuthorization
          /\ flow' = FALSE
          /\ UNCHANGED lock
       \/ /\ ~CanAuthorize
          /\ flow' = FALSE
          /\ UNCHANGED <<session, revision, row, guards, lock>>

FinishAuthorization ==
    /\ lock = "issue"
    /\ lock' = "none"
    /\ flow' = FALSE
    /\ IssueAuthorization
    /\ UNCHANGED <<permits, world, preimage, broadcasts>>

\* The issue is refused: the proof is no longer current, or the row was
\* already consumed.
CannotIssue ==
    \/ ~FirstFundingIsCurrent(session)
    \/ Some(session.second_funding)
    \/ Some(row) /\ Consumed(row)

RefuseAuthorization ==
    /\ flow
    /\ \/ lock = "issue"
       \/ lock = "none" /\ CanAuthorize /\ session.state = "SecondFundingPending"
    /\ CannotIssue
    /\ lock' = "none"
    /\ flow' = FALSE
    /\ UNCHANGED <<store, permits, guards, world>>

\* The chain runtime journals the signed funding: one transaction that asserts
\* the execution revision and consumes the authorization row.  The guard
\* stays in memory and may be presented again.
CommitSecondFunding(g) ==
    /\ lock = "none"
    /\ revision = g.execution
    /\ Some(row) /\ row.entity = g.entity
    /\ row' = [row EXCEPT !.entity = @ + 1]
    /\ broadcasts' = broadcasts + 1
    /\ UNCHANGED <<session, revision, preimage, memory, world>>

\* The second lock is verified.  The taker's own lock can only be one it made
\* broadcastable; the maker may find the taker's at any time.
ApplySecondFunding(e) ==
    /\ role = "taker" => broadcasts > 0
    /\ \/ SecondFundingConfirmed(e) /\ OneSave
       \/ SecondFundingReady /\ ThenSave("second_confirmed")

FinishSecondFunding(e) == SecondFundingConfirmed(e) /\ LastSave("second_confirmed")

-----------------------------------------------------------------------------
(* Settlement *)

\* Variant: a settled lock always leaves the queue.
SpendPendingUntilSettled(s, module) ==
    /\ IF module = "first" THEN Some(s.first_funding) ELSE Some(s.second_funding)
    /\ ~FundedModuleIsSettled(s, module)

\* pending_hns_spend_verifications and pending_bitcoin_spend_sessions: the
\* locks whose spends the wallet still looks for.
SpendPending(s, module) ==
    /\ IF module = "first" THEN Some(s.first_funding) ELSE Some(s.second_funding)
    /\ \/ ~FundedModuleIsSettled(s, module)
       \/ s.state = "FirstRedeemed" /\ module = "second"

\* Variant: records the reveal first and leaves the preimage for later.
StorePreimageLater ==
    /\ lock = "none"
    /\ SpendPending(session, "second")
    /\ ~Some(session.second_refund)
    /\ session.state \in {"BothFunded", "RefundEligible"}
    /\ ~Some(session.first_redemption)
    /\ lock' = "redemption"
    /\ UNCHANGED <<store, permits, guards, flow, world>>

\* apply_locally_verified_shakescape_first_redemption: the preimage is stored
\* in a transaction of its own before the redemption, then the secret.
StorePreimage ==
    /\ lock = "none"
    /\ SpendPending(session, "second")
    /\ ~Some(session.second_refund)
    /\ session.state \in {"BothFunded", "RefundEligible"}
    /\ ~Some(session.first_redemption)
    /\ preimage' = TRUE
    /\ lock' = "redemption"
    /\ UNCHANGED <<session, revision, row, broadcasts, permits, guards, flow,
                   world>>

RecordFirstRedemption(e) ==
    /\ lock = "redemption"
    /\ FirstRedemptionConfirmed(e)
    /\ Save
    /\ lock' = "secret"
    /\ UNCHANGED <<permits, guards, flow, world, preimage, broadcasts>>

RecordSecret == SecretExtracted /\ LastSave("secret")

\* The same handler, called again for a session a crash left at FirstRedeemed.
ResumeFirstRedemption ==
    /\ SpendPending(session, "second")
    /\ preimage
    /\ SecretExtracted
    /\ OneSave

\* apply_locally_verified_shakescape_second_redemption
ApplySecondRedemption(e) ==
    /\ SpendPending(session, "first")
    /\ preimage
    /\ SecondRedemptionConfirmed(e)
    /\ ThenSave("completion")

RecordCompletion == CompletionValidated /\ LastSave("completion")

\* Variant: closes the session without recording the refund.
ApplyRefundUnrecorded(module, e) ==
    /\ SpendPending(session, module)
    /\ Negotiated(session.state, "Refunded")
    /\ OneSave

\* apply_locally_verified_shakescape_refund
ApplyRefund(module, e) ==
    /\ SpendPending(session, module)
    /\ ChainRefundConfirmed(module, e)
    /\ OneSave

-----------------------------------------------------------------------------
\* The process stops; everything outside the database is lost.
Crash ==
    /\ crashes < MaxCrashes
    /\ crashes' = crashes + 1
    /\ lock' = "none" /\ flow' = FALSE /\ permits' = {} /\ guards' = {}
    /\ UNCHANGED <<store, role, window, chain, seen>>

ExecInit ==
    /\ session = NewSession("TermsFrozen")
    /\ role \in {"maker", "taker"}
    /\ revision = 1 /\ row = None /\ preimage = FALSE /\ broadcasts = 0
    /\ permits = {} /\ guards = {} /\ flow = FALSE /\ lock = "none"
    /\ window = TRUE /\ chain = None /\ seen = {None} /\ crashes = 0

Observe ==
    \/ BeginObservation
    \/ \E p \in permits : ReadFirstChain(p) \/ ApplyObservation(p)
    \/ \E e \in Evidence : ApplyUnscopedFunding(e)

FundSecond ==
    \/ \E p \in permits : RequestSecondFunding(p)
    \/ AuthorizeSecondFunding \/ FinishAuthorization \/ RefuseAuthorization
    \/ \E g \in guards : CommitSecondFunding(g)
    \/ \E e \in SpendEvidence : ApplySecondFunding(e) \/ FinishSecondFunding(e)

Settle ==
    \/ StorePreimage \/ RecordSecret \/ ResumeFirstRedemption
    \/ \E e \in SpendEvidence :
          RecordFirstRedemption(e) \/ ApplySecondRedemption(e)
    \/ RecordCompletion
    \/ \E e \in SpendEvidence, m \in {"first", "second"} : ApplyRefund(m, e)

ExecNext ==
    \/ PrepareFunding \/ FinishPreparation \/ FailExpired \/ FailUnfunded
    \/ CloseWindow \/ MoveFirstChain
    \/ Observe
    \/ FundSecond
    \/ Settle
    \/ Crash

ExecSpec == ExecInit /\ [][ExecNext]_xvars

\* A handler that took the store lock goes on to its last save unless the
\* process dies, and the host keeps polling the spend queue.
Handlers ==
    \/ FinishPreparation \/ FinishAuthorization \/ RefuseAuthorization
    \/ \E e \in SpendEvidence : FinishSecondFunding(e) \/ RecordFirstRedemption(e)
    \/ RecordSecret \/ RecordCompletion

PollSpends ==
    \/ ResumeFirstRedemption
    \/ \E e \in SpendEvidence : ApplySecondRedemption(e)

FairExecSpec ==
    /\ ExecSpec
    /\ WF_xvars(Handlers)
    /\ WF_xvars(PollSpends)

-----------------------------------------------------------------------------
(* Properties *)

\* Types of the rows, the memory and the environment; a revision or generation
\* that a row, a guard or a permit names is never 0, which means none.
ExecTypeOK ==
    /\ session \in Session
    /\ role \in {"maker", "taker"}
    /\ revision \in Nat
    /\ row \in Row \cup {None}
    /\ {preimage, window, flow} \subseteq BOOLEAN
    /\ permits \subseteq Permit
    /\ guards \subseteq Guard
    /\ lock \in Pending
    /\ broadcasts \in Nat /\ crashes \in Nat
    /\ chain \in Evidence \cup {None}
    /\ seen \subseteq Evidence \cup {None}

\* Every saved step of the execution is a step of the session machine that
\* SwapSession specifies, so what is proved of that machine holds of every
\* execution the handlers can produce.
ImplementsSession == Spec

\* However often proofs are refreshed, revoked and renewed, and whatever
\* guards survive in memory, one execution makes at most one second-chain
\* funding broadcastable: the consumed row is the tombstone that stops the
\* journal from issuing again.
FundSecondOnce == broadcasts <= 1

\* The second chain is funded only on a first lock that was on its chain at
\* some moment after the newest observation began, and whose proof nothing
\* has revoked: a result of an older read never moves value.
FundedOnCurrentProof ==
    [][broadcasts' # broadcasts =>
         /\ FirstFundingIsCurrent(session)
         /\ session.state = "SecondFundingPending"
         /\ session.generation > 0
         /\ session.first_funding \in seen]_xvars

\* The authorization row and the session never disagree: an unconsumed row is
\* the session's authorization at the current revision, and the check the
\* journal makes before every save can therefore never wedge the execution.
RowMatchesSession ==
    /\ PreviousRowValid
    /\ Some(session.authorization) => Some(row)
    /\ Some(row) /\ ~Consumed(row) => session.authorization = row.authorization

\* After a funding may be on the second chain, the first lock's evidence is
\* never forgotten and the session never falls back before that point.
FundingIsRemembered ==
    broadcasts > 0 =>
        /\ Some(session.first_funding)
        /\ session.state \notin {"TermsFrozen", "RefundsPrepared",
                                 "FirstFundingPending", "FirstFunded"}

\* A recorded reveal always has its preimage in the store, at every point a
\* crash can strike, so the taker can claim the first lock after a restart.
RevealKeepsPreimage ==
    Some(session.first_redemption) => preimage

\* An execution that a crash leaves between the reveal and the extracted
\* secret is picked up again by the spend queue.
RevealIsResumed ==
    session.state = "FirstRedeemed" ~> session.state # "FirstRedeemed"

\* swap_has_active_obligation: whether the execution still holds one of the
\* sixteen slots and stays in the recovery queues.
ActiveObligation(s) ==
    ~ \/ s.state = "Completed"
      \/ s.state = "Refunded" /\ AllFundedLegsSettled(s)
      \/ s.state = "Failed" /\ ~Some(s.first_funding) /\ ~Some(s.second_funding)

\* "Later states may have an unobserved broadcast and are deliberately never
\* expired" (market.rs): an execution whose own funding may be on the second
\* chain is not closed before that lock was recorded.
BroadcastKeepsObligation ==
    broadcasts > 0 /\ ~Some(session.second_funding) => ActiveObligation(session)

\* "restart-safe execution journal" (direct_responder.rs): a swap whose second
\* redemption is recorded is eventually recorded as completed.
RedeemedSwapCompletes ==
    session.state = "SecondRedeemed" ~> session.state = "Completed"

=============================================================================
