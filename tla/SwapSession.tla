----------------------------- MODULE SwapSession -----------------------------
(***************************************************************************)
(* The durable swap session of crates/hns-wallet-market/src/lib.rs: the    *)
(* state machine SwapSession::transition as driven by verified evidence    *)
(* that may arrive in any order and any number of times.  Every action is  *)
(* one kind of VerifiedEvidence; evidence the match rejects is an action   *)
(* that is not enabled.  Which handler produces which evidence, and what   *)
(* is saved with it, is the subject of module SwapExecution.               *)
(*                                                                         *)
(* The record keeps the fields that transition() reads or writes.  Modules *)
(* are named by their place in the agreed order: the "first" chain carries *)
(* the maker's lock, the "second" chain the taker's.  The clock            *)
(* (last_verified_at_unix) and the immutable terms are left out.           *)
(***************************************************************************)
EXTENDS Naturals

CONSTANTS
    Evidence,        \* hashes of locally verified chain facts
    None,            \* the absent value of an Option
    MaxGeneration    \* bound on first_funding_observation_generation

ASSUME NoneAssumption == None \notin Evidence /\ None \notin Nat
ASSUME GenerationAssumption == MaxGeneration \in Nat

VARIABLE session

vars == <<session>>

Reasons == {"prefunding", "other"}

SwapState ==
    {"OfferPublished", "OfferAcceptanceReceived", "OfferReserved",
     "TermsFrozen", "RefundsPrepared", "FirstFundingPending", "FirstFunded",
     "SecondFundingPending", "BothFunded", "FirstRedeemed", "SecretObserved",
     "SecondRedeemed", "Completed", "RefundEligible", "RefundBroadcast",
     "Refunded", "Failed"}

Authorization == [first_funding : Evidence, generation : Nat]

Session ==
    [state : SwapState,
     first_funding : Evidence \cup {None},
     first_funding_revoked : BOOLEAN,
     generation : Nat,
     confirmed : Nat \cup {None},
     authorization : Authorization \cup {None},
     second_funding : Evidence \cup {None},
     first_redemption : Evidence \cup {None},
     second_redemption : Evidence \cup {None},
     refund : Evidence \cup {None},
     first_refund : Evidence \cup {None},
     second_refund : Evidence \cup {None},
     failure_reason : Reasons \cup {None}]

\* SwapSession::new
NewSession(state) ==
    [state |-> state,
     first_funding |-> None, first_funding_revoked |-> FALSE,
     generation |-> 0, confirmed |-> None, authorization |-> None,
     second_funding |-> None, first_redemption |-> None,
     second_redemption |-> None, refund |-> None, first_refund |-> None,
     second_refund |-> None, failure_reason |-> None]

-----------------------------------------------------------------------------
(* Predicates of the session *)

Some(x) == x # None

FirstFundingIsCurrent(s) ==
    /\ Some(s.first_funding)
    /\ ~s.first_funding_revoked
    /\ s.generation = 0 \/ s.confirmed = s.generation

FirstSettled(s) == Some(s.first_refund) \/ Some(s.second_redemption)
SecondSettled(s) == Some(s.second_refund) \/ Some(s.first_redemption)

FundedModuleIsSettled(s, module) ==
    IF module = "first" THEN Some(s.first_funding) /\ FirstSettled(s)
                        ELSE Some(s.second_funding) /\ SecondSettled(s)

AllFundedLegsSettled(s) ==
    /\ Some(s.first_funding) \/ Some(s.second_funding)
    /\ Some(s.first_funding) => FirstSettled(s)
    /\ Some(s.second_funding) => SecondSettled(s)

CanRefundModule(s, module) ==
    IF module = "first" THEN FirstFundingIsCurrent(s) /\ ~FirstSettled(s)
                        ELSE Some(s.second_funding) /\ ~SecondSettled(s)

\* Variant: does not ask whether the lock was spent already.
CanRecordAnyRefund(s, module) ==
    IF module = "first" THEN Some(s.first_funding) ELSE Some(s.second_funding)

CanRecordRefund(s, module) ==
    IF module = "first" THEN Some(s.first_funding) /\ ~FirstSettled(s)
                        ELSE Some(s.second_funding) /\ ~SecondSettled(s)

\* A timeout recorded before any lock was seen, the only recoverable failure.
PrefundingFailure(s) ==
    /\ s.state = "Failed"
    /\ s.second_funding = None
    /\ s.failure_reason = "prefunding"

\* The states in which a lock on the first chain is known and unsettled work
\* may remain.
FundedStates ==
    {"FirstFunded", "SecondFundingPending", "BothFunded", "FirstRedeemed",
     "SecretObserved", "RefundEligible", "RefundBroadcast", "Refunded",
     "Failed"}

-----------------------------------------------------------------------------
(* The transition function, one action per kind of evidence.  Move is its  *)
(* common tail: any state but SecondFundingPending drops the authorization.*)

Move(s, next) ==
    session' = [s EXCEPT !.state = next,
                         !.authorization =
                            IF next = "SecondFundingPending" THEN @ ELSE None]

Negotiated(from, next) ==
    /\ session.state = from
    /\ Move(session, next)

OfferAcceptanceValidated ==
    Negotiated("OfferPublished", "OfferAcceptanceReceived")
OfferReserved == Negotiated("OfferAcceptanceReceived", "OfferReserved")
TermsApproved == Negotiated("OfferReserved", "TermsFrozen")
RefundsValidated == Negotiated("TermsFrozen", "RefundsPrepared")
FundingReady == Negotiated("RefundsPrepared", "FirstFundingPending")
SecondFundingReady == Negotiated("FirstFunded", "SecondFundingPending")
CompletionValidated == Negotiated("SecondRedeemed", "Completed")

CanObserveFirstFunding(s) ==
    /\ s.state \in FundedStates \cup {"FirstFundingPending"}
    /\ \/ s.state = "FirstFundingPending"
       \/ Some(s.first_funding)
       \/ PrefundingFailure(s)
    /\ ~FirstSettled(s)

\* Variant: leaves the older proof in force.
ObservationStartedKeepingProof ==
    /\ CanObserveFirstFunding(session)
    /\ session.generation < MaxGeneration
    /\ Move([session EXCEPT !.generation = @ + 1, !.authorization = None],
            session.state)

FirstFundingObservationStarted ==
    /\ CanObserveFirstFunding(session)
    /\ session.generation < MaxGeneration
    /\ Move([session EXCEPT !.generation = @ + 1,
                            !.confirmed = None,
                            !.authorization = None], session.state)

\* What every confirmation of the first lock writes.
Confirmed(s, e, g) ==
    [s EXCEPT !.first_funding = e,
              !.first_funding_revoked = FALSE,
              !.confirmed = g,
              !.authorization = None]

\* A refresh reopens a session that had been closed as Refunded or Failed.
Reopened(state) == IF state \in {"Refunded", "Failed"} THEN "RefundEligible"
                                                       ELSE state

FirstFundingConfirmed(e) ==
    \/ /\ session.state = "FirstFundingPending"
       /\ Move(Confirmed(session, e, None), "FirstFunded")
    \/ /\ PrefundingFailure(session)
       /\ session.first_funding = None
       /\ Move([Confirmed(session, e, None) EXCEPT !.failure_reason = None],
               "FirstFunded")
    \/ /\ session.state \in FundedStates
       /\ Some(session.first_funding)
       /\ ~session.first_funding_revoked
       /\ session.second_funding = None
       /\ Move(Confirmed(session, e, None), Reopened(session.state))

\* Variant: accepts the result of any read as the newest one.
FirstFundingConfirmedAtAnyGeneration(e, g) ==
    /\ session.state \in FundedStates \cup {"FirstFundingPending"}
    /\ ~FirstSettled(session)
    /\ Move(Confirmed(session, e, session.generation),
            IF session.state = "FirstFundingPending" THEN "FirstFunded"
            ELSE Reopened(session.state))

FirstFundingConfirmedAtGeneration(e, g) ==
    /\ session.generation = g
    /\ \/ /\ session.state = "FirstFundingPending"
          /\ ~FirstSettled(session)
          /\ Move(Confirmed(session, e, g), "FirstFunded")
       \/ /\ PrefundingFailure(session)
          /\ session.first_funding = None
          /\ Move([Confirmed(session, e, g) EXCEPT !.failure_reason = None],
                  "FirstFunded")
       \/ /\ session.state \in FundedStates
          /\ ~(PrefundingFailure(session) /\ session.first_funding = None)
          /\ ~FirstSettled(session)
          /\ Move(Confirmed(session, e, g), Reopened(session.state))

AuthorizationCurrent(s) ==
    Some(s.authorization) =>
        /\ s.state = "SecondFundingPending"
        /\ s.first_funding = s.authorization.first_funding
        /\ ~s.first_funding_revoked
        /\ s.generation = s.authorization.generation
        /\ s.confirmed = s.authorization.generation
        /\ s.second_funding = None

SecondFundingAuthorizationIssued(a) ==
    /\ session.state = "SecondFundingPending"
    /\ session.first_funding = a.first_funding
    /\ ~session.first_funding_revoked
    /\ session.second_funding = None
    /\ session.generation = a.generation
    /\ session.confirmed = a.generation
    /\ Move([session EXCEPT !.authorization = a], "SecondFundingPending")

\* Variant: treats every later state as FirstFunded is treated.
FirstFundingForgotten(e) ==
    /\ Some(session.first_funding)
    /\ session.first_funding = e
    /\ session.state \in FundedStates
    /\ Move([session EXCEPT !.first_funding = None,
                            !.first_funding_revoked = FALSE,
                            !.confirmed = None], "FirstFundingPending")

FirstFundingInvalidated(e) ==
    /\ Some(session.first_funding)
    /\ session.first_funding = e
    /\ \/ /\ session.state = "FirstFunded"
          /\ session.second_funding = None
          /\ Move([session EXCEPT !.first_funding = None,
                                  !.first_funding_revoked = FALSE,
                                  !.confirmed = None], "FirstFundingPending")
       \/ /\ session.state \in FundedStates \ {"FirstFunded"}
          /\ ~FirstSettled(session)
          /\ Move([session EXCEPT !.first_funding_revoked = TRUE,
                                  !.confirmed = None,
                                  !.authorization = None],
                  IF session.state = "Refunded" THEN "RefundEligible"
                                                ELSE session.state)

SecondFundingConfirmed(e) ==
    /\ session.state = "SecondFundingPending"
    /\ Move([session EXCEPT !.second_funding = e], "BothFunded")

FirstRedemptionConfirmed(e) ==
    /\ session.state \in {"BothFunded", "RefundEligible"}
    /\ Some(session.second_funding)
    /\ ~SecondSettled(session)
    /\ Move([session EXCEPT !.first_redemption = e], "FirstRedeemed")

SecretExtracted ==
    /\ session.state = "FirstRedeemed"
    /\ Move(session, IF AllFundedLegsSettled(session) THEN "Refunded"
                                                      ELSE "SecretObserved")

SecondRedemptionConfirmed(e) ==
    /\ session.state = "SecretObserved"
    /\ Move([session EXCEPT !.second_redemption = e], "SecondRedeemed")

RefundEligibilityValidated ==
    /\ session.state \in {"FirstFunded", "SecondFundingPending"}
    /\ Some(session.first_funding)
    /\ session.second_funding = None
    /\ Move(session, "RefundEligible")

RefundBroadcast(e) ==
    /\ session.state = "RefundEligible"
    /\ Move([session EXCEPT !.refund = e], "RefundBroadcast")

RefundConfirmed(e) ==
    /\ session.state = "RefundBroadcast"
    /\ session.refund = e
    /\ Some(session.first_funding)
    /\ session.second_funding = None
    /\ Move([session EXCEPT !.first_refund = e], "Refunded")

\* Variant: the refund of either lock is taken for one of the first.
RefundingFirst(s, module, e) == [s EXCEPT !.first_refund = e, !.refund = e]

Refunding(s, module, e) ==
    IF module = "first"
    THEN [s EXCEPT !.first_refund = e, !.refund = e]
    ELSE [s EXCEPT !.second_refund = e, !.refund = e]

\* Variant: one refund closes the whole session.
ChainRefundClosesSession(module, e) ==
    /\ session.state \in FundedStates
    /\ CanRecordRefund(session, module)
    /\ Move(Refunding(session, module, e), "Refunded")

ChainRefundConfirmed(module, e) ==
    /\ session.state \in FundedStates
    /\ CanRecordRefund(session, module)
    /\ LET s == Refunding(session, module, e)
       IN  Move(s, IF AllFundedLegsSettled(s) THEN "Refunded"
                                              ELSE "RefundEligible")

TerminalFailure(reason) ==
    /\ session.state \notin {"Completed", "Refunded"}
    /\ Move([session EXCEPT !.failure_reason = reason], "Failed")

-----------------------------------------------------------------------------
\* SwapSession::new, and the session built from a countersigned hello.
Init == session \in {NewSession("OfferPublished"), NewSession("TermsFrozen")}

Negotiation ==
    \/ OfferAcceptanceValidated \/ OfferReserved \/ TermsApproved
    \/ RefundsValidated \/ FundingReady

\* The generation of a scoped proof is that of a consumed observation permit,
\* which is never 0 (consume_for).
FirstLock ==
    \/ FirstFundingObservationStarted
    \/ \E e \in Evidence :
          \/ FirstFundingConfirmed(e)
          \/ \E g \in 1..MaxGeneration : FirstFundingConfirmedAtGeneration(e, g)
          \/ FirstFundingInvalidated(e)

SecondLock ==
    \/ SecondFundingReady
    \/ \E e \in Evidence : SecondFundingConfirmed(e)
    \/ \E e \in Evidence, g \in 1..MaxGeneration :
          SecondFundingAuthorizationIssued([first_funding |-> e, generation |-> g])

Redemption ==
    \/ \E e \in Evidence : FirstRedemptionConfirmed(e)
    \/ SecretExtracted
    \/ \E e \in Evidence : SecondRedemptionConfirmed(e)
    \/ CompletionValidated

Refund ==
    \/ RefundEligibilityValidated
    \/ \E e \in Evidence : RefundBroadcast(e) \/ RefundConfirmed(e)
    \/ \E e \in Evidence, module \in {"first", "second"} :
          ChainRefundConfirmed(module, e)

Next ==
    \/ Negotiation
    \/ FirstLock
    \/ SecondLock
    \/ Redemption
    \/ Refund
    \/ \E reason \in Reasons : TerminalFailure(reason)

Spec == Init /\ [][Next]_vars

-----------------------------------------------------------------------------
(* Properties *)

\* The session record keeps its declared field types.
TypeOK == session \in Session

\* No lock is recorded as spent twice: the first lock is not both refunded to
\* the maker and redeemed by the taker, nor the second both refunded to the
\* taker and redeemed by the maker.  The SecondRedemptionConfirmed arm does
\* not look at first_refund; it relies on how SecretObserved is reached.
LegSettledOnce ==
    /\ ~(Some(session.first_refund) /\ Some(session.second_redemption))
    /\ ~(Some(session.second_refund) /\ Some(session.first_redemption))

\* validate_shakescape_execution_record: what every later load insists on.
RecordValid(s) ==
    /\ s.first_funding_revoked => Some(s.first_funding)
    /\ Some(s.confirmed) => s.confirmed # 0 /\ s.confirmed = s.generation
    /\ AuthorizationCurrent(s)

\* Whatever transition() saves, the validation of the next load accepts: no
\* order of evidence leaves a session that can never be opened again.
SavedRecordLoads == RecordValid(session)

\* Refunded and Completed are only reached with every recorded lock spent;
\* an unspent lock would leave the recovery queues with its session.
ClosedMeansSettled ==
    /\ session.state = "Refunded" => AllFundedLegsSettled(session)
    /\ session.state = "Completed" =>
          Some(session.first_redemption) /\ Some(session.second_redemption)

\* Evidence is recorded in causal order: the taker's claim of the first lock
\* presupposes the recorded reveal on the second chain, which presupposes the
\* second lock, which presupposes the first.
CausalOrder ==
    /\ Some(session.second_redemption) => Some(session.first_redemption)
    /\ Some(session.first_redemption) \/ Some(session.second_refund)
          => Some(session.second_funding)
    /\ Some(session.second_funding) \/ Some(session.first_refund)
          => Some(session.first_funding)

\* What a step may do to evidence on record: the second lock and the spends of
\* both are not rewritten, with one exception, and a first lock is forgotten
\* only while nothing depends on it.  The exception: a refresh may reopen a
\* session closed as Refunded, and the RefundConfirmed that then follows the
\* broadcast of another refund replaces first_refund by that refund.
KeepsEvidence ==
    /\ Some(session.second_funding) =>
          session'.second_funding = session.second_funding
    /\ Some(session.first_redemption) =>
          session'.first_redemption = session.first_redemption
    /\ Some(session.second_redemption) =>
          session'.second_redemption = session.second_redemption
    /\ Some(session.second_refund) =>
          session'.second_refund = session.second_refund
    /\ Some(session.first_refund) =>
          \/ session'.first_refund = session.first_refund
          \/ /\ session.state = "RefundBroadcast" /\ session'.state = "Refunded"
             /\ session'.first_refund = session.refund
    /\ Some(session.first_funding) /\ ~Some(session'.first_funding)
          => ~Some(session.second_funding) /\ ~Some(session.first_refund)

\* Evidence that transition() recorded is kept, whatever arrives later and
\* however often.
EvidenceIsKept == [][KeepsEvidence]_vars

=============================================================================
