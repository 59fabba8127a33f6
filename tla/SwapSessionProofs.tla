-------------------------- MODULE SwapSessionProofs --------------------------
(***************************************************************************)
(* Proofs about the swap session, for any set of evidence and any bound on *)
(* the observation generation.  The safety properties of SwapSession are   *)
(* not inductive: what stops the SecondRedemptionConfirmed arm from        *)
(* spending a refunded lock is which states a recorded refund leaves       *)
(* reachable.  IInv adds, per state, what transition() relies on without   *)
(* testing it.                                                             *)
(***************************************************************************)
EXTENDS SwapSession, TLAPS

Before == {"OfferPublished", "OfferAcceptanceReceived", "OfferReserved",
           "TermsFrozen", "RefundsPrepared", "FirstFundingPending"}

\* Before the first lock is known no evidence of anything later exists.
BeforeIsEmpty ==
    session.state \in Before =>
        /\ session.first_funding = None
        /\ ~session.first_funding_revoked
        /\ session.confirmed = None

\* A lock and its spends are recorded in order.
Ordered ==
    /\ Some(session.second_funding) => Some(session.first_funding)
    /\ Some(session.first_redemption) => Some(session.second_funding)
    /\ Some(session.second_refund) => Some(session.second_funding)
    /\ Some(session.first_refund) => Some(session.first_funding)
    /\ Some(session.second_redemption) => Some(session.first_redemption)

\* No spend is recorded, and no second lock, while the second is awaited.
Awaiting ==
    session.state \in {"FirstFunded", "SecondFundingPending"} =>
        /\ Some(session.first_funding)
        /\ session.second_funding = None
        /\ session.first_refund = None

\* A settled first lock confines the session to the states that no longer
\* lead to a spend of it.
FirstSpent ==
    /\ Some(session.second_redemption) =>
          session.state \in {"SecondRedeemed", "Completed", "Failed"}
    /\ Some(session.first_refund) =>
          session.state \notin {"FirstFunded", "SecondFundingPending",
                                "BothFunded", "SecretObserved",
                                "SecondRedeemed", "Completed"}

\* What each state of the settlement phase says about the spends.
Spends ==
    /\ session.state = "BothFunded" =>
          Some(session.second_funding) /\ Some(session.first_funding)
    /\ session.state \in {"FirstRedeemed", "SecretObserved"} =>
          /\ Some(session.first_redemption)
          /\ session.second_redemption = None
    /\ session.state \in {"SecondRedeemed", "Completed"} =>
          Some(session.second_redemption)
    /\ session.state \in {"RefundEligible", "RefundBroadcast"} =>
          Some(session.first_funding)
    /\ session.state = "Refunded" => AllFundedLegsSettled(session)

\* The inductive invariant.
IInv ==
    /\ TypeOK
    /\ LegSettledOnce
    /\ SavedRecordLoads
    /\ BeforeIsEmpty
    /\ Ordered
    /\ Awaiting
    /\ FirstSpent
    /\ Spends

-----------------------------------------------------------------------------
(* The record that an arm of transition() builds, and its common tail.     *)

\* Two records agree on the second lock and on every spend.
SameSpends(s, t) ==
    /\ t.second_funding = s.second_funding
    /\ t.first_redemption = s.first_redemption
    /\ t.second_redemption = s.second_redemption
    /\ t.first_refund = s.first_refund
    /\ t.second_refund = s.second_refund

\* Two records agree on the first lock and on how current its proof is.
SameFirstLock(s, t) ==
    /\ t.first_funding = s.first_funding
    /\ t.first_funding_revoked = s.first_funding_revoked
    /\ t.generation = s.generation
    /\ t.confirmed = s.confirmed

\* The tail of transition() writes the state, drops the authorization outside
\* SecondFundingPending and keeps the rest, so the result is a session again.
LEMMA MoveSession ==
  ASSUME NEW s \in Session, NEW n \in SwapState, Move(s, n)
  PROVE  /\ session' \in Session
         /\ session'.state = n
         /\ session'.authorization =
               IF n = "SecondFundingPending" THEN s.authorization ELSE None
         /\ SameFirstLock(s, session')
         /\ SameSpends(s, session')
<1> DEFINE a == IF n = "SecondFundingPending" THEN s.authorization ELSE None
<1>1. a \in Authorization \cup {None}
  BY DEF Session
<1>2. session' = [s EXCEPT !.state = n, !.authorization = a]
  BY DEF Move
<1> HIDE DEF a
<1>3. session' \in Session
  BY <1>1, <1>2, ZenonT(60) DEF Session
<1>4. session'.state = n /\ session'.authorization = a
  BY <1>1, <1>2 DEF Session
<1>5. SameFirstLock(s, session')
  BY <1>1, <1>2 DEF Session, SameFirstLock
<1>6. SameSpends(s, session')
  BY <1>1, <1>2 DEF Session, SameSpends
<1> QED
  BY <1>3, <1>4, <1>5, <1>6 DEF a

\* Starting an observation takes the proof and the authorization back.
LEMMA ObservedSession ==
  ASSUME NEW s \in Session, NEW g \in Nat
  PROVE  LET t == [s EXCEPT !.generation = g, !.confirmed = None,
                            !.authorization = None]
         IN  /\ t \in Session
             /\ t.generation = g /\ t.confirmed = None
             /\ t.authorization = None
             /\ t.first_funding = s.first_funding
             /\ t.first_funding_revoked = s.first_funding_revoked
             /\ SameSpends(s, t)
  BY ZenonT(60) DEF Session, SameSpends

\* A confirmation replaces the first lock and the generation of its proof.
LEMMA ConfirmedSession ==
  ASSUME NEW s \in Session, NEW e \in Evidence, NEW g \in Nat \cup {None}
  PROVE  /\ Confirmed(s, e, g) \in Session
         /\ Confirmed(s, e, g).first_funding = e
         /\ ~Confirmed(s, e, g).first_funding_revoked
         /\ Confirmed(s, e, g).generation = s.generation
         /\ Confirmed(s, e, g).confirmed = g
         /\ Confirmed(s, e, g).authorization = None
         /\ SameSpends(s, Confirmed(s, e, g))
<1>1. Confirmed(s, e, g) \in Session
  BY ZenonT(60) DEF Session, Confirmed
<1>2. /\ Confirmed(s, e, g).first_funding = e
      /\ ~Confirmed(s, e, g).first_funding_revoked
      /\ Confirmed(s, e, g).generation = s.generation
      /\ Confirmed(s, e, g).confirmed = g
      /\ Confirmed(s, e, g).authorization = None
  BY DEF Session, Confirmed
<1>3. SameSpends(s, Confirmed(s, e, g))
  BY DEF Session, Confirmed, SameSpends
<1> QED
  BY <1>1, <1>2, <1>3

\* Clearing or setting the failure reason touches nothing else.
LEMMA ReasonSession ==
  ASSUME NEW s \in Session, NEW r \in Reasons \cup {None}
  PROVE  LET t == [s EXCEPT !.failure_reason = r]
         IN  /\ t \in Session
             /\ t.authorization = s.authorization
             /\ SameFirstLock(s, t)
             /\ SameSpends(s, t)
  BY DEF Session, SameFirstLock, SameSpends

\* Forgetting the first lock touches no spend.
LEMMA ForgottenSession ==
  ASSUME NEW s \in Session
  PROVE  LET t == [s EXCEPT !.first_funding = None,
                            !.first_funding_revoked = FALSE,
                            !.confirmed = None]
         IN  /\ t \in Session
             /\ t.first_funding = None
             /\ t.first_funding_revoked = FALSE
             /\ t.generation = s.generation /\ t.confirmed = None
             /\ SameSpends(s, t)
  BY ZenonT(60) DEF Session, SameSpends

\* Revoking the first lock keeps its evidence.
LEMMA RevokedSession ==
  ASSUME NEW s \in Session
  PROVE  LET t == [s EXCEPT !.first_funding_revoked = TRUE,
                            !.confirmed = None, !.authorization = None]
         IN  /\ t \in Session
             /\ t.first_funding = s.first_funding
             /\ t.first_funding_revoked = TRUE
             /\ t.generation = s.generation /\ t.confirmed = None
             /\ t.authorization = None
             /\ SameSpends(s, t)
  BY ZenonT(60) DEF Session, SameSpends

\* Issuing an authorization touches no evidence.
LEMMA AuthorizedSession ==
  ASSUME NEW s \in Session, NEW a \in Authorization
  PROVE  LET t == [s EXCEPT !.authorization = a]
         IN  /\ t \in Session
             /\ t.authorization = a
             /\ SameFirstLock(s, t)
             /\ SameSpends(s, t)
  BY DEF Session, SameFirstLock, SameSpends

\* Recording the second lock or a spend touches that one field.
LEMMA SpendSession ==
  ASSUME NEW s \in Session, NEW e \in Evidence
  PROVE  /\ LET t == [s EXCEPT !.second_funding = e]
            IN  /\ t \in Session /\ SameFirstLock(s, t)
                /\ t.second_funding = e
                /\ t.first_redemption = s.first_redemption
                /\ t.second_redemption = s.second_redemption
                /\ t.first_refund = s.first_refund
                /\ t.second_refund = s.second_refund
         /\ LET t == [s EXCEPT !.first_redemption = e]
            IN  /\ t \in Session /\ SameFirstLock(s, t)
                /\ t.second_funding = s.second_funding
                /\ t.first_redemption = e
                /\ t.second_redemption = s.second_redemption
                /\ t.first_refund = s.first_refund
                /\ t.second_refund = s.second_refund
         /\ LET t == [s EXCEPT !.second_redemption = e]
            IN  /\ t \in Session /\ SameFirstLock(s, t)
                /\ t.second_funding = s.second_funding
                /\ t.first_redemption = s.first_redemption
                /\ t.second_redemption = e
                /\ t.first_refund = s.first_refund
                /\ t.second_refund = s.second_refund
         /\ LET t == [s EXCEPT !.first_refund = e]
            IN  /\ t \in Session /\ SameFirstLock(s, t)
                /\ t.second_funding = s.second_funding
                /\ t.first_redemption = s.first_redemption
                /\ t.second_redemption = s.second_redemption
                /\ t.first_refund = e
                /\ t.second_refund = s.second_refund
         /\ LET t == [s EXCEPT !.refund = e]
            IN  /\ t \in Session /\ SameFirstLock(s, t) /\ SameSpends(s, t)
  BY DEF Session, SameFirstLock, SameSpends

\* Recording a chain refund touches the refunded leg and the last refund.
LEMMA RefundingSession ==
  ASSUME NEW s \in Session, NEW e \in Evidence, NEW module \in {"first", "second"}
  PROVE  /\ Refunding(s, module, e) \in Session
         /\ SameFirstLock(s, Refunding(s, module, e))
         /\ Refunding(s, module, e).second_funding = s.second_funding
         /\ Refunding(s, module, e).first_redemption = s.first_redemption
         /\ Refunding(s, module, e).second_redemption = s.second_redemption
         /\ Refunding(s, module, e).first_refund =
               IF module = "first" THEN e ELSE s.first_refund
         /\ Refunding(s, module, e).second_refund =
               IF module = "first" THEN s.second_refund ELSE e
<1>1. CASE module = "first"
  BY <1>1, ZenonT(60) DEF Session, SameFirstLock, Refunding
<1>2. CASE module = "second"
  BY <1>2, ZenonT(60) DEF Session, SameFirstLock, Refunding
<1> QED
  BY <1>1, <1>2

-----------------------------------------------------------------------------
(* The invariant *)

\* A new session, and one built from a countersigned hello, satisfies it.
LEMMA InitIInv == Init => IInv
<1> SUFFICES ASSUME NEW n \in {"OfferPublished", "TermsFrozen"},
                    session = NewSession(n)
             PROVE  IInv
  BY DEF Init
<1>1. TypeOK
  BY DEF TypeOK, Session, NewSession, SwapState
<1> QED
  BY <1>1 DEF IInv, NewSession, BeforeIsEmpty, Before, Ordered, LegSettledOnce,
     SavedRecordLoads, RecordValid, AuthorizationCurrent, Some, Awaiting,
     FirstSpent, Spends, AllFundedLegsSettled

\* transition() preserves it, one step per kind of evidence.
LEMMA NextIInv == IInv /\ [Next]_vars => IInv'
<1> SUFFICES ASSUME IInv, [Next]_vars PROVE IInv'
  OBVIOUS
<1>a. session \in Session /\ session.state \in SwapState
  BY DEF IInv, TypeOK, Session
<1>b. \A e \in Evidence : e # None
  BY NoneAssumption
<1>c. \A n \in Nat : n # None
  BY NoneAssumption
<1>n. {"OfferAcceptanceReceived", "OfferReserved", "TermsFrozen",
       "RefundsPrepared", "FirstFundingPending", "FirstFunded",
       "SecondFundingPending", "BothFunded", "FirstRedeemed", "SecretObserved",
       "SecondRedeemed", "Completed", "RefundEligible", "RefundBroadcast",
       "Refunded", "Failed"} \subseteq SwapState
  BY DEF SwapState
<1> USE DEF IInv, TypeOK, BeforeIsEmpty, Before, Ordered, LegSettledOnce,
        SavedRecordLoads, RecordValid, AuthorizationCurrent, Some, Awaiting,
        FirstSpent, Spends, AllFundedLegsSettled, FirstSettled, SecondSettled,
        SameFirstLock, SameSpends
<1>1. CASE Negotiation
  BY <1>1, <1>a, <1>n, MoveSession
  DEF Negotiation, OfferAcceptanceValidated, OfferReserved, TermsApproved,
      RefundsValidated, FundingReady, Negotiated
<1>2. CASE FirstFundingObservationStarted
  <2> DEFINE s == [session EXCEPT !.generation = @ + 1, !.confirmed = None,
                                  !.authorization = None]
  <2>1. session.generation + 1 \in Nat
    BY <1>a DEF Session
  <2>2. /\ s \in Session
        /\ s.confirmed = None /\ s.authorization = None
        /\ s.first_funding = session.first_funding
        /\ s.first_funding_revoked = session.first_funding_revoked
        /\ SameSpends(session, s)
    BY <1>a, <2>1, ObservedSession, ZenonT(60)
  <2>3. Move(s, session.state) /\ CanObserveFirstFunding(session)
    BY <1>2 DEF FirstFundingObservationStarted
  <2> HIDE DEF s
  <2> QED
    BY <1>a, <2>2, <2>3, MoveSession DEF CanObserveFirstFunding
<1>3. ASSUME NEW e \in Evidence, FirstFundingConfirmed(e)
      PROVE  IInv'
  <2> DEFINE s == Confirmed(session, e, None)
             t == [s EXCEPT !.failure_reason = None]
  <2>0. None \in Nat \cup {None}
    OBVIOUS
  <2>1. /\ s \in Session
        /\ s.first_funding = e /\ ~s.first_funding_revoked
        /\ s.confirmed = None /\ s.authorization = None
        /\ SameSpends(session, s)
    BY ONLY <1>a, <2>0, e \in Evidence, ConfirmedSession, ZenonT(60)
  <2>2. /\ t \in Session
        /\ t.first_funding = e /\ ~t.first_funding_revoked
        /\ t.confirmed = None /\ t.authorization = None
        /\ SameSpends(session, t)
    BY <2>1, ReasonSession
  <2>3. \/ session.state = "FirstFundingPending" /\ Move(s, "FirstFunded")
        \/ /\ PrefundingFailure(session) /\ session.first_funding = None
           /\ Move(t, "FirstFunded")
        \/ /\ session.state \in FundedStates
           /\ Some(session.first_funding) /\ session.second_funding = None
           /\ Move(s, Reopened(session.state))
    BY <1>3 DEF FirstFundingConfirmed
  <2> HIDE DEF s, t
  <2>4. CASE session.state = "FirstFundingPending" /\ Move(s, "FirstFunded")
    BY <1>b, <1>n, <2>1, <2>4, MoveSession
  <2>5. CASE PrefundingFailure(session) /\ session.first_funding = None
             /\ Move(t, "FirstFunded")
    BY <1>b, <1>n, <2>2, <2>5, MoveSession, SMTT(60) DEF PrefundingFailure
  <2>6. CASE /\ session.state \in FundedStates
             /\ Some(session.first_funding) /\ session.second_funding = None
             /\ Move(s, Reopened(session.state))
    BY <1>a, <1>b, <1>n, <2>1, <2>6, MoveSession, SMTT(60) DEF FundedStates, Reopened
  <2> QED
    BY <2>3, <2>4, <2>5, <2>6
<1>4. ASSUME NEW e \in Evidence, NEW g \in 1..MaxGeneration,
             FirstFundingConfirmedAtGeneration(e, g)
      PROVE  IInv'
  <2> DEFINE s == Confirmed(session, e, g)
             t == [s EXCEPT !.failure_reason = None]
  <2>1. g \in Nat \ {0} /\ g \in Nat \cup {None} /\ session.generation = g
    BY <1>4, GenerationAssumption DEF FirstFundingConfirmedAtGeneration
  <2>2. /\ s \in Session
        /\ s.first_funding = e /\ ~s.first_funding_revoked
        /\ s.generation = g /\ s.confirmed = g /\ s.authorization = None
        /\ SameSpends(session, s)
    BY ONLY <1>a, <2>1, e \in Evidence, ConfirmedSession
  <2>3. /\ t \in Session
        /\ t.first_funding = e /\ ~t.first_funding_revoked
        /\ t.generation = g /\ t.confirmed = g /\ t.authorization = None
        /\ SameSpends(session, t)
    BY <2>2, ReasonSession, SMTT(60)
  <2>4. \/ session.state = "FirstFundingPending" /\ Move(s, "FirstFunded")
        \/ /\ PrefundingFailure(session) /\ session.first_funding = None
           /\ Move(t, "FirstFunded")
        \/ /\ session.state \in FundedStates /\ ~FirstSettled(session)
           /\ Move(s, Reopened(session.state))
    BY <1>4 DEF FirstFundingConfirmedAtGeneration
  <2> HIDE DEF s, t
  <2>5. CASE session.state = "FirstFundingPending" /\ Move(s, "FirstFunded")
    BY <1>b, <1>n, <2>1, <2>2, <2>5, MoveSession, SMTT(60)
  <2>6. CASE PrefundingFailure(session) /\ session.first_funding = None
             /\ Move(t, "FirstFunded")
    BY <1>b, <1>n, <2>1, <2>3, <2>6, MoveSession DEF PrefundingFailure
  <2>7. CASE /\ session.state \in FundedStates /\ ~FirstSettled(session)
             /\ Move(s, Reopened(session.state))
    BY <1>a, <1>b, <1>n, <2>1, <2>2, <2>7, MoveSession, SMTT(60)
    DEF FundedStates, Reopened
  <2> QED
    BY <2>4, <2>5, <2>6, <2>7
<1>5. ASSUME NEW e \in Evidence, FirstFundingInvalidated(e)
      PROVE  IInv'
  <2> DEFINE s == [session EXCEPT !.first_funding = None,
                                  !.first_funding_revoked = FALSE,
                                  !.confirmed = None]
             t == [session EXCEPT !.first_funding_revoked = TRUE,
                                  !.confirmed = None,
                                  !.authorization = None]
             n == IF session.state = "Refunded" THEN "RefundEligible"
                                                ELSE session.state
  <2>1. /\ s \in Session
        /\ s.first_funding = None /\ ~s.first_funding_revoked
        /\ s.confirmed = None /\ SameSpends(session, s)
    BY <1>a, ForgottenSession, ZenonT(60)
  <2>2. /\ t \in Session
        /\ t.first_funding = session.first_funding
        /\ t.confirmed = None /\ t.authorization = None
        /\ SameSpends(session, t)
    BY <1>a, RevokedSession, ZenonT(60)
  <2>3. /\ Some(session.first_funding)
        /\ \/ session.state = "FirstFunded" /\ Move(s, "FirstFundingPending")
           \/ /\ session.state \in FundedStates \ {"FirstFunded"}
              /\ ~FirstSettled(session)
              /\ Move(t, n)
    BY <1>5, SMTT(60) DEF FirstFundingInvalidated
  <2> HIDE DEF s, t
  <2>4. CASE session.state = "FirstFunded" /\ Move(s, "FirstFundingPending")
    BY <1>n, <2>1, <2>4, MoveSession, SMTT(60)
  <2>5. CASE /\ session.state \in FundedStates \ {"FirstFunded"}
             /\ ~FirstSettled(session)
             /\ Move(t, n)
    BY <1>a, <1>n, <2>2, <2>3, <2>5, MoveSession DEF FundedStates
  <2> QED
    BY <2>3, <2>4, <2>5, SMTT(60)
<1>6. CASE SecondFundingReady
  BY <1>6, <1>a, <1>n, MoveSession, SMTT(60) DEF SecondFundingReady, Negotiated
<1>7. ASSUME NEW e \in Evidence, SecondFundingConfirmed(e)
      PROVE  IInv'
  <2> DEFINE s == [session EXCEPT !.second_funding = e]
  <2>1. /\ s \in Session /\ SameFirstLock(session, s)
        /\ s.second_funding = e
        /\ s.first_redemption = session.first_redemption
        /\ s.second_redemption = session.second_redemption
        /\ s.first_refund = session.first_refund
        /\ s.second_refund = session.second_refund
    BY <1>a, SpendSession, ZenonT(60)
  <2>2. session.state = "SecondFundingPending" /\ Move(s, "BothFunded")
    BY <1>7 DEF SecondFundingConfirmed
  <2> HIDE DEF s
  <2> QED
    BY <1>b, <1>n, <2>1, <2>2, MoveSession
<1>8. ASSUME NEW e \in Evidence, NEW g \in 1..MaxGeneration,
             SecondFundingAuthorizationIssued([first_funding |-> e,
                                               generation |-> g])
      PROVE  IInv'
  <2> DEFINE a == [first_funding |-> e, generation |-> g]
             s == [session EXCEPT !.authorization = a]
  <2>1. a \in Authorization /\ a.first_funding = e /\ a.generation = g
    BY GenerationAssumption DEF Authorization
  <2>2. /\ session.state = "SecondFundingPending"
        /\ session.first_funding = a.first_funding
        /\ ~session.first_funding_revoked
        /\ session.generation = a.generation
        /\ session.confirmed = a.generation
        /\ Move(s, "SecondFundingPending")
    BY <1>8 DEF SecondFundingAuthorizationIssued
  <2> HIDE DEF a
  <2>3. /\ s \in Session /\ s.authorization = a
        /\ SameFirstLock(session, s) /\ SameSpends(session, s)
    BY <1>a, <2>1, AuthorizedSession
  <2> HIDE DEF s
  <2> QED
    BY <1>n, <2>2, <2>3, MoveSession, SMTT(60)
<1>9. ASSUME NEW e \in Evidence, FirstRedemptionConfirmed(e)
      PROVE  IInv'
  <2> DEFINE s == [session EXCEPT !.first_redemption = e]
  <2>1. /\ s \in Session /\ SameFirstLock(session, s)
        /\ s.second_funding = session.second_funding
        /\ s.first_redemption = e
        /\ s.second_redemption = session.second_redemption
        /\ s.first_refund = session.first_refund
        /\ s.second_refund = session.second_refund
    BY <1>a, SpendSession, ZenonT(60)
  <2>2. /\ session.state \in {"BothFunded", "RefundEligible"}
        /\ Some(session.second_funding) /\ ~SecondSettled(session)
        /\ Move(s, "FirstRedeemed")
    BY <1>9 DEF FirstRedemptionConfirmed
  <2> HIDE DEF s
  <2> QED
    BY <1>b, <1>n, <2>1, <2>2, MoveSession, SMTT(60)
<1>10. CASE SecretExtracted
  BY <1>10, <1>a, <1>n, MoveSession, SMTT(60) DEF SecretExtracted
<1>11. ASSUME NEW e \in Evidence, SecondRedemptionConfirmed(e)
       PROVE  IInv'
  <2> DEFINE s == [session EXCEPT !.second_redemption = e]
  <2>1. /\ s \in Session /\ SameFirstLock(session, s)
        /\ s.second_funding = session.second_funding
        /\ s.first_redemption = session.first_redemption
        /\ s.second_redemption = e
        /\ s.first_refund = session.first_refund
        /\ s.second_refund = session.second_refund
    BY <1>a, SpendSession, ZenonT(60)
  <2>2. session.state = "SecretObserved" /\ Move(s, "SecondRedeemed")
    BY <1>11 DEF SecondRedemptionConfirmed
  <2> HIDE DEF s
  <2> QED
    BY <1>b, <1>n, <2>1, <2>2, MoveSession
<1>12. CASE CompletionValidated
  BY <1>12, <1>a, <1>n, MoveSession, SMTT(60) DEF CompletionValidated, Negotiated
<1>13. CASE RefundEligibilityValidated
  BY <1>13, <1>a, <1>n, MoveSession, SMTT(60) DEF RefundEligibilityValidated
<1>14. ASSUME NEW e \in Evidence, RefundBroadcast(e)
       PROVE  IInv'
  <2> DEFINE s == [session EXCEPT !.refund = e]
  <2>1. s \in Session /\ SameFirstLock(session, s) /\ SameSpends(session, s)
    BY <1>a, SpendSession, ZenonT(60)
  <2>2. session.state = "RefundEligible" /\ Move(s, "RefundBroadcast")
    BY <1>14 DEF RefundBroadcast
  <2> HIDE DEF s
  <2> QED
    BY <1>n, <2>1, <2>2, MoveSession
<1>15. ASSUME NEW e \in Evidence, RefundConfirmed(e)
       PROVE  IInv'
  <2> DEFINE s == [session EXCEPT !.first_refund = e]
  <2>1. /\ s \in Session /\ SameFirstLock(session, s)
        /\ s.second_funding = session.second_funding
        /\ s.first_redemption = session.first_redemption
        /\ s.second_redemption = session.second_redemption
        /\ s.first_refund = e
        /\ s.second_refund = session.second_refund
    BY <1>a, SpendSession, ZenonT(60)
  <2>2. /\ session.state = "RefundBroadcast"
        /\ Some(session.first_funding) /\ session.second_funding = None
        /\ Move(s, "Refunded")
    BY <1>15 DEF RefundConfirmed
  <2> HIDE DEF s
  <2> QED
    BY <1>b, <1>n, <2>1, <2>2, MoveSession, SMTT(60)
<1>16. ASSUME NEW e \in Evidence, NEW module \in {"first", "second"},
              ChainRefundConfirmed(module, e)
       PROVE  IInv'
  <2> DEFINE s == Refunding(session, module, e)
             n == IF AllFundedLegsSettled(s) THEN "Refunded"
                                             ELSE "RefundEligible"
  <2>1. /\ s \in Session /\ SameFirstLock(session, s)
        /\ s.second_funding = session.second_funding
        /\ s.first_redemption = session.first_redemption
        /\ s.second_redemption = session.second_redemption
        /\ s.first_refund = IF module = "first" THEN e ELSE session.first_refund
        /\ s.second_refund = IF module = "first" THEN session.second_refund ELSE e
    BY <1>a, RefundingSession, SMTT(60)
  <2>2. /\ session.state \in FundedStates
        /\ CanRecordRefund(session, module)
        /\ Move(s, n)
    BY <1>16, SMTT(60) DEF ChainRefundConfirmed
  <2> HIDE DEF s
  <2> QED
    BY <1>b, <1>n, <2>1, <2>2, MoveSession DEF CanRecordRefund, FundedStates
<1>17. ASSUME NEW reason \in Reasons, TerminalFailure(reason)
       PROVE  IInv'
  <2> DEFINE s == [session EXCEPT !.failure_reason = reason]
  <2>1. s \in Session /\ SameFirstLock(session, s) /\ SameSpends(session, s)
    BY <1>a, ReasonSession
  <2>2. Move(s, "Failed")
    BY <1>17 DEF TerminalFailure
  <2> HIDE DEF s
  <2> QED
    BY <1>n, <2>1, <2>2, MoveSession
<1>18. CASE UNCHANGED vars
  BY <1>18, SMTT(60) DEF vars
<1> QED
  BY <1>1, <1>2, <1>3, <1>4, <1>5, <1>6, <1>7, <1>8, <1>9, <1>10, <1>11,
     <1>12, <1>13, <1>14, <1>15, <1>16, <1>17, <1>18, ZenonT(60)
  DEF Next, FirstLock, SecondLock, Redemption, Refund

\* Every reachable session satisfies the inductive invariant.
THEOREM Invariant == Spec => []IInv
  BY InitIInv, NextIInv, PTL DEF Spec

\* SwapSession::transition never leaves the declared field types.
THEOREM TypeCorrect == Spec => []TypeOK
<1>1. IInv => TypeOK
  BY DEF IInv
<1> QED
  BY <1>1, Invariant, PTL

\* No order of evidence records one lock as both refunded and redeemed.
THEOREM NoDoubleSettlement == Spec => []LegSettledOnce
<1>1. IInv => LegSettledOnce
  BY DEF IInv
<1> QED
  BY <1>1, Invariant, PTL

\* Every record transition() saves passes validate_shakescape_execution_record.
THEOREM RecordsReload == Spec => []SavedRecordLoads
<1>1. IInv => SavedRecordLoads
  BY DEF IInv
<1> QED
  BY <1>1, Invariant, PTL

\* Refunded and Completed are reached only with every recorded lock spent.
THEOREM ClosedIsSettled == Spec => []ClosedMeansSettled
<1>1. IInv => ClosedMeansSettled
  BY DEF IInv, Spends, Ordered, ClosedMeansSettled
<1> QED
  BY <1>1, Invariant, PTL

\* Locks and spends are only ever recorded in causal order.
THEOREM CausallyOrdered == Spec => []CausalOrder
<1>1. IInv => CausalOrder
  BY DEF IInv, Ordered, CausalOrder
<1> QED
  BY <1>1, Invariant, PTL

=============================================================================
