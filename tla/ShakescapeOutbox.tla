-------------------------- MODULE ShakescapeOutbox --------------------------
(***************************************************************************)
(* The seller side of the name market: the seller-offer workflows and the  *)
(* durable publication outbox they queue into.                             *)
(*                                                                         *)
(* The outbox is one encrypted record saved by compare-and-swap.  A        *)
(* publication is prepared durably before its bytes are handed to a        *)
(* transport, and the transport's outcome (accepted by the relay, written  *)
(* to a peer, failed) is recorded against the exact prepared attempt.  A   *)
(* call of the seller reads its workflow, verifies the chain and signs     *)
(* outside the store lock, and then saves the workflow together with the   *)
(* outbox in one transaction.  Transports are in ShakescapeMarket.         *)
(***************************************************************************)
EXTENDS Integers, FiniteSets

CONSTANTS Offers,     \* seller-offer workflows; each owns its seller key
          Clients,    \* concurrent callers of the seller operations
          Capacity,   \* MAX_SHAKESCAPE_OUTBOX_ENTRIES
          MaxRetry,   \* MAX_SHAKESCAPE_OUTBOX_RETRY_ATTEMPTS
          Backoff,    \* SHAKESCAPE_PUBLICATION_RETRY_SECONDS
          Lifetime,   \* listing_lifetime_seconds of every offer
          None,       \* no request in flight
          MaxTime     \* bound: the clock stops here

ASSUME OutboxAssumption ==
    /\ IsFiniteSet(Offers) /\ IsFiniteSet(Clients)
    /\ Capacity \in Nat /\ MaxTime \in Nat
    /\ MaxRetry \in Nat \ {0} /\ Lifetime \in Nat \ {0} /\ Backoff \in Nat \ {0}

VARIABLES now,      \* the runtime's clock
          lock,     \* on chain: the lock of each listed name
          seller,   \* stage of each seller-offer workflow
          client,   \* what each seller call read before it left the store
          outbox    \* the durable outbox record

outboxVars == <<now, lock, seller, client, outbox>>

\* A listing identity numbers its signed messages: a listing has an odd
\* sequence number, its cancellation the next.  A seller-offer workflow owns
\* its key and signs one listing and at most one cancellation.
Offer(w) == [id |-> w, seq |-> 1]
Cancel(w) == [id |-> w, seq |-> 2]
Envelopes == [id : Offers, seq : 1 .. 2]

-----------------------------------------------------------------------------
(***************************************************************************)
(* Outbox records.  An entry keeps the signed window of its message        *)
(* (created, expires) beside the delivery state.  An attempt identifier    *)
(* hashes envelope, ordinal and preparation time; the ordinal is always    *)
(* attempts + 1, so (envelope, ordinal, prepared) stands for it.           *)
(***************************************************************************)
Absent == [state |-> "absent", attempts |-> 0, created |-> 0, expires |-> 0,
           due |-> 0, prepared |-> 0, last |-> 0]

Waiting == {"pending", "retry"}
Completed == {"accepted", "announced"}
Terminal == Completed \cup {"exhausted"}

Entries == {e \in Envelopes : outbox.entries[e].state # "absent"}
Prepared == {e \in Envelopes : outbox.entries[e].state = "prepared"}

\* prepared_handoff_from_entry: the artifact a transport holds.
Handoff(o, e) ==
    [env |-> e, ordinal |-> o.entries[e].attempts + 1,
     prepared |-> o.entries[e].prepared, revision |-> o.revision]

\* A save of the whole record is refused when it would move its time back.
Saved(o, entries, t) == [revision |-> o.revision + 1, updated |-> t,
                         entries |-> entries]
MaySave(t) == outbox.revision = 0 \/ t >= outbox.updated

NewEntry(t, expiry) == [Absent EXCEPT !.state = "pending", !.created = t,
                                      !.due = t, !.expires = expiry]

MayEnqueue(e, t) ==
    /\ outbox.entries[e].state = "absent"
    /\ Cardinality(Entries) < Capacity
    /\ MaySave(t)
Enqueued(e, t, expiry) ==
    Saved(outbox, [outbox.entries EXCEPT ![e] = NewEntry(t, expiry)], t)

\* next_due_index: least due time, then least creation time, then envelope
\* identifier, a hash that may order two envelopes either way.
Due(t) ==
    LET entry == outbox.entries
        waiting == {e \in Envelopes : entry[e].state \in Waiting /\ entry[e].due <= t}
        Before(d, e) == \/ entry[d].due < entry[e].due
                        \/ /\ entry[d].due = entry[e].due
                           /\ entry[d].created < entry[e].created
    IN  {e \in waiting : \A d \in waiting : ~Before(d, e)}

\* Mutant: the handoff leaves without the durable preparation.
PreparedOnlyInMemory(e, t) == outbox

PreparedAt(e, t) ==
    Saved(outbox, [outbox.entries EXCEPT ![e].state = "prepared",
                                         ![e].prepared = t], t)

\* Mutant: the revision and the attempt are not compared.
MatchesEnvelopeOnly(h) == outbox.entries[h.env].state # "pending"

\* A handoff is recorded only against the very revision and attempt it names.
Matches(h) ==
    /\ h.revision = outbox.revision
    /\ outbox.entries[h.env].state = "prepared"
    /\ h.ordinal = outbox.entries[h.env].attempts + 1
    /\ h.prepared = outbox.entries[h.env].prepared

\* record_shakescape_handoff_acceptance and _direct_announcement: a match.
Recorded(h, state, t) ==
    Saved(outbox, [outbox.entries EXCEPT ![h.env].state = state,
                                         ![h.env].last = t], t)

\* The same calls repeated for an outcome that is durable already.
AlreadyRecorded(h, state, t) ==
    /\ outbox.entries[h.env].state = state
    /\ outbox.entries[h.env].last = t
    /\ h.ordinal = outbox.entries[h.env].attempts + 1
    /\ h.prepared = outbox.entries[h.env].prepared

\* persist_shakescape_handoff_failure: the last permitted failure is final.
FailedAt(e, t, next) ==
    LET attempts == outbox.entries[e].attempts + 1
    IN  Saved(outbox,
              [outbox.entries EXCEPT
                  ![e].attempts = attempts,
                  ![e].last = t,
                  ![e].due = IF attempts = MaxRetry THEN @ ELSE next,
                  ![e].state = IF attempts = MaxRetry THEN "exhausted"
                                                      ELSE "retry"],
              t)

-----------------------------------------------------------------------------
(***************************************************************************)
(* The seller's operations.  A client holds the workflow and the clock     *)
(* sample its call read; the commit refuses when the workflow has moved.   *)
(***************************************************************************)
Idle == [op |-> "none", offer |-> None, at |-> 0]
Requests == [op : {"list", "cancel"}, offer : Offers, at : 0 .. MaxTime]

OutboxInit ==
    /\ now = 0
    /\ seller = [w \in Offers |-> "none"]
    /\ client = [c \in Clients |-> Idle]
    /\ outbox = [revision |-> 0, updated |-> 0,
                 entries |-> [e \in Envelopes |-> Absent]]

PrepareOffer(w) ==
    /\ seller[w] = "none"
    /\ seller' = [seller EXCEPT ![w] = "name_lock_required"]
    /\ UNCHANGED <<now, lock, client, outbox>>

\* queue_listing up to the signature: the lock is current and unspent.
BeginListing(c, w) ==
    /\ client[c] = Idle
    /\ seller[w] = "name_lock_required"
    /\ lock[w] = "held"
    /\ client' = [client EXCEPT ![c] = [op |-> "list", offer |-> w, at |-> now]]
    /\ UNCHANGED <<now, lock, seller, outbox>>

CommitListing(c) ==
    LET w == client[c].offer
        t == client[c].at
    IN  /\ client[c].op = "list"
        /\ client' = [client EXCEPT ![c] = Idle]
        /\ \/ /\ seller[w] = "name_lock_required"
              /\ MayEnqueue(Offer(w), t)
              /\ seller' = [seller EXCEPT ![w] = "publication_queued"]
              /\ outbox' = Enqueued(Offer(w), t, t + Lifetime)
           \/ /\ seller[w] # "name_lock_required" \/ ~MayEnqueue(Offer(w), t)
              /\ UNCHANGED <<seller, outbox>>
        /\ UNCHANGED <<now, lock>>

\* queue_cancellation up to the signature: the signed listing is in its window.
BeginCancellation(c, w) ==
    /\ client[c] = Idle
    /\ seller[w] = "publication_queued"
    /\ lock[w] = "held"
    /\ now < outbox.entries[Offer(w)].expires
    /\ client' = [client EXCEPT ![c] = [op |-> "cancel", offer |-> w, at |-> now]]
    /\ UNCHANGED <<now, lock, seller, outbox>>

\* Mutant: the workflow is saved although the outbox refused the entry.
CommitCancellationAlone(c) ==
    LET w == client[c].offer
        t == client[c].at
    IN  /\ client[c].op = "cancel"
        /\ seller[w] = "publication_queued"
        /\ client' = [client EXCEPT ![c] = Idle]
        /\ seller' = [seller EXCEPT ![w] = "cancellation_queued"]
        /\ outbox' = IF MayEnqueue(Cancel(w), t)
                     THEN Enqueued(Cancel(w), t, outbox.entries[Offer(w)].expires)
                     ELSE outbox
        /\ UNCHANGED <<now, lock>>

CommitCancellation(c) ==
    LET w == client[c].offer
        t == client[c].at
    IN  /\ client[c].op = "cancel"
        /\ client' = [client EXCEPT ![c] = Idle]
        /\ \/ /\ seller[w] = "publication_queued"
              /\ MayEnqueue(Cancel(w), t)
              /\ seller' = [seller EXCEPT ![w] = "cancellation_queued"]
              /\ outbox' = Enqueued(Cancel(w), t, outbox.entries[Offer(w)].expires)
           \/ /\ seller[w] # "publication_queued" \/ ~MayEnqueue(Cancel(w), t)
              /\ UNCHANGED <<seller, outbox>>
        /\ UNCHANGED <<now, lock>>

\* recover_shakescape_handoff_as_retry: an outcome-unknown attempt counts as
\* failed.
RecoverAsRetry ==
    /\ \E e \in Prepared :
          /\ now >= outbox.entries[e].prepared
          /\ MaySave(now)
          /\ outbox' = FailedAt(e, now, now + Backoff)
    /\ UNCHANGED <<now, lock, seller, client>>

\* The chain: the allocated lock of a prepared offer is finalized, and spent.
FinalizeLock(w) ==
    /\ seller[w] # "none"
    /\ lock[w] = "none"
    /\ lock' = [lock EXCEPT ![w] = "held"]
    /\ UNCHANGED <<now, seller, client, outbox>>

SpendLock(w) ==
    /\ lock[w] = "held"
    /\ lock' = [lock EXCEPT ![w] = "spent"]
    /\ UNCHANGED <<now, seller, client, outbox>>

Tick ==
    /\ now < MaxTime
    /\ now' = now + 1
    /\ UNCHANGED <<lock, seller, client, outbox>>

\* The steps of the sellers and names in a set.
SellerStep(cast) ==
    \/ \E w \in Offers \cap cast : PrepareOffer(w) \/ FinalizeLock(w)
    \/ \E c \in Clients, w \in Offers : BeginListing(c, w) \/ BeginCancellation(c, w)
    \/ \E c \in Clients : CommitListing(c) \/ CommitCancellation(c)
    \/ RecoverAsRetry
    \/ \E w \in cast : SpendLock(w)
    \/ Tick

-----------------------------------------------------------------------------
(***************************************************************************)
(* Properties of the outbox, whatever the transport.                       *)
(***************************************************************************)

\* A workflow claims a queued publication exactly when the outbox holds its
\* envelope, although the two records are different rows
\* (enqueue_shakescape_offer_and_save_workflow: "A crash can therefore expose
\* neither an unjournaled publication nor a workflow that claims a publication
\* which was never durably handed to the outbox").
QueuedIffJournaled ==
    \A w \in Offers :
        /\ Offer(w) \in Entries <=> seller[w] \in {"publication_queued", "cancellation_queued"}
        /\ Cancel(w) \in Entries <=> seller[w] = "cancellation_queued"

\* An entry whose delivery is settled never changes again, the attempts of an
\* entry are never forgotten and no entry disappears, although several
\* transports and callers may hold a handoff of the same attempt.
SettledStays ==
    [][\A e \in Entries :
          /\ outbox.entries[e].state \in Terminal
                => outbox'.entries[e] = outbox.entries[e]
          /\ outbox'.entries[e].attempts >= outbox.entries[e].attempts
          /\ outbox'.entries[e].state # "absent"]_outbox
=============================================================================
