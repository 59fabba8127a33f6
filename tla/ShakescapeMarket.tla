-------------------------- MODULE ShakescapeMarket --------------------------
(***************************************************************************)
(* The transports of the name market and the board they feed.              *)
(*                                                                         *)
(* A wallet is configured for one of two transports.  With a relay, a sync *)
(* call publishes what the outbox has due, then consumes the relay's event *)
(* log from a durable cursor and admits every event to the wallet's board; *)
(* after a relay restart, or when the log no longer reaches back to the    *)
(* cursor, the board is rebuilt from a snapshot of the relay's latest      *)
(* records.  With wallet peers, a publication is admitted to the wallet's  *)
(* own board, written to a peer and recorded as announced, and messages    *)
(* arrive from peers in any order.  Sync calls run in several threads; a   *)
(* call may stop anywhere (an error, a crash), leaving what is durable.    *)
(***************************************************************************)
EXTENDS ShakescapeOutbox, SequencesExt

CONSTANTS Foreign,        \* listing identities of other sellers
          Workers,        \* threads that run the transport
          Setups,         \* configurations: a transport, the identities that
                          \* list, the threads that run in a behaviour and the
                          \* signed windows of the messages of other sellers
          BoardCapacity,  \* MAX_NAME_MARKET_BOARD_OFFERS
          PageLimit,      \* MAX_SHAKESCAPE_NAME_MARKET_TRANSPORT_PAGE
          Skew,           \* how far the relay's clock may be from ours
          Interrupts,     \* whether calls may stop half way
          MaxInstance,    \* bound on relay processes
          MaxLog          \* bound on events one relay process logs

ASSUME MarketAssumption ==
    /\ Setups \subseteq [transport : {"relay", "peers"}, cast : SUBSET (Offers \cup Foreign),
                        threads : SUBSET Workers,
                        window : [[id : Foreign, seq : 1 .. 3] -> [from : Nat, until : Nat]]]
    /\ BoardCapacity \in Nat /\ PageLimit \in Nat \ {0} /\ Skew \in Nat
    /\ Interrupts \in BOOLEAN
    /\ MaxInstance \in Nat \ {0} /\ MaxLog \in Nat

VARIABLES setup,      \* the configuration, fixed for a behaviour
          worker,     \* the call each thread is in
          board,      \* the durable board: one row and one watermark per identity
          cursor,     \* the durable relay cursor; instance 0: none saved
          relay,      \* the relay process: instance, log, oldest retained event
          sent,       \* history: every attempt whose bytes left the wallet
          refused     \* history: messages the board refused, and why

marketVars == <<setup, worker, board, cursor, relay, sent, refused>>
vars == <<outboxVars, marketVars>>

Ids == Offers \cup Foreign
ForeignMessages == [id : Foreign, seq : 1 .. 3]
Messages == Envelopes \cup ForeignMessages
IsOffer(m) == m.seq % 2 = 1

\* The signed window of a message.  Other sellers date their messages as they
\* like: one may not be in force yet when it arrives, and a cancellation may
\* lapse before its listing does.
Created(m) == IF m \in Envelopes THEN outbox.entries[m].created ELSE setup.window[m].from
Expires(m) == IF m \in Envelopes THEN outbox.entries[m].expires ELSE setup.window[m].until
InWindow(m) == Created(m) <= now /\ now < Expires(m)

-----------------------------------------------------------------------------
(***************************************************************************)
(* The board.  A row holds the current listing of an identity and the      *)
(* cancellation of that listing, if any (0: none); the watermark is the    *)
(* highest sequence number admitted.                                       *)
(***************************************************************************)
NoRow == [listing |-> 0, cancel |-> 0]
Rows(b) == {i \in Ids : b.row[i] # NoRow}
Marks(b) == {i \in Ids : b.mark[i] # 0}

\* validate_structure: rows and watermarks correspond.
Max2(a, c) == IF a >= c THEN a ELSE c
ValidBoard(b) ==
    /\ Cardinality(Rows(b)) <= BoardCapacity
    /\ Rows(b) = Marks(b)
    /\ \A i \in Rows(b) : b.mark[i] = Max2(b.row[i].listing, b.row[i].cancel)

\* Mutant: the watermark is not consulted.
OfferResultIgnoringMark(m) ==
    IF lock[m.id] # "held" THEN "refused" ELSE IF ~InWindow(m) THEN "untimely"
    ELSE IF board.row[m.id].listing = m.seq THEN "existing" ELSE "applied"

\* apply_offer_to_validated_board after bind_current_listing: the lock is read,
\* then the window compared with the time of that reading ("untimely" is a
\* refusal as well).
OfferResult(m) ==
    IF lock[m.id] # "held" THEN "refused" ELSE IF ~InWindow(m) THEN "untimely"
    ELSE IF board.row[m.id].listing = m.seq THEN "existing"
    ELSE IF m.id \notin Rows(board) /\ Cardinality(Rows(board)) >= BoardCapacity
         THEN "full"
    ELSE IF m.seq <= board.mark[m.id] THEN "refused" ELSE "applied"

\* Mutant: a cancellation, like a listing, needs the current lock.
CancellationResultWithLock(m) ==
    IF board.row[m.id].listing # m.seq - 1 \/ lock[m.id] # "held" THEN "refused"
    ELSE IF board.row[m.id].cancel = m.seq THEN "existing" ELSE "applied"

\* admit_cancellation: the target must be the listing on the board.
CancellationResult(m) ==
    IF board.row[m.id].listing # m.seq - 1 THEN "refused"
    ELSE IF board.row[m.id].cancel = m.seq THEN "existing"
    ELSE IF ~InWindow(m) THEN "untimely"
    ELSE IF m.seq <= board.mark[m.id] THEN "refused" ELSE "applied"

Result(m) == IF IsOffer(m) THEN OfferResult(m) ELSE CancellationResult(m)

\* Mutant: the watermark is left where it was.
AppliedKeepingMark(m) ==
    [board EXCEPT !.row[m.id] = IF IsOffer(m) THEN [listing |-> m.seq, cancel |-> 0]
                                ELSE [@ EXCEPT !.cancel = m.seq]]

Applied(m) ==
    [row |-> [board.row EXCEPT
                 ![m.id] = IF IsOffer(m) THEN [listing |-> m.seq, cancel |-> 0]
                                         ELSE [@ EXCEPT !.cancel = m.seq]],
     mark |-> [board.mark EXCEPT ![m.id] = m.seq]]

Admit(m, result) ==
    /\ board' = IF result = "applied" THEN Applied(m) ELSE board
    /\ refused' = IF result \in {"refused", "untimely"}
                  THEN refused \cup {[msg |-> m, why |-> result]} ELSE refused

\* retain_transport_active_listings: active rows the snapshot lacks go,
\* cancelled ones and all watermarks stay.
Retained(active) ==
    [board EXCEPT !.row = [i \in Ids |->
        IF \/ board.row[i].cancel # 0
           \/ [id |-> i, seq |-> board.row[i].listing] \in active
        THEN board.row[i] ELSE NoRow]]

\* active_inventory: the listings the wallet shows.
Inventory == {m \in Messages : /\ board.row[m.id] = [listing |-> m.seq, cancel |-> 0]
                               /\ InWindow(m)}

-----------------------------------------------------------------------------
(***************************************************************************)
(* The relay (external).  One process numbers the events it logs from 1    *)
(* and may drop old ones.  It logs a newer listing of an identity, and the *)
(* cancellation of the listing it knows (the signature is only verified    *)
(* against the listing); it answers for what is superseded without logging *)
(* it, and it remembers nothing across a restart.                          *)
(***************************************************************************)
RelayHead == Len(relay.log)
Latest(i) == LET seqs == {relay.log[k].seq : k \in {n \in 1 .. RelayHead : relay.log[n].id = i}}
             IN  IF seqs = {} THEN 0 ELSE CHOOSE s \in seqs : \A r \in seqs : r <= s
LatestRecords == {m \in Messages : Latest(m.id) = m.seq}

RelayLogs(m) == /\ IF IsOffer(m) THEN m.seq > Latest(m.id) ELSE m.seq = Latest(m.id) + 1
                /\ RelayHead < MaxLog
RelayMayAccept(m) == m.seq <= Latest(m.id) \/ RelayLogs(m)
RelayAccepts(m) ==
    relay' = IF RelayLogs(m) THEN [relay EXCEPT !.log = Append(@, m)] ELSE relay

ForeignPublish(m) ==
    /\ m.id \in Foreign \cap setup.cast
    /\ RelayLogs(m)
    /\ relay' = [relay EXCEPT !.log = Append(@, m)]
    /\ UNCHANGED <<outboxVars, setup, worker, board, cursor, sent, refused>>

RelayPrune ==
    /\ relay.oldest <= RelayHead
    /\ relay' = [relay EXCEPT !.oldest = @ + 1]
    /\ UNCHANGED <<outboxVars, setup, worker, board, cursor, sent, refused>>

RelayRestart ==
    /\ relay.instance < MaxInstance
    /\ relay' = [instance |-> relay.instance + 1, log |-> <<>>, oldest |-> 1]
    /\ UNCHANGED <<outboxVars, setup, worker, board, cursor, sent, refused>>

-----------------------------------------------------------------------------
(***************************************************************************)
(* Publishing.  A call samples the clock, prepares (or finds prepared) one *)
(* handoff in a store transaction and hands its bytes over outside it.     *)
(***************************************************************************)
NoHandoff == [env |-> None, ordinal |-> 0, prepared |-> 0, revision |-> 0]
Resting == [pc |-> "idle", hand |-> NoHandoff, at |-> 0, rest |-> <<>>,
            base |-> [revision |-> 0, instance |-> 0, event |-> 0],
            instance |-> 0, upto |-> 0, head |-> 0, active |-> {}]

Goto(t, pc) == worker' = [worker EXCEPT ![t].pc = pc]
Stop(t) == worker' = [worker EXCEPT ![t] = Resting]

\* sync, or announce_next_local_publication, begins.
Start(t) ==
    /\ worker[t] = Resting
    /\ Goto(t, "prepare")
    /\ UNCHANGED <<outboxVars, setup, board, cursor, relay, sent, refused>>

Hold(t, h) ==
    worker' = [worker EXCEPT ![t] = [Resting EXCEPT
                  !.pc = IF setup.transport = "relay" THEN "publish" ELSE "admit",
                  !.hand = h, !.at = IF setup.transport = "relay" THEN 0 ELSE now]]

\* prepare_next_shakescape_handoff: refused while the record is dated ahead
\* of the clock; a prepared entry is handed out again before any other.
Prepare(t) ==
    /\ worker[t].pc = "prepare"
    /\ \/ /\ ~MaySave(now)
          /\ Stop(t)
          /\ UNCHANGED outbox
       \/ /\ MaySave(now)
          /\ \E e \in Prepared : Hold(t, Handoff(outbox, e))
          /\ UNCHANGED outbox
       \/ /\ MaySave(now) /\ Prepared = {}
          /\ \E e \in Due(now) : /\ outbox' = PreparedAt(e, now)
                                 /\ Hold(t, Handoff(outbox', e))
       \/ /\ MaySave(now) /\ Prepared = {} /\ Due(now) = {}
          /\ IF setup.transport = "relay" THEN Goto(t, "fetch") ELSE Stop(t)
          /\ UNCHANGED outbox
    /\ UNCHANGED <<now, lock, seller, client, setup, board, cursor, relay,
                   sent, refused>>

Attempt(h) == [msg |-> h.env, ordinal |-> h.ordinal]

\* publish_shakescape_name_market: the relay accepts, the answer to an
\* acceptance is lost, or the call fails.
Publish(t) ==
    LET h == worker[t].hand
    IN  /\ worker[t].pc = "publish"
        /\ sent' = sent \cup {Attempt(h)}
        /\ \/ /\ RelayMayAccept(h.env) /\ RelayAccepts(h.env)
              /\ \E a \in (now - Skew) .. (now + Skew) :
                    /\ a >= h.prepared
                    /\ worker' = [worker EXCEPT ![t].pc = "record", ![t].at = a]
           \/ /\ RelayMayAccept(h.env) /\ RelayAccepts(h.env)
              /\ Goto(t, "fail")
           \/ /\ Goto(t, "fail")
              /\ UNCHANGED relay
        /\ UNCHANGED <<outboxVars, setup, board, cursor, refused>>

\* Both transports record their outcome the same way: a match is saved, a
\* repetition of a durable outcome succeeds, anything else stops the call.
RecordOutcome(t, state, next) ==
    LET h == worker[t].hand
        a == worker[t].at
    IN  \/ /\ ~AlreadyRecorded(h, state, a)
           /\ Matches(h) /\ a >= h.prepared /\ MaySave(a)
           /\ outbox' = Recorded(h, state, a)
           /\ worker' = [worker EXCEPT ![t] = [Resting EXCEPT !.pc = next]]
        \/ /\ AlreadyRecorded(h, state, a)
           /\ worker' = [worker EXCEPT ![t] = [Resting EXCEPT !.pc = next]]
           /\ UNCHANGED outbox
        \/ /\ ~AlreadyRecorded(h, state, a)
           /\ ~(Matches(h) /\ a >= h.prepared /\ MaySave(a))
           /\ Stop(t)
           /\ UNCHANGED outbox

RecordAcceptance(t) ==
    /\ worker[t].pc = "record" /\ setup.transport = "relay"
    /\ RecordOutcome(t, "accepted", "prepare")
    /\ UNCHANGED <<now, lock, seller, client, setup, board, cursor, relay,
                   sent, refused>>

\* A failed call is recorded with a retry time, and the sync goes on to read.
RecordFailure(t) ==
    LET h == worker[t].hand
        f == Max2(now, h.prepared)
    IN  /\ worker[t].pc = "fail"
        /\ \/ /\ Matches(h) /\ MaySave(f)
              /\ outbox' = FailedAt(h.env, f, f + Backoff)
              /\ worker' = [worker EXCEPT ![t] = [Resting EXCEPT !.pc = "fetch"]]
           \/ /\ ~(Matches(h) /\ MaySave(f))
              /\ Stop(t)
              /\ UNCHANGED outbox
        /\ UNCHANGED <<now, lock, seller, client, setup, board, cursor, relay,
                       sent, refused>>

\* Mutant: a refusal by the wallet's own board does not stop the call.
AdmitIgnoringRefusal(t) ==
    LET m == worker[t].hand.env
    IN  /\ worker[t].pc = "admit"
        /\ Admit(m, Result(m))
        /\ Goto(t, "send")
        /\ UNCHANGED <<outboxVars, setup, cursor, relay, sent>>

\* announce_next_local_publication: own board first, then the socket.
AdmitOwn(t) ==
    LET m == worker[t].hand.env
    IN  /\ worker[t].pc = "admit"
        /\ Admit(m, Result(m))
        /\ IF Result(m) \in {"applied", "existing"} THEN Goto(t, "send") ELSE Stop(t)
        /\ UNCHANGED <<outboxVars, setup, cursor, relay, sent>>

Send(t) ==
    /\ worker[t].pc = "send"
    /\ sent' = sent \cup {Attempt(worker[t].hand)}
    /\ Goto(t, "record")
    /\ UNCHANGED <<outboxVars, setup, board, cursor, relay, refused>>

RecordAnnouncement(t) ==
    /\ worker[t].pc = "record" /\ setup.transport = "peers"
    /\ RecordOutcome(t, "announced", "idle")
    /\ UNCHANGED <<now, lock, seller, client, setup, board, cursor, relay,
                   sent, refused>>

\* begin: a new peer is sent every completed publication still in its window.
BeginPeer ==
    /\ setup.transport = "peers"
    /\ sent' = sent \cup {Attempt(Handoff(outbox, e)) :
                  e \in {x \in Entries : outbox.entries[x].state \in Completed /\ InWindow(x)}}
    /\ UNCHANGED <<outboxVars, setup, worker, board, cursor, relay, refused>>

\* handle_message of an offer or a cancellation from a peer.
Receive(m) ==
    /\ setup.transport = "peers"
    /\ m.id \in Foreign \cap setup.cast
    /\ Admit(m, Result(m))
    /\ UNCHANGED <<outboxVars, setup, worker, cursor, relay, sent>>

-----------------------------------------------------------------------------
(***************************************************************************)
(* Consuming the relay's log: a page is fetched, its events are admitted   *)
(* one store transaction at a time, and the cursor is saved by CAS against *)
(* the cursor the page was fetched with.                                   *)
(***************************************************************************)
InstanceChanged == cursor.instance # 0 /\ cursor.instance # relay.instance
WindowLost == IF cursor.instance = 0 THEN relay.oldest > 1
              ELSE cursor.event # 0 /\ cursor.event + 1 < relay.oldest

\* accepted_shakescape_replays in window, by creation time, then kind.
Replays ==
    LET live == {e \in Entries : outbox.entries[e].state = "accepted" /\ InWindow(e)}
        Before(d, e) == \/ Created(d) < Created(e)
                        \/ Created(d) = Created(e) /\ d.seq < e.seq
    IN  SetToSortSeq(live, Before)

Fetch(t) ==
    /\ worker[t].pc = "fetch"
    /\ LET last == IF RelayHead <= cursor.event + PageLimit THEN RelayHead
                   ELSE cursor.event + PageLimit
           page == SubSeq(relay.log, Max2(cursor.event + 1, relay.oldest), last)
           read == [Resting EXCEPT !.base = cursor, !.instance = relay.instance,
                                   !.head = RelayHead]
       IN  \/ /\ InstanceChanged
              /\ worker' = [worker EXCEPT ![t] = [read EXCEPT !.pc = "replay",
                                                              !.rest = Replays]]
           \/ /\ ~InstanceChanged /\ WindowLost
              /\ worker' = [worker EXCEPT ![t] = [read EXCEPT !.pc = "snapshot"]]
           \/ /\ ~InstanceChanged /\ ~WindowLost
              /\ worker' = [worker EXCEPT ![t] =
                    [read EXCEPT !.pc = "apply", !.rest = page,
                                 !.upto = IF page = <<>> THEN cursor.event ELSE last]]
    /\ UNCHANGED <<outboxVars, setup, board, cursor, relay, sent, refused>>

\* apply_event: a refused record is counted and skipped, a full board stops
\* the sync.
ApplyEvent(t) ==
    LET m == worker[t].rest[1]
    IN  /\ worker[t].pc = "apply" /\ worker[t].rest # <<>>
        /\ Admit(m, Result(m))
        /\ IF Result(m) = "full" THEN Stop(t)
           ELSE worker' = [worker EXCEPT ![t].rest = Tail(@)]
        /\ UNCHANGED <<outboxVars, setup, cursor, relay, sent>>

\* save_transport_cursor: a write only when it moves, against what was read.
CursorTo(t, base) ==
    [revision |-> base.revision + 1, instance |-> worker[t].instance,
     event |-> worker[t].upto]
CursorStands(t, base) ==
    base.instance = worker[t].instance /\ base.event = worker[t].upto

\* Mutant: the cursor is moved to the relay's head, not to the last event read.
SaveCursorAtHead(t) ==
    /\ worker[t].pc = "apply" /\ worker[t].rest = <<>>
    /\ worker[t].base = cursor
    /\ cursor' = [CursorTo(t, cursor) EXCEPT !.event = worker[t].head]
    /\ Stop(t)
    /\ UNCHANGED <<outboxVars, setup, board, relay, sent, refused>>

SaveCursor(t) ==
    /\ worker[t].pc = "apply" /\ worker[t].rest = <<>>
    /\ \/ /\ CursorStands(t, worker[t].base) \/ worker[t].base = cursor
          /\ cursor' = IF CursorStands(t, worker[t].base) THEN cursor
                       ELSE CursorTo(t, cursor)
          /\ worker' = [worker EXCEPT ![t] =
                IF worker[t].upto >= worker[t].head THEN Resting
                ELSE [Resting EXCEPT !.pc = "fetch"]]
       \/ /\ ~CursorStands(t, worker[t].base) /\ worker[t].base # cursor
          /\ Stop(t)
          /\ UNCHANGED cursor
    /\ UNCHANGED <<outboxVars, setup, board, relay, sent, refused>>

\* replay_accepted_publications: one call per publication, an error stops it.
Replay(t) ==
    LET e == worker[t].rest[1]
    IN  /\ worker[t].pc = "replay" /\ worker[t].rest # <<>>
        /\ sent' = sent \cup {Attempt(Handoff(outbox, e))}
        /\ \/ /\ RelayMayAccept(e) /\ RelayAccepts(e)
              /\ worker' = [worker EXCEPT ![t].rest = Tail(@)]
           \/ /\ e.seq < Latest(e.id)   \* superseded: the relay may refuse it
              /\ Stop(t)
              /\ UNCHANGED relay
        /\ UNCHANGED <<outboxVars, setup, board, cursor, refused>>

\* rebuild_from_snapshot: the records of one relay revision, of the process
\* the event page came from.
Snapshot(t) ==
    /\ \/ worker[t].pc = "replay" /\ worker[t].rest = <<>>
       \/ worker[t].pc = "snapshot"
    /\ IF relay.instance # worker[t].instance THEN Stop(t)
       ELSE \E records \in SetToSeqs(LatestRecords) :
               worker' = [worker EXCEPT ![t].pc = "rebuild", ![t].rest = records,
                                        ![t].upto = RelayHead]
    /\ UNCHANGED <<outboxVars, setup, board, cursor, relay, sent, refused>>

ApplyRecord(t) ==
    LET m == worker[t].rest[1]
    IN  /\ worker[t].pc = "rebuild" /\ worker[t].rest # <<>>
        /\ Admit(m, Result(m))
        /\ IF Result(m) = "full" THEN Stop(t)
           ELSE worker' = [worker EXCEPT
                  ![t].rest = Tail(@),
                  ![t].active = IF IsOffer(m) /\ Result(m) \in {"applied", "existing"}
                                THEN @ \cup {m} ELSE @]
        /\ UNCHANGED <<outboxVars, setup, cursor, relay, sent>>

\* reconcile_transport_snapshot: the trimmed board must itself be valid.
Reconcile(t) ==
    /\ worker[t].pc = "rebuild" /\ worker[t].rest = <<>>
    /\ IF ValidBoard(Retained(worker[t].active))
       THEN board' = Retained(worker[t].active) /\ Goto(t, "resume")
       ELSE UNCHANGED board /\ Stop(t)
    /\ UNCHANGED <<outboxVars, setup, cursor, relay, sent, refused>>

\* The rebuilt cursor is saved against the cursor read then; the sync goes on.
SaveRebuilt(t) ==
    /\ worker[t].pc = "resume"
    /\ \/ /\ cursor.instance = worker[t].instance /\ worker[t].upto < cursor.event
          /\ Stop(t)
          /\ UNCHANGED cursor
       \/ /\ ~(cursor.instance = worker[t].instance /\ worker[t].upto < cursor.event)
          /\ cursor' = IF CursorStands(t, cursor) THEN cursor ELSE CursorTo(t, cursor)
          /\ worker' = [worker EXCEPT ![t] = [Resting EXCEPT !.pc = "fetch"]]
    /\ UNCHANGED <<outboxVars, setup, board, relay, sent, refused>>

\* Any other error, a crash or the end of a bounded loop stops a call.
Interrupt(t) ==
    /\ Interrupts
    /\ worker[t] # Resting
    /\ Stop(t)
    /\ UNCHANGED <<outboxVars, setup, board, cursor, relay, sent, refused>>

-----------------------------------------------------------------------------
MarketInit ==
    /\ OutboxInit
    /\ lock = [i \in Ids |-> IF i \in Foreign THEN "held" ELSE "none"]
    /\ setup \in Setups
    /\ worker = [t \in Workers |-> Resting]
    /\ board = [row |-> [i \in Ids |-> NoRow], mark |-> [i \in Ids |-> 0]]
    /\ cursor = Resting.base
    /\ relay = [instance |-> 1, log |-> <<>>, oldest |-> 1]
    /\ sent = {} /\ refused = {}

WorkerStep(t) ==
    \/ Prepare(t)
    \/ Publish(t) \/ RecordAcceptance(t) \/ RecordFailure(t)
    \/ AdmitOwn(t) \/ Send(t) \/ RecordAnnouncement(t)
    \/ Fetch(t) \/ ApplyEvent(t) \/ SaveCursor(t)
    \/ Replay(t) \/ Snapshot(t) \/ ApplyRecord(t) \/ Reconcile(t) \/ SaveRebuilt(t)

RelayStep ==
    /\ setup.transport = "relay"
    /\ \/ \E m \in Messages : ForeignPublish(m)
       \/ RelayPrune \/ RelayRestart

MarketNext ==
    \/ SellerStep(setup.cast) /\ UNCHANGED marketVars
    \/ \E t \in setup.threads : Start(t) \/ WorkerStep(t) \/ Interrupt(t)
    \/ BeginPeer
    \/ \E m \in Messages : Receive(m)
    \/ RelayStep

MarketSpec == MarketInit /\ [][MarketNext]_vars

\* The runtime synchronises again and again, and a call that is not
\* interrupted runs to its end.
SyncingSpec ==
    /\ MarketSpec
    /\ \A t \in Workers : /\ WF_vars(t \in setup.threads /\ Start(t))
                          /\ WF_vars(t \in setup.threads /\ WorkerStep(t))

-----------------------------------------------------------------------------
(***************************************************************************)
(* Properties.                                                             *)
(***************************************************************************)
Times == 0 .. (MaxTime + Skew + Backoff + Lifetime)
States == {"absent", "pending", "prepared", "retry"} \cup Terminal
Handoffs == [env : Envelopes, ordinal : 1 .. MaxRetry, prepared : Times,
             revision : Nat] \cup {NoHandoff}
Cursors == [revision : Nat, instance : 0 .. MaxInstance, event : 0 .. MaxLog]

\* Every variable keeps its type, and the stored board always passes the
\* structure check that loading it applies.
TypeOK ==
    /\ now \in 0 .. MaxTime
    /\ lock \in [Ids -> {"none", "held", "spent"}]
    /\ seller \in [Offers -> {"none", "name_lock_required", "publication_queued",
                              "cancellation_queued"}]
    /\ client \in [Clients -> Requests \cup {Idle}]
    /\ outbox.revision \in Nat /\ outbox.updated \in Times
    /\ outbox.entries \in [Envelopes -> [state : States, attempts : 0 .. MaxRetry,
          created : Times, expires : Times, due : Times, prepared : Times, last : Times]]
    /\ setup \in Setups
    /\ \A t \in Workers : /\ worker[t].hand \in Handoffs
                          /\ worker[t].rest \in Seq(Messages)
                          /\ worker[t].base \in Cursors
    /\ board.row \in [Ids -> [listing : {0, 1, 3}, cancel : {0, 2}]]
    /\ board.mark \in [Ids -> 0 .. 3]
    /\ ValidBoard(board)
    /\ cursor \in Cursors
    /\ relay.log \in Seq(Messages) /\ relay.oldest \in 1 .. (MaxLog + 1)
    /\ refused \subseteq [msg : Messages, why : {"refused", "untimely"}]

\* Bytes leave the wallet only under an attempt that is durable: each attempt
\* that was handed to a relay or a peer is the prepared one, one that already
\* failed, or the one that was settled (prepare_next_shakescape_handoff:
\* "Persist exactly one deterministic due handoff before returning its bytes").
SentWasJournaled ==
    \A a \in sent :
        LET e == outbox.entries[a.msg]
        IN  \/ a.ordinal <= e.attempts
            \/ a.ordinal = e.attempts + 1 /\ e.state \in Completed \cup {"prepared"}

\* The board only moves forward: a watermark never falls, and a listing that
\* was cancelled never becomes active again, whatever order relay events, peer
\* messages, snapshots and retries arrive in.
BoardOnlyAdvances ==
    [][\A i \in Ids :
          /\ board'.mark[i] >= board.mark[i]
          /\ (board.row[i].cancel # 0 /\ board'.row[i].cancel = 0)
                => board'.row[i].listing > board.row[i].cancel]_board

\* A publication recorded as announced is on the wallet's own board, or was
\* superseded there, so later inventory exchanges offer it
\* (announce_next_local_publication).
AnnouncedOnBoard ==
    \A e \in Entries :
        outbox.entries[e].state = "announced" => board.mark[e.id] >= e.seq

\* The cursor skips nothing: an event of the current relay process that the
\* relay still retains and the cursor has passed was admitted to the board or
\* refused by it, or a later message of the same listing identity was, although
\* a sync may stop between any two events and the cursor is a separate record.
Settled(m) ==
    \E later \in Messages :
        /\ later.id = m.id /\ later.seq >= m.seq
        /\ board.mark[m.id] >= later.seq \/ \E r \in refused : r.msg = later
CursorSkipsNothing ==
    cursor.instance = relay.instance =>
        \A k \in relay.oldest .. cursor.event : Settled(relay.log[k])

\* A cancellation the sync has consumed takes its listing out of the inventory:
\* no listing is shown whose cancellation the relay retains and the cursor has
\* passed, unless that cancellation was outside its signed window when it was
\* applied (admit_cancellation refuses it, apply_record counts it and the cursor
\* passes it).  Neither a spent lock, nor a stopped sync, nor a rebuild from a
\* snapshot makes another exception.
ConsumedCancelsHold ==
    cursor.instance = relay.instance =>
        \A k \in relay.oldest .. cursor.event :
            /\ ~IsOffer(relay.log[k])
            /\ [msg |-> relay.log[k], why |-> "untimely"] \notin refused
            => [relay.log[k] EXCEPT !.seq = @ - 1] \notin Inventory

\* A wallet that notices a restarted relay resumes consuming it: the cursor
\* moves to the new process (rebuild_from_snapshot, and
\* reconcile_transport_snapshot: "Remove active rows absent from one coherent
\* node latest-state snapshot while retaining signed cancellation tombstones
\* and sequence watermarks").
RelayRestartRecovered ==
    InstanceChanged ~> ~InstanceChanged
=============================================================================
