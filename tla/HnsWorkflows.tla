---------------------------- MODULE HnsWorkflows ----------------------------
(***************************************************************************)
(* The Handshake value workflows: ordinary sends, name operations and swap *)
(* settlements, and the input reservations they share.                     *)
(*                                                                         *)
(* A workflow is a store record that advances Prepared -> Authorized ->    *)
(* RequiresRebroadcast -> Broadcast -> (what the chain says).  A prepared  *)
(* workflow holds one reservation row per wallet outpoint it spends; the   *)
(* rows expire with the plan until the workflow is authorized, and are     *)
(* permanent afterwards.  The durable stage becomes RequiresRebroadcast    *)
(* before each submission and Broadcast after it.  Calls run in several    *)
(* threads and release the store lock while they talk to the node, so a    *)
(* call saves its result only against the revision it read.                *)
(*                                                                         *)
(* A settlement may be a package: a recovery publication, a chain of       *)
(* ancestors whose first transaction spends the reserved coins, is sent    *)
(* before the contract transaction, which spends the last ancestor's       *)
(* output.  The ancestors are one transaction here.                        *)
(*                                                                         *)
(* The node and the chain are external: a submitted transaction may enter  *)
(* the mempool, leave it, confirm, be reorganised out, or lose to a        *)
(* foreign spend of the same outpoint.                                     *)
(***************************************************************************)
EXTENDS Naturals, FiniteSets

CONSTANTS Coins,        \* ordinary wallet outpoints
          Names,        \* outpoints that control a name
          Sends, Transfers, Finalizes, Updates,
          Locks,        \* settlement workflows
          Packages,     \* the settlements funded with a recovery publication
          Threads,
          Setups,       \* the workflows and threads that take part together and a
                        \* bound on drops, reorganisations, foreign spends and crashes
          None, Foreign,
          Lifetime,     \* PREPARED_ARTIFACT_LIFETIME_SECONDS
          Grace,        \* SEND_PROPAGATION_GRACE_SECONDS
          MaxTime       \* bound on the clock

NameFlows == Transfers \cup Finalizes \cup Updates
Workflows == Sends \cup NameFlows \cup Locks
Outpoints == Coins \cup Names

ASSUME WorkflowsAssumption ==
    /\ Packages \subseteq Locks
    /\ Setups \subseteq [cast : SUBSET Workflows, threads : SUBSET Threads, upsets : Nat]
    /\ Lifetime \in Nat \ {0} /\ Grace \in Nat /\ MaxTime \in Nat
    /\ {None, Foreign} \cap Workflows = {} /\ None # Foreign
    /\ Sends \cap (NameFlows \cup Locks) = {} /\ NameFlows \cap Locks = {}

VARIABLES setup,     \* the configuration, fixed for a behaviour
          flow,      \* durable workflow records
          row,       \* durable reservation rows, one per outpoint
          approval,  \* durable pending approvals, by the workflow they commit to
          cache,     \* the runtime's synchronized view
          job,       \* the call each thread is in
          chain,     \* the network: spender per outpoint, mempool, confirmed contracts
                     \* of packages, missing coins, and how often each name's source
                     \* evidence has changed
          public,    \* history: transactions whose bytes reached the network
          gone,      \* history: coins that were ever spent on chain or missing
          upsets,    \* disturbances so far
          now

storeVars == <<flow, row, approval>>
chainVars == <<chain, public, gone>>
vars == <<setup, flow, row, approval, cache, job, chain, public, gone, upsets, now>>

NoFlow == [stage |-> None]
Free == [owner |-> None]
Idle == [op |-> "idle"]
Forever == MaxTime + Lifetime + 1   \* a row without expiry

Live == {"Authorized", "RequiresRebroadcast", "Broadcast", "Mempool"}
Submitted == Live \ {"Authorized"}
\* A transfer is TransferLocked (or FinalizeEligible) until its output is
\* spent, then Finalized (or TransferCancelled).
ConfirmedStages == {"TransferLocked", "Finalized"}
Stages == Live \cup ConfirmedStages \cup
    {"Prepared", "Confirmed", "Updated", "ReapprovalRequired", "Conflicted",
     "Abandoned", "Expired", "Cancelled"}
ASSUME NoStageAssumption == None \notin Stages

\* bound: the signed bytes are durable (sends, names) or their submission may
\* have begun (settlements): the store's irreversible_broadcast_prepared.
\* saved: when Broadcast was last recorded.
\* started: a package's contract transaction may have been submitted.
Flows == [stage : Stages, inputs : (SUBSET Outpoints) \ {{}}, expires : Nat, saved : Nat,
          bound : BOOLEAN, started : BOOLEAN, view : BOOLEAN, source : Nat]

\* Transactions.  A workflow stands for its own (the contract transaction of a
\* package); the ancestors belong to one plan, told by its expiry, and outlive
\* it when the workflow is prepared again.
Ancestors == [of : Packages, plan : Nat, inputs : SUBSET Outpoints]
Txs == Workflows \cup Ancestors

\* tx: what the call writes to the node next.
Jobs == [op : {"authorize", "submit"}, id : Workflows, tx : Txs,
         step : {"quote", "timed", "ancestors", "sent", "send", "accepted"}, current : BOOLEAN]

\* Records, rows, calls and the network keep their types; every saved plan
\* spends something (the selection of prepare_send and of the settlements).
TypeOK ==
    /\ setup \in Setups
    /\ flow \in [Workflows -> Flows \cup {NoFlow}]
    /\ row \in [Outpoints -> [owner : Workflows, until : Nat] \cup {Free}]
    /\ approval \subseteq Workflows
    /\ cache \in [ready : BOOLEAN, fresh : BOOLEAN, coins : SUBSET Coins]
    /\ job \in [Threads -> Jobs \cup {Idle}]
    /\ chain \in [spender : [Outpoints -> Txs \cup {None, Foreign}],
                  pool : SUBSET Txs, mined : SUBSET Packages, missing : SUBSET Coins,
                  moves : [Names -> Nat]]
    /\ public \subseteq Txs /\ gone \subseteq Coins
    /\ upsets \in 0 .. setup.upsets /\ now \in 0 .. MaxTime

Init ==
    /\ setup \in Setups
    /\ flow = [w \in Workflows |-> NoFlow]
    /\ row = [o \in Outpoints |-> Free]
    /\ approval = {}
    /\ cache = [ready |-> FALSE, fresh |-> FALSE, coins |-> {}]
    /\ job = [t \in Threads |-> Idle]
    /\ chain = [spender |-> [o \in Outpoints |-> None], pool |-> {}, mined |-> {},
                missing |-> {}, moves |-> [n \in Names |-> 0]]
    /\ public = {} /\ gone = {}
    /\ upsets = 0 /\ now = 0

-----------------------------------------------------------------------------
(***************************************************************************)
(* Reservation rows.                                                       *)
(***************************************************************************)
RowsOf(w) == {o \in Outpoints : row[o].owner = w}
Reserved(rows, os, w, until) ==
    [o \in Outpoints |-> IF o \in os THEN [owner |-> w, until |-> until] ELSE rows[o]]

\* reservation_deletes
Released(rows, w) == [o \in Outpoints |-> IF rows[o].owner = w THEN Free ELSE rows[o]]

\* reservation_activation_saves: the rows found, whatever the plan spends.
Activated(w) == Reserved(row, RowsOf(w), w, Forever)

\* validate_prepared_reservations, validate_name_reservations
ExactRows(w, until) == \A o \in Outpoints :
    IF o \in flow[w].inputs THEN row[o] = [owner |-> w, until |-> until]
                            ELSE row[o].owner # w

\* available_unreserved_coins deletes every expired row, then offers the
\* cached coins without one.
Swept == [o \in Outpoints |-> IF row[o] # Free /\ row[o].until <= now THEN Free ELSE row[o]]
Available == {o \in cache.coins : Swept[o] = Free}

-----------------------------------------------------------------------------
(***************************************************************************)
(* What the node reports of a workflow's transaction.                      *)
(***************************************************************************)
Ancestor(w) == [of |-> w, plan |-> flow[w].expires, inputs |-> flow[w].inputs]

\* The wallet outpoints a transaction spends, and the transaction through which
\* it spends the coins of its plan.
Spends(x) == IF x \in Packages THEN {} ELSE IF x \in Workflows THEN flow[x].inputs ELSE x.inputs
Root(x) == IF x \in Packages THEN Ancestor(x) ELSE x

Competing(x) == \E o \in Spends(x) : chain.spender[o] \notin {None, x}
InChain(x) == IF x \in Packages THEN x \in chain.mined
              ELSE \A o \in Spends(x) : chain.spender[o] = x
InPool(x) == x \in chain.pool
Absent(x) == ~Competing(x) /\ ~InChain(x) /\ ~InPool(x)
WithinGrace(w) == flow[w].stage = "Broadcast" /\ now - flow[w].saved < Grace

NameOf(w) == CHOOSE n \in Names : n \in flow[w].inputs
SourceMoved(w) == chain.moves[NameOf(w)] # flow[w].source
PoolSpends(o) == \E x \in chain.pool : o \in Spends(x)
SourceUnspent(n) == chain.spender[n] = None /\ ~PoolSpends(n)

\* A save of a workflow invalidates the revision that every call in progress
\* on it has read: all that is left to do for one between its node calls is
\* to fail.
Overtaken(jobs, ws) ==
    [u \in Threads |-> IF jobs[u] = Idle \/ jobs[u].id \notin ws THEN jobs[u]
                       ELSE IF jobs[u].step \in {"sent", "accepted"} THEN Idle
                       ELSE [jobs[u] EXCEPT !.current = FALSE]]
Stopped(t) == [job EXCEPT ![t] = Idle]
Reached(t, w, step, tx) == [Overtaken(job, {w}) EXCEPT
    ![t] = [op |-> "submit", id |-> w, tx |-> tx, step |-> step, current |-> TRUE]]

-----------------------------------------------------------------------------
(***************************************************************************)
(* Preparation and withdrawal.  The plan, its rows and the account that    *)
(* owns the change key are one transaction; a preparation that fails later *)
(* has still deleted the expired rows.                                     *)
(***************************************************************************)
Plan(in, source) ==
    [stage |-> "Prepared", inputs |-> in, expires |-> now + Lifetime, saved |-> 0,
     bound |-> FALSE, started |-> FALSE, view |-> TRUE, source |-> source]

Prepare(w, in, source) ==
    /\ flow' = [flow EXCEPT ![w] = Plan(in, source)]
    /\ row' = Reserved(Swept, in, w, now + Lifetime)
    /\ job' = Overtaken(job, {w})
    /\ UNCHANGED <<setup, approval, cache, chainVars, upsets, now>>

\* Mutant: a coin selection that finds nothing is taken for a selection.
PrepareSendUnfunded(w) ==
    /\ w \in Sends /\ flow[w] = NoFlow /\ cache.ready
    /\ \E in \in SUBSET Available : Prepare(w, in, 0)

PrepareSend(w) ==
    /\ w \in Sends /\ flow[w] = NoFlow /\ cache.ready
    /\ \E in \in SUBSET Available : in # {} /\ Prepare(w, in, 0)

\* verify_wallet_name_action_v2, require_action_context_v2: the name's owner
\* must be unspent in the snapshot the runtime is synchronized to.
Eligible(n) == cache.fresh /\ SourceUnspent(n)

\* persist_prepared_name_operation
PersistName(w, n, fund) ==
    /\ fund # {} /\ Swept[n] = Free
    /\ Prepare(w, {n} \cup fund, chain.moves[n])

\* prepare_name_transfer, prepare_name_finalize, prepare_name_update
PrepareName(w) ==
    /\ w \in NameFlows /\ flow[w] = NoFlow /\ cache.ready
    /\ \E n \in Names, fund \in SUBSET Available : Eligible(n) /\ PersistName(w, n, fund)

\* settlement_lock_workflow_may_be_reprepared, persist_prepared_settlement
Replaceable(w) ==
    \/ flow[w] = NoFlow
    \/ flow[w].stage \in {"Expired", "Cancelled"} /\ ~flow[w].bound
PrepareLock(w) ==
    /\ w \in Locks /\ Replaceable(w) /\ RowsOf(w) = {} /\ cache.ready
    /\ \E in \in SUBSET Available : in # {} /\ Prepare(w, in, 0)

PrepareRefused ==
    /\ row # Swept /\ row' = Swept
    /\ UNCHANGED <<setup, flow, approval, cache, job, chainVars, upsets, now>>

\* A withdrawn settlement is no longer irreversible; a withdrawn name
\* operation keeps the bytes it signed.
Withdraw(w, stage) ==
    /\ flow' = [flow EXCEPT ![w].stage = stage,
                            ![w].bound = IF w \in Locks THEN FALSE ELSE @]
    /\ row' = Released(row, w)

\* register_send_approval, register_name_operation_approval; put_pending_approval
\* deletes the approvals that have expired with their plans.
RegisterApproval(w) ==
    /\ w \in Sends \cup NameFlows /\ flow[w].stage = "Prepared" /\ now < flow[w].expires
    /\ approval' = {v \in approval : now < flow[v].expires} \cup {w}
    /\ UNCHANGED <<setup, flow, row, cache, job, chainVars, upsets, now>>

\* discard_trusted_native_hns_value_action: a prepared send is cancelled, a
\* prepared name operation only loses its approval.
Discard(w, jobs) ==
    /\ approval' = approval \ {w}
    /\ IF w \in Sends /\ flow[w].stage = "Prepared"
       THEN Withdraw(w, "Cancelled") /\ job' = Overtaken(jobs, {w})
       ELSE job' = jobs /\ UNCHANGED <<flow, row>>
RejectApproval(w) ==
    /\ w \in approval /\ Discard(w, job)
    /\ UNCHANGED <<setup, cache, chainVars, upsets, now>>

\* cancel_prepared_name_operation
CancelName(w) ==
    /\ w \in NameFlows /\ flow[w].stage \in {"Prepared", "ReapprovalRequired"}
    /\ Withdraw(w, "Cancelled") /\ job' = Overtaken(job, {w})
    /\ UNCHANGED <<setup, approval, cache, chainVars, upsets, now>>

\* cancel_prepared_settlement, and the retirement of a prepared settlement
\* that expired or whose guard changed, by the next preparation.
CancelLock(w) ==
    /\ w \in Locks /\ flow[w].stage = "Prepared"
    /\ Withdraw(w, IF flow[w].expires <= now THEN "Expired" ELSE "Cancelled")
    /\ job' = Overtaken(job, {w})
    /\ UNCHANGED <<setup, approval, cache, chainVars, upsets, now>>

-----------------------------------------------------------------------------
(***************************************************************************)
(* Execution of an approved send or name operation: prepare again, sign,   *)
(* quote, authorize, submit.  The commit time is read before the store     *)
(* lock is taken.                                                          *)
(***************************************************************************)
Enter(t, op, w) == job' = [job EXCEPT ![t] =
    [op |-> op, id |-> w, tx |-> w, step |-> "quote", current |-> TRUE]]
At(t, op, step) == job[t] # Idle /\ job[t].op = op /\ job[t].step = step

\* The re-preparation finds the stored plan: same snapshot for a name.
BeginAuthorize(t, w) ==
    /\ job[t] = Idle /\ cache.ready /\ w \in approval
    /\ flow[w].stage = "Prepared" /\ now < flow[w].expires
    /\ ExactRows(w, flow[w].expires)
    /\ w \in NameFlows => cache.fresh /\ flow[w].view
    /\ Enter(t, "authorize", w)
    /\ UNCHANGED <<setup, storeVars, cache, chainVars, upsets, now>>

\* Any failure on the way discards the approval.
FailAuthorize(t) ==
    /\ job[t] # Idle /\ job[t].op = "authorize"
    /\ Discard(job[t].id, Stopped(t))
    /\ UNCHANGED <<setup, cache, chainVars, upsets, now>>

\* reacquire_name_plan_authority at the current snapshot.
SourceHolds(w) == w \in NameFlows => cache.fresh /\ ~SourceMoved(w) /\ SourceUnspent(NameOf(w))

ReadCommitTime(t) ==
    /\ At(t, "authorize", "quote") /\ now < flow[job[t].id].expires
    /\ SourceHolds(job[t].id)
    /\ job' = [job EXCEPT ![t].step = "timed"]
    /\ UNCHANGED <<setup, storeVars, cache, chainVars, upsets, now>>

\* mark_name_operation_reapproval_required, then the caller's error path.
RequireReapproval(t) ==
    /\ job[t] # Idle /\ job[t].step = "quote"
    /\ LET w == job[t].id IN
       /\ w \in NameFlows /\ cache.fresh /\ SourceMoved(w) /\ SourceUnspent(NameOf(w))
       /\ flow[w].stage \in {"Prepared", "Authorized", "RequiresRebroadcast"}
       /\ flow' = [flow EXCEPT ![w].stage = "ReapprovalRequired"]
       /\ approval' = IF job[t].op = "authorize" THEN approval \ {w} ELSE approval
       /\ job' = Overtaken(Stopped(t), {w})
    /\ UNCHANGED <<setup, row, cache, chainVars, upsets, now>>

\* Mutant: the rows of a name operation are not validated at the commit.
CommitAuthorizeUnvalidated(t) ==
    /\ At(t, "authorize", "timed")
    /\ LET w == job[t].id IN
       /\ flow[w].stage = "Prepared" /\ w \in approval
       /\ flow' = [flow EXCEPT ![w].stage = "Authorized", ![w].bound = TRUE]
       /\ row' = Activated(w) /\ approval' = approval \ {w}
       /\ job' = Reached(t, w, "quote", w)
    /\ UNCHANGED <<setup, cache, chainVars, upsets, now>>

\* The approval is consumed, the rows become permanent and the signed bytes
\* durable in one transaction; the same call goes on to submit.
CommitAuthorize(t) ==
    /\ At(t, "authorize", "timed")
    /\ LET w == job[t].id IN
       /\ flow[w].stage = "Prepared" /\ w \in approval
       /\ w \in NameFlows => ExactRows(w, flow[w].expires)
       /\ flow' = [flow EXCEPT ![w].stage = "Authorized", ![w].bound = TRUE]
       /\ row' = Activated(w) /\ approval' = approval \ {w}
       /\ job' = Reached(t, w, "quote", w)
    /\ UNCHANGED <<setup, cache, chainVars, upsets, now>>

-----------------------------------------------------------------------------
(***************************************************************************)
(* Submission: save RequiresRebroadcast, call the node, save Broadcast.    *)
(* A package first sends its ancestors, outside the lock, and then records *)
(* that the contract transaction may follow, unless its deadline (folded   *)
(* into expires) has passed: then the plan is retired with its ancestors   *)
(* public.                                                                 *)
(***************************************************************************)
\* Mutant: an unstarted package is not told from a started one.
LockExpiredAnyway(w) ==
    /\ now >= flow[w].expires
    /\ flow[w].stage \in IF w \in Packages THEN {"Prepared"} \cup Submitted ELSE {"Prepared"}

LockExpired(w) ==
    /\ now >= flow[w].expires
    /\ \/ flow[w].stage = "Prepared"
       \/ w \in Packages /\ flow[w].stage \in Submitted /\ ~flow[w].started

\* rebroadcast_pending_send, rebroadcast_pending_name_operation and
\* broadcast_prepared_settlement, up to the quote.
MayBegin(w) ==
    \/ w \in Sends /\ cache.ready /\ flow[w].stage \in Live
    \/ w \in NameFlows /\ flow[w].stage \in {"Authorized", "RequiresRebroadcast"}
    \/ w \in Locks /\ flow[w].stage \in Submitted \cup {"Prepared"} /\ ~LockExpired(w)
BeginSubmit(t, w) ==
    /\ job[t] = Idle /\ MayBegin(w)
    /\ Enter(t, "submit", w)
    /\ UNCHANGED <<setup, storeVars, cache, chainVars, upsets, now>>

\* broadcast_prepared_settlement finds the settlement expired.
ExpireLock(w) ==
    /\ w \in Locks /\ flow[w] # NoFlow /\ LockExpired(w)
    /\ Withdraw(w, "Expired") /\ job' = Overtaken(job, {w})
    /\ UNCHANGED <<setup, approval, cache, chainVars, upsets, now>>

\* Mutant: the expiry found before the quote is not checked again.
ExpiredAtLockUnchecked(w) == FALSE

\* The settlement path reads the clock under the lock; the rows it activates
\* have not expired.
ExpiredAtLock(w) == w \in Locks /\ flow[w].stage = "Prepared" /\ now >= flow[w].expires

StartSubmission(t) ==
    /\ At(t, "submit", "quote") /\ job[t].current
    /\ LET w == job[t].id IN
       /\ SourceHolds(w)
       /\ IF ExpiredAtLock(w)
          THEN Withdraw(w, "Expired") /\ job' = Overtaken(Stopped(t), {w})
          ELSE /\ flow' = [flow EXCEPT ![w].stage = "RequiresRebroadcast", ![w].bound = TRUE]
               /\ row' = IF flow[w].stage = "Prepared" THEN Activated(w) ELSE row
               /\ job' = IF w \in Packages THEN Reached(t, w, "ancestors", Ancestor(w))
                          ELSE Reached(t, w, "send", w)
    /\ UNCHANGED <<setup, approval, cache, chainVars, upsets, now>>

\* What the node accepts: every input there and spent by nothing else.
Funded(x) == x \in Packages => InPool(Ancestor(x)) \/ InChain(Ancestor(x))
Acceptable(x) == /\ ~Competing(x) /\ Spends(x) \cap chain.missing = {} /\ Funded(x)
                 /\ \A v \in chain.pool \ {x} : Spends(x) \cap Spends(v) = {}

\* The node call: a written transaction need not be in anyone's mempool.
Write(t, next) ==
    /\ Acceptable(job[t].tx)
    /\ public' = public \cup {job[t].tx}
    /\ chain' \in {chain, [chain EXCEPT !.pool = IF InChain(job[t].tx) THEN @ ELSE @ \cup {job[t].tx}]}
    /\ job' = [job EXCEPT ![t].step = next]
    /\ cache' = [cache EXCEPT !.fresh = @ /\ chain' = chain]
    /\ UNCHANGED <<setup, storeVars, gone, upsets, now>>

\* The loop over the ancestors of the plan the call has read, current or not.
SendAncestors(t) == At(t, "submit", "ancestors") /\ Write(t, "sent")

\* After the ancestors.  A started package past its deadline is an error.
StartPackage(t) ==
    /\ At(t, "submit", "sent") /\ job[t].current
    /\ LET w == job[t].id IN
       IF now >= flow[w].expires
       THEN /\ ~flow[w].started
            /\ Withdraw(w, "Expired") /\ job' = Overtaken(Stopped(t), {w})
       ELSE /\ flow' = [flow EXCEPT ![w].started = TRUE]
            /\ job' = IF flow[w].started THEN [job EXCEPT ![t].step = "send", ![t].tx = w]
                                         ELSE Reached(t, w, "send", w)
            /\ row' = row
    /\ UNCHANGED <<setup, approval, cache, chainVars, upsets, now>>

\* An error at any step, a stale revision, a refusal or a lost answer.
FailSubmit(t) ==
    /\ job[t] # Idle /\ job[t].op = "submit" /\ job' = Stopped(t)
    /\ UNCHANGED <<setup, storeVars, cache, chainVars, upsets, now>>

Submit(t) == At(t, "submit", "send") /\ Write(t, "accepted")

SaveBroadcast(t) ==
    /\ At(t, "submit", "accepted") /\ job[t].current
    /\ flow' = [flow EXCEPT ![job[t].id].stage = "Broadcast", ![job[t].id].saved = now]
    /\ job' = Overtaken(Stopped(t), {job[t].id})
    /\ UNCHANGED <<setup, row, approval, cache, chainVars, upsets, now>>

\* rebroadcast_dropped_pending_sends: what the snapshot shows is recorded.
ObservedSend(w) == IF Competing(w) THEN "Conflicted" ELSE IF InChain(w) THEN "Confirmed"
                   ELSE "Mempool"
ObserveSend(w) ==
    /\ w \in Sends /\ flow[w].stage \in Live /\ cache.ready /\ cache.fresh
    /\ ~Absent(w) /\ flow[w].stage # ObservedSend(w)
    /\ flow' = [flow EXCEPT ![w].stage = ObservedSend(w)]
    /\ row' = IF ObservedSend(w) = "Mempool" THEN row ELSE Released(row, w)
    /\ job' = Overtaken(job, {w})
    /\ UNCHANGED <<setup, approval, cache, chainVars, upsets, now>>

\* abandon_obsolete_dropped_send, when the quote of the exact bytes fails.
AbandonSend(t) ==
    /\ At(t, "submit", "quote")
    /\ LET w == job[t].id IN
       /\ w \in Sends /\ flow[w].stage \in Live /\ ExactRows(w, Forever)
       /\ flow' = [flow EXCEPT ![w].stage = "Abandoned"]
       /\ row' = Released(row, w)
       /\ job' = Overtaken(Stopped(t), {w})
    /\ UNCHANGED <<setup, approval, cache, chainVars, upsets, now>>

-----------------------------------------------------------------------------
(***************************************************************************)
(* Synchronization.  Synchronize (synchronize_persisted_value_read) is the *)
(* product's read: it refreshes the view and saves no workflow.  Reconcile *)
(* also advances every workflow and cleans the rows, under the store lock; *)
(* in the product only a fee quote against a stale snapshot runs it.       *)
(***************************************************************************)
Synced == [ready |-> TRUE, fresh |-> TRUE,
           coins |-> {o \in Coins \ chain.missing : chain.spender[o] = None}]
Viewed(flows) == [w \in Workflows |-> IF flows[w] = NoFlow THEN NoFlow
                                      ELSE [flows[w] EXCEPT !.view = @ /\ cache.fresh]]

\* A name operation that must be approved again has bytes only if it was
\* signed; a listing of pending activity fails on one that was not.
Unlisted(ws) == \E w \in ws : flow[w].stage = "ReapprovalRequired" /\ ~flow[w].bound

Synchronize ==
    /\ IF Unlisted(Transfers \cup Finalizes)
       THEN cache' = [cache EXCEPT !.ready = FALSE] /\ flow' = flow
       ELSE cache' = Synced /\ flow' = Viewed(flow)
    /\ UNCHANGED <<setup, row, approval, job, chainVars, upsets, now>>

SendNext(w) ==
    IF flow[w].stage = "Prepared"
    THEN IF flow[w].expires <= now THEN "Expired" ELSE "Prepared"
    ELSE IF ~flow[w].bound THEN flow[w].stage
    ELSE IF ~Absent(w) THEN ObservedSend(w)
    ELSE IF WithinGrace(w) THEN "Broadcast"
    ELSE IF flow[w].stage \in Live THEN "RequiresRebroadcast" ELSE flow[w].stage

Tracked == Live \cup ConfirmedStages \cup {"ReapprovalRequired"}
NameNext(w, transferred) ==
    IF flow[w].stage = "Prepared"
    THEN IF flow[w].expires <= now THEN "Expired" ELSE "Prepared"
    ELSE IF flow[w].stage \notin Tracked THEN flow[w].stage
    ELSE IF Competing(w) THEN "Conflicted"
    ELSE IF InChain(w)
    THEN IF w \in Updates THEN "Updated" ELSE IF w \in Finalizes THEN "Finalized" ELSE transferred
    ELSE IF InPool(w) THEN "Mempool"
    ELSE IF flow[w].stage \in ConfirmedStages THEN "ReapprovalRequired" ELSE "RequiresRebroadcast"

\* settlement_requires_chain_observation, unobserved_settlement_stage.  No
\* competing spender is looked for: only a node that still holds the transaction
\* in its own mempool (held) reports it as conflicted.
LockNext(w, held) ==
    IF flow[w].stage \notin Submitted \cup {"Prepared"} THEN flow[w].stage
    ELSE IF w \in held THEN "Conflicted"
    ELSE IF InChain(w) THEN "Confirmed"
    ELSE IF InPool(w) THEN "Mempool"
    ELSE IF flow[w].stage # "Prepared" THEN "RequiresRebroadcast"
    ELSE IF flow[w].expires <= now THEN "Expired" ELSE "Prepared"

NextStage(w, transferred, held) ==
    IF flow[w] = NoFlow THEN None
    ELSE IF w \in NameFlows THEN NameNext(w, transferred)
    ELSE IF w \in Sends THEN SendNext(w) ELSE LockNext(w, held)

Advanced(w, stage) ==
    IF flow[w] = NoFlow \/ stage = flow[w].stage THEN flow[w]
    ELSE [flow[w] EXCEPT !.stage = stage,
             !.bound = IF w \in Locks THEN stage \notin {"Prepared", "Expired", "Cancelled"} ELSE @]

\* The stages at which a reconciliation releases the rows of a workflow.
Releases(w, stage) ==
    /\ flow[w] # NoFlow
    /\ IF w \in Locks THEN stage \in {"Confirmed", "Conflicted", "Expired", "Cancelled"}
       ELSE stage # flow[w].stage /\ stage \in {"Expired", "Conflicted", "Confirmed"}

\* cleanup_input_reservations: the rows of transfers and finalizes stay until
\* the workflow is terminal; any other name row goes; any other row goes when
\* it expires or its coin is no longer there.
Cleaned(rows, flows) == [o \in Outpoints |->
    IF rows[o] = Free THEN Free
    ELSE IF rows[o].owner \in Transfers \cup Finalizes
    THEN IF flows[rows[o].owner].stage \in {"Conflicted", "Expired", "Cancelled"}
         THEN Free ELSE rows[o]
    ELSE IF o \in Names \/ rows[o].until <= now \/ chain.spender[o] # None \/ o \in chain.missing
    THEN Free ELSE rows[o]]

\* The cleanup refuses a transfer or finalize that is not terminal and does
\* not own exactly its rows.
RowsMissing(rows, flows) == \E w \in Transfers \cup Finalizes :
    /\ flows[w] # NoFlow /\ flows[w].stage \notin {"Conflicted", "Expired", "Cancelled"}
    /\ {o \in Outpoints : rows[o].owner = w} # flows[w].inputs

\* A pass saves the workflows in done: all of them, or those it reached before
\* it met a name operation that cannot be listed.
ReconcilePass(done, stage) ==
    LET flows == [w \in Workflows |-> IF w \in done THEN Advanced(w, stage[w]) ELSE flow[w]]
        rows == [o \in Outpoints |-> IF row[o].owner \in done /\ Releases(row[o].owner, stage[row[o].owner])
                                     THEN Free ELSE row[o]]
        whole == done = Workflows /\ ~RowsMissing(rows, flows)
    IN  /\ flow' = IF whole THEN Viewed(flows) ELSE flows
        /\ row' = IF whole THEN Cleaned(rows, flows) ELSE rows
        /\ cache' = IF whole THEN Synced ELSE [cache EXCEPT !.ready = FALSE]
        /\ job' = Overtaken(job, {w \in done : \/ flows[w] # flow[w]
                                               \/ w \in NameFlows /\ flow[w].stage \in Tracked})

Reconcile ==
    /\ \E transferred \in ConfirmedStages, held \in SUBSET {w \in public \cap Locks : Competing(w)} :
          LET stage == [w \in Workflows |-> NextStage(w, transferred, held)]
          IN  IF Unlisted(NameFlows)
              THEN \E done \in SUBSET {w \in NameFlows : ~Unlisted({w})} : ReconcilePass(done, stage)
              ELSE ReconcilePass(Workflows, stage)
    /\ UNCHANGED <<setup, approval, chainVars, upsets, now>>

-----------------------------------------------------------------------------
(***************************************************************************)
(* The environment: the clock, a crash, and the chain (external).          *)
(***************************************************************************)
Tick ==
    /\ now < MaxTime /\ now' = now + 1
    /\ UNCHANGED <<setup, storeVars, cache, job, chainVars, upsets>>

Upset == upsets < setup.upsets /\ upsets' = upsets + 1

Crash ==
    /\ Upset /\ job' = [t \in Threads |-> Idle]
    /\ cache' = [ready |-> FALSE, fresh |-> FALSE, coins |-> {}]
    /\ UNCHANGED <<setup, storeVars, chainVars, now>>

Moved(c) == /\ chain' = c /\ cache' = [cache EXCEPT !.fresh = FALSE]
            /\ UNCHANGED <<setup, storeVars, job, public, now>>
SpentBy(os, who) == [o \in Outpoints |-> IF o \in os THEN who ELSE chain.spender[o]]
\* What leaves the mempool when who spends os: every other spender, and the
\* contracts whose ancestors go.
Evicted(os, who) == {v \in chain.pool \ {who} : Root(v) = who \/ Spends(Root(v)) \cap os = {}}

Relay(x) ==
    /\ x \in public /\ Absent(x) /\ Acceptable(x)
    /\ Moved([chain EXCEPT !.pool = @ \cup {x}]) /\ UNCHANGED <<gone, upsets>>
Confirm(x) ==
    /\ x \in public /\ ~InChain(x) /\ ~Competing(x) /\ Spends(x) \cap chain.missing = {}
    /\ x \in Packages => InChain(Ancestor(x))
    /\ Moved([chain EXCEPT !.spender = SpentBy(Spends(x), x), !.pool = Evicted(Spends(x), x),
                           !.mined = @ \cup ({x} \cap Packages)])
    /\ gone' = gone \cup (Spends(x) \cap Coins) /\ upsets' = upsets
Drop(x) == /\ x \in chain.pool /\ Upset /\ gone' = gone
           /\ Moved([chain EXCEPT !.pool = {v \in @ : v # x /\ Root(v) # x}])
SpendElsewhere(o) ==
    /\ chain.spender[o] = None /\ o \notin chain.missing /\ Upset
    /\ Moved([chain EXCEPT !.spender[o] = Foreign, !.pool = Evicted({o}, Foreign)])
    /\ gone' = gone \cup ({o} \cap Coins)
Reorganise(who) ==
    /\ who \in chain.mined \/ \E o \in Outpoints : chain.spender[o] = who
    /\ Upset /\ gone' = gone
    /\ Moved([chain EXCEPT !.spender = SpentBy({o \in Outpoints : chain.spender[o] = who}, None),
                           !.mined = {v \in @ : v # who /\ Root(v) # who},
                           !.pool = {v \in @ : Root(v) # who}])
LoseCoin(o) ==
    /\ chain.spender[o] = None /\ o \notin chain.missing /\ Upset
    /\ Moved([chain EXCEPT !.missing = @ \cup {o}, !.pool = Evicted({o}, None)])
    /\ gone' = gone \cup {o}
RestoreCoin(o) ==
    /\ o \in chain.missing /\ Moved([chain EXCEPT !.missing = @ \ {o}]) /\ UNCHANGED <<gone, upsets>>
MoveSource(n) ==
    /\ chain.spender[n] = None /\ Upset
    /\ Moved([chain EXCEPT !.moves[n] = @ + 1]) /\ gone' = gone

-----------------------------------------------------------------------------
Store(w) ==
    \/ PrepareSend(w) \/ PrepareName(w) \/ PrepareLock(w)
    \/ RegisterApproval(w) \/ RejectApproval(w) \/ CancelName(w) \/ CancelLock(w)
    \/ ExpireLock(w) \/ ObserveSend(w)
Step(t) ==
    \/ ReadCommitTime(t) \/ RequireReapproval(t) \/ CommitAuthorize(t) \/ FailAuthorize(t)
    \/ StartSubmission(t) \/ SendAncestors(t) \/ StartPackage(t) \/ Submit(t) \/ SaveBroadcast(t)
    \/ FailSubmit(t) \/ AbandonSend(t)
Network ==
    \/ \E x \in public : Relay(x) \/ Confirm(x) \/ Drop(x)
    \/ \E o \in Outpoints : SpendElsewhere(o)
    \/ \E who \in public \cup {Foreign} : Reorganise(who)
    \/ \E o \in Coins : LoseCoin(o) \/ RestoreCoin(o)
    \/ \E n \in Names : MoveSource(n)

Next ==
    \/ \E w \in setup.cast : Store(w)
    \/ \E t \in setup.threads, w \in setup.cast : BeginAuthorize(t, w) \/ BeginSubmit(t, w)
    \/ \E t \in setup.threads : Step(t)
    \/ PrepareRefused \/ Synchronize \/ Reconcile \/ Tick \/ Crash
    \/ Network

Spec == Init /\ [][Next]_vars

-----------------------------------------------------------------------------
\* A transfer or finalize whose bytes are signed owns exactly its rows, for
\* ever, until it is conflicted or cancelled: across expiry sweeps by other
\* preparations, reconciliations, confirmation and reorganisation
\* (name_workflow.rs validate_name_reservations; lib.rs
\* cleanup_input_reservations).
NameRowsKept == \A w \in Transfers \cup Finalizes :
    flow[w].stage \in Tracked /\ flow[w].bound => ExactRows(w, Forever)

\* A settlement whose submission may have begun keeps every coin of its plan
\* reserved for good, as long as nothing spent the coin and no reorganisation
\* took it away: the clock is read under the store lock at the checkpoint, so
\* no other preparation can have swept its rows, and only a reconciliation that
\* finds the coin gone deletes one (lib.rs broadcast_prepared_settlement_inner,
\* cleanup_input_reservations).
LockRowsKept == \A w \in Locks : flow[w].stage \in Submitted =>
    \A o \in flow[w].inputs \ gone : row[o] = [owner |-> w, until |-> Forever]

\* A transaction that moves the value (a send, a name operation, the contract
\* transaction of a settlement) reaches the network only from a workflow that
\* is durably past its submission checkpoint: it cannot be prepared again, and
\* only a name operation that needs a new approval can be cancelled.  The
\* contract of a package follows its ancestors.  The ancestors themselves may
\* be public while the workflow expires, releases its rows and is prepared
\* again, never before the checkpoint of their plan (persist-before-broadcast
\* in broadcast_send, submit_name_workflow and
\* broadcast_prepared_settlement_inner).
PublicIsJournaled == \A x \in public :
    IF x \in Workflows
    THEN /\ flow[x].bound /\ flow[x].stage \notin {"Prepared", "Authorized", "Expired"}
         /\ flow[x].stage = "Cancelled" => x \in NameFlows
         /\ x \in Packages => flow[x].started /\ Ancestor(x) \in public
    ELSE IF x = Ancestor(x.of) THEN flow[x.of].stage \notin {"Prepared", "Cancelled"}
                               ELSE x.plan < flow[x.of].expires

=============================================================================
