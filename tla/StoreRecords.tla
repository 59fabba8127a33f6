----------------------------- MODULE StoreRecords -----------------------------
(***************************************************************************)
(* Workflows and entities of crates/hns-wallet-store/src/lib.rs: revisioned *)
(* rows that several clients of one wallet read, keep, and later replace    *)
(* with compare-and-swap transactions.  A client's copy of a row may be     *)
(* arbitrarily old when it comes back to write: chain and network calls     *)
(* happen between the two, outside the store mutex.                         *)
(*                                                                         *)
(* A row has a revision, the plaintext it holds (value) and its ciphertext  *)
(* (cipher).  Every encryption draws a fresh nonce, so the ciphertext is    *)
(* named by the transaction that wrote it; the consumption of an authority  *)
(* re-encrypts the same plaintext.  Deleting an entity forgets its          *)
(* revision: the next insert starts at 1 again.  Workflows, and entities of *)
(* the deletion-protected kinds, are never deleted.                         *)
(*                                                                         *)
(* Left out: record sizes, the per-row timestamp, broadcast_prepared (the   *)
(* caller's flag), and failing transactions, which change nothing except    *)
(* that they use up a prefix lease.                                         *)
(***************************************************************************)
EXTENDS Naturals, FiniteSets

CONSTANTS
    Clients,       \* components of the wallet that share the store
    Workflows,     \* workflow ids
    Accounts,      \* ids of kind WalletAccount
    Children,      \* ids of one deletable kind, sharing the leased prefix
    Protected,     \* ids of one deletion-protected kind
    LeaseLimit,    \* the limit a prefix lease is taken with
    None,          \* an absent row, or no lease
    MaxCommits     \* bound on committed transactions

ASSUME KindsAssumption ==
    /\ Accounts \cap Children = {}
    /\ Accounts \cap Protected = {}
    /\ Children \cap Protected = {}
ASSUME LimitAssumption == LeaseLimit \in Nat \ {0} /\ MaxCommits \in Nat
ASSUME NoneAssumption ==
    /\ None \notin [revision : Nat, value : Nat, cipher : Nat]
    /\ None \notin Workflows /\ None \notin Clients

VARIABLES
    workflow,      \* the workflows table
    entity,        \* the encrypted_entities table
    copy,          \* what each client has read, the lease it holds, and the
                   \* rows touched since that lease was taken
    spent,         \* authority assertions that have been consumed
    commit         \* the last committed transaction: who, what, and how

vars == <<workflow, entity, copy, spent, commit>>

Entities == Accounts \cup Children \cup Protected
Row == [revision : Nat, value : Nat, cipher : Nat]
Rows(ids) == [ids -> Row \cup {None}]
Kinds == {Accounts, Children, Protected}

Revision(row) == IF row = None THEN 0 ELSE row.revision

\* load_entity_prefix_set_lease_projection: every row under the prefix
Projection(rows) == [e \in Children |-> rows[e]]
Fits(rows) == Cardinality({e \in Children : rows[e] # None}) <= LeaseLimit

\* The number of the transaction about to commit; it names its ciphertexts.
number == commit.number + 1
Written(row, n) == [revision |-> Revision(row) + 1, value |-> n, cipher |-> n]

\* consume_authenticated_entity_revision keeps the plaintext
Consumed(row, n) == [row EXCEPT !.revision = @ + 1, !.cipher = n]

Init ==
    /\ workflow = [w \in Workflows |-> None]
    /\ entity = [e \in Entities |-> None]
    /\ copy = [c \in Clients |->
                 [workflow |-> [w \in Workflows |-> None],
                  entity |-> [e \in Entities |-> None],
                  lease |-> None, stirred |-> {}]]
    /\ spent = {}
    /\ commit = [client |-> None, number |-> 0, leased |-> FALSE,
                 guard |-> None, used |-> None]

-----------------------------------------------------------------------------
(* Reads.  They take the store mutex one at a time. *)

\* load_workflow
LoadWorkflow(c, w) ==
    /\ copy[c].workflow[w] # workflow[w]
    /\ copy' = [copy EXCEPT ![c].workflow[w] = workflow[w]]
    /\ UNCHANGED <<workflow, entity, spent, commit>>

\* try_with_entity_read_snapshot: a coherent view, and a lease if it fits
ReadSnapshot(c, takes) ==
    /\ takes => Fits(entity)
    /\ copy' = [copy EXCEPT
                  ![c].entity = entity,
                  ![c].lease = IF takes THEN Projection(entity) ELSE None,
                  ![c].stirred = {}]
    /\ UNCHANGED <<workflow, entity, spent, commit>>

\* The lease check: metadata and ciphertext fingerprints of the whole set
LeaseHoldsByRevision(lease) ==
    \A e \in Children : Revision(lease[e]) = Revision(entity[e])
LeaseHolds(lease) == Projection(entity) = lease

\* refresh_entity_prefix_set_lease, inside a new snapshot; a stale lease is
\* consumed by the attempt
RefreshLease(c) ==
    /\ copy[c].lease # None
    /\ copy' = [copy EXCEPT
                  ![c].entity = entity,
                  ![c].lease = IF LeaseHolds(@) THEN @ ELSE None,
                  ![c].stirred = IF LeaseHolds(copy[c].lease) THEN @ ELSE {}]
    /\ UNCHANGED <<workflow, entity, spent, commit>>

-----------------------------------------------------------------------------
(* Compare-and-swap. *)

\* authenticated_workflow_revision against the client's expected revision
WorkflowCurrentUnlessAhead(c, w) ==
    Revision(copy[c].workflow[w]) <= Revision(workflow[w])
WorkflowCurrent(c, w) ==
    Revision(workflow[w]) = Revision(copy[c].workflow[w])

\* authenticated_entity_revision against the client's expected revision
EntityCurrentUnlessAhead(c, e) ==
    Revision(copy[c].entity[e]) <= Revision(entity[e])
EntityCurrent(c, e) ==
    Revision(entity[e]) = Revision(copy[c].entity[e])

\* prepare_entity_batch and authenticate_entity_batch: disjoint operations of
\* one kind, a delete names an existing revision, and no protected deletes
CanApply(c, saves, deletes) ==
    /\ saves \cap deletes = {}
    /\ deletes \cap Protected = {}
    /\ \A e \in deletes : copy[c].entity[e] # None
    /\ \A e \in saves \cup deletes : EntityCurrent(c, e)

\* write_entity_batch_in_transaction
AppliedTombstone(rows, saves, deletes, n) ==
    [e \in Entities |->
        IF e \in saves THEN Written(rows[e], n)
        ELSE IF e \in deletes THEN [rows[e] EXCEPT !.value = None]
        ELSE rows[e]]
Applied(rows, saves, deletes, n) ==
    [e \in Entities |->
        IF e \in saves THEN Written(rows[e], n)
        ELSE IF e \in deletes THEN None
        ELSE rows[e]]

\* The rows under the leased prefix that this step writes, deletes or consumes
Touched == {e \in Children : entity'[e] # entity[e]}

\* The committing client knows the rows it wrote; every holder of a lease
\* accumulates what has been touched since (a history variable).
Learns(c, ids, writtenWorkflows) ==
    [d \in Clients |->
        [workflow |-> [w \in Workflows |->
             IF d = c /\ w \in writtenWorkflows THEN workflow'[w]
             ELSE copy[d].workflow[w]],
         entity |-> [e \in Entities |->
             IF d = c /\ e \in ids THEN entity'[e] ELSE copy[d].entity[e]],
         lease |-> copy[d].lease,
         stirred |-> IF copy[d].lease = None THEN {}
                     ELSE copy[d].stirred \cup Touched]]

Committed(c, leased, guard, used) ==
    /\ commit.number < MaxCommits
    /\ commit' = [client |-> c, number |-> commit.number + 1,
                  leased |-> leased, guard |-> guard, used |-> used]

Batches == UNION {[saves : SUBSET kind, deletes : SUBSET kind] : kind \in Kinds}

\* save_workflow
SaveWorkflow(c, w) ==
    /\ WorkflowCurrent(c, w)
    /\ workflow' = [workflow EXCEPT ![w] = Written(@, number)]
    /\ Committed(c, FALSE, None, None)
    /\ UNCHANGED <<entity, spent>>
    /\ copy' = Learns(c, {}, {w})

\* save_entity
SaveEntity(c, e) ==
    /\ CanApply(c, {e}, {})
    /\ entity' = Applied(entity, {e}, {}, number)
    /\ Committed(c, FALSE, None, None)
    /\ UNCHANGED <<workflow, spent>>
    /\ copy' = Learns(c, {e}, {})

\* delete_entity, and delete_entities across the deletable kinds
DeleteEntities(c, ids) ==
    /\ ids # {}
    /\ CanApply(c, {}, ids)
    /\ entity' = Applied(entity, {}, ids, number)
    /\ Committed(c, FALSE, None, None)
    /\ UNCHANGED <<workflow, spent>>
    /\ copy' = Learns(c, ids, {})

\* apply_entity_batch_with_assertions: asserted rows are compared only
ApplyBatch(c, batch, asserted) ==
    /\ asserted \cap (batch.saves \cup batch.deletes) = {}
    /\ CanApply(c, batch.saves, batch.deletes)
    /\ \A e \in asserted : copy[c].entity[e] # None /\ EntityCurrent(c, e)
    /\ entity' = Applied(entity, batch.saves, batch.deletes, number)
    /\ Committed(c, FALSE, None, None)
    /\ UNCHANGED <<workflow, spent>>
    /\ copy' = Learns(c, batch.saves \cup batch.deletes, {})

\* apply_entity_batch_with_assertions_and_prefix_lease: the lease scopes the
\* batch and is consumed whether or not it still holds
ApplyLeasedBatch(c, batch) ==
    /\ copy[c].lease # None
    /\ batch.saves \cup batch.deletes \subseteq Children
    /\ LeaseHolds(copy[c].lease)
    /\ Fits(entity)
    /\ CanApply(c, batch.saves, batch.deletes)
    /\ entity' = Applied(entity, batch.saves, batch.deletes, number)
    /\ Committed(c, TRUE, None, None)
    /\ UNCHANGED <<workflow, spent>>
    /\ copy' = [Learns(c, batch.saves \cup batch.deletes, {})
                    EXCEPT ![c].lease = None, ![c].stirred = {}]

\* The same call when the set has changed: StaleEntitySet
RejectLeasedBatch(c) ==
    /\ copy[c].lease # None
    /\ ~(LeaseHolds(copy[c].lease) /\ Fits(entity))
    /\ copy' = [copy EXCEPT ![c].lease = None, ![c].stirred = {}]
    /\ UNCHANGED <<workflow, entity, spent, commit>>

\* apply_account_and_entity_batch
ApplyAccountBatch(c, account, batch) ==
    LET saves == {account} \cup batch.saves IN
    /\ (batch.saves \cup batch.deletes) \cap Accounts = {}
    /\ CanApply(c, saves, batch.deletes)
    /\ entity' = Applied(entity, saves, batch.deletes, number)
    /\ Committed(c, FALSE, None, None)
    /\ UNCHANGED <<workflow, spent>>
    /\ copy' = Learns(c, saves \cup batch.deletes, {})

\* save_workflow_with_entity_batch, and with the account record in the same
\* transaction: save_workflow_with_account_and_entity_batch
SaveWorkflowWithBatch(c, w, accounts, batch) ==
    LET saves == accounts \cup batch.saves IN
    /\ accounts \cap (batch.saves \cup batch.deletes) = {}
    /\ WorkflowCurrent(c, w)
    /\ CanApply(c, saves, batch.deletes)
    /\ workflow' = [workflow EXCEPT ![w] = Written(@, number)]
    /\ entity' = Applied(entity, saves, batch.deletes, number)
    /\ Committed(c, FALSE, None, None)
    /\ UNCHANGED spent
    /\ copy' = Learns(c, saves \cup batch.deletes, {w})

\* The exact workflow and entity an authority rests on
GuardsHoldEntityOnly(c, g, authority) ==
    /\ copy[c].workflow[g] # None
    /\ copy[c].entity[authority] # None
    /\ EntityCurrent(c, authority)
GuardsHold(c, g, authority) ==
    /\ copy[c].workflow[g] # None
    /\ copy[c].entity[authority] # None
    /\ WorkflowCurrent(c, g)
    /\ EntityCurrent(c, authority)

\* consume_authenticated_entity_revision inside the transaction
ConsumedNotAdvanced(rows, authority, n) ==
    [rows EXCEPT ![authority] = [@ EXCEPT !.cipher = n]]
WithConsumed(rows, authority, n) ==
    [rows EXCEPT ![authority] = Consumed(@, n)]

Assertion(authority) ==
    [id |-> authority, value |-> entity[authority].value,
     revision |-> entity[authority].revision]

\* save_workflow_with_entity_batch_and_guards
SaveGuarded(c, w, batch, g, authority, consume) ==
    /\ w # g
    /\ consume => authority \notin Protected
    /\ authority \notin batch.saves \cup batch.deletes
    /\ WorkflowCurrent(c, w)
    /\ GuardsHold(c, g, authority)
    /\ CanApply(c, batch.saves, batch.deletes)
    /\ workflow' = [workflow EXCEPT ![w] = Written(@, number)]
    /\ LET rows == Applied(entity, batch.saves, batch.deletes, number) IN
       entity' = IF consume THEN WithConsumed(rows, authority, number) ELSE rows
    /\ Committed(c, FALSE, g, IF consume THEN Assertion(authority) ELSE None)
    /\ spent' = IF consume THEN spent \cup {Assertion(authority)} ELSE spent
    /\ copy' = Learns(c, batch.saves \cup batch.deletes, {w})

\* apply_entity_batch_with_workflow_guard_and_consumed_entity
ApplyConsuming(c, batch, g, authority) ==
    /\ authority \notin Protected
    /\ authority \notin batch.saves \cup batch.deletes
    /\ GuardsHold(c, g, authority)
    /\ CanApply(c, batch.saves, batch.deletes)
    /\ entity' = WithConsumed(Applied(entity, batch.saves, batch.deletes, number),
                              authority, number)
    /\ Committed(c, FALSE, g, Assertion(authority))
    /\ spent' = spent \cup {Assertion(authority)}
    /\ UNCHANGED workflow
    /\ copy' = Learns(c, batch.saves \cup batch.deletes, {})

Read(c) ==
    \/ \E w \in Workflows : LoadWorkflow(c, w)
    \/ \E takes \in BOOLEAN : ReadSnapshot(c, takes)
    \/ RefreshLease(c)

Write(c) ==
    \/ \E w \in Workflows : SaveWorkflow(c, w)
    \/ \E e \in Entities : SaveEntity(c, e)
    \/ \E ids \in SUBSET (Entities \ Protected) : DeleteEntities(c, ids)
    \/ \E batch \in Batches, asserted \in SUBSET Children :
           ApplyBatch(c, batch, asserted)
    \/ \E batch \in Batches : ApplyLeasedBatch(c, batch)
    \/ RejectLeasedBatch(c)
    \/ \E account \in Accounts, batch \in Batches :
           ApplyAccountBatch(c, account, batch)
    \/ \E w \in Workflows, accounts \in SUBSET Accounts, batch \in Batches :
           SaveWorkflowWithBatch(c, w, accounts, batch)
    \/ \E w, g \in Workflows, batch \in Batches, authority \in Entities,
          consume \in BOOLEAN : SaveGuarded(c, w, batch, g, authority, consume)
    \/ \E g \in Workflows, batch \in Batches, authority \in Entities :
           ApplyConsuming(c, batch, g, authority)

Next == \E c \in Clients : Read(c) \/ Write(c)

Spec == Init /\ [][Next]_vars

-----------------------------------------------------------------------------
Assertions == [id : Entities, value : Nat, revision : Nat]

Copy ==
    [workflow : Rows(Workflows), entity : Rows(Entities),
     lease : Rows(Children) \cup {None}, stirred : SUBSET Children]

Commit ==
    [client : Clients \cup {None}, number : 0 .. MaxCommits, leased : BOOLEAN,
     guard : Workflows \cup {None}, used : Assertions \cup {None}]

\* Rows, copies, leases and the last transaction have their types.
TypeOK ==
    /\ workflow \in Rows(Workflows)
    /\ entity \in Rows(Entities)
    /\ copy \in [Clients -> Copy]
    /\ spent \subseteq Assertions
    /\ commit \in Commit

Commits == commit'.number # commit.number

\* No lost update of a workflow: whoever replaces a workflow row has read
\* exactly that row, however long ago, although save_workflow compares only
\* the revision.
NoLostWorkflowUpdate ==
    [][\A w \in Workflows : workflow'[w] # workflow[w] =>
           copy[commit'.client].workflow[w] = workflow[w]]_vars

\* The same for entities of the deletion-protected kinds (key allocations,
\* publisher sequences): a stale client can never step one of them back.
NoLostProtectedUpdate ==
    [][\A e \in Protected : entity'[e] # entity[e] =>
           copy[commit'.client].entity[e] = entity[e]]_vars

\* A leased batch commits only if no row that is now under the prefix has been
\* written or consumed since the lease was taken, not even by a delete and an
\* insert that restored the revision; and no row has gone.
LeaseFencesSet ==
    [][Commits /\ commit'.leased =>
          LET holder == copy[commit'.client] IN
          \A e \in Children :
              /\ entity[e] # None => e \notin holder.stirred
              /\ entity[e] = None => holder.lease[e] = None]_vars

\* One authority assertion (a row as issued, at the revision asserted) is
\* consumed by at most one transaction of all clients.
AssertionSpentOnce ==
    [][Commits /\ commit'.used # None => commit'.used \notin spent]_vars

\* A guarded transaction leaves its guard workflow alone, and that workflow
\* is the very row the client derived its authority from.
GuardFencesWorkflow ==
    [][Commits /\ commit'.guard # None =>
          LET g == commit'.guard IN
          /\ copy[commit'.client].workflow[g] = workflow[g]
          /\ workflow'[g] = workflow[g]]_vars
===============================================================================
