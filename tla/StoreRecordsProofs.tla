-------------------------- MODULE StoreRecordsProofs --------------------------
(***************************************************************************)
(* Proofs that the compare-and-swap of StoreRecords loses no update, for   *)
(* any number of clients, rows and transactions.  The revision compared is *)
(* a number; the theorems are about the rows.  What links the two is that  *)
(* a copy never has the revision of the current row without being it.      *)
(***************************************************************************)
EXTENDS StoreRecords, TLAPS

\* A copy old of a row that is now new
Lags(old, new) ==
    /\ Revision(old) <= Revision(new)
    /\ Revision(old) = Revision(new) => old = new

Numbered(row) == row # None => row.revision > 0

WorkflowsLag ==
    \A w \in Workflows :
        /\ Numbered(workflow[w])
        /\ \A c \in Clients : Lags(copy[c].workflow[w], workflow[w])

EntitiesNumbered ==
    \A e \in Entities :
        /\ Numbered(entity[e])
        /\ \A c \in Clients : Numbered(copy[c].entity[e])

ProtectedLag ==
    \A e \in Protected, c \in Clients : Lags(copy[c].entity[e], entity[e])

\* What is spent is behind the row that is there now, if it is the same value.
SpentIsPast ==
    /\ \A e \in Entities : entity[e] # None => entity[e].value <= commit.number
    /\ \A s \in spent :
          /\ s.value <= commit.number
          /\ entity[s.id] # None /\ entity[s.id].value = s.value =>
                s.revision < entity[s.id].revision

IInv == TypeOK /\ WorkflowsLag /\ EntitiesNumbered /\ ProtectedLag /\ SpentIsPast

-----------------------------------------------------------------------------
(* What every step does to one row of each table. *)

WorkflowStep ==
    \A w \in Workflows :
        \/ workflow'[w] = workflow[w]
        \/ /\ commit'.client \in Clients
           /\ Revision(workflow[w]) = Revision(copy[commit'.client].workflow[w])
           /\ workflow'[w] = Written(workflow[w], number)

WorkflowReads ==
    \A c \in Clients, w \in Workflows :
        copy'[c].workflow[w] \in {copy[c].workflow[w], workflow[w], workflow'[w]}

ProtectedStep ==
    \A e \in Protected :
        \/ entity'[e] = entity[e]
        \/ /\ commit'.client \in Clients
           /\ Revision(entity[e]) = Revision(copy[commit'.client].entity[e])
           /\ entity'[e] = Written(entity[e], number)

EntityReads ==
    \A c \in Clients, e \in Entities :
        copy'[c].entity[e] \in {copy[c].entity[e], entity[e], entity'[e]}

\* Either the row is as it was, or it is gone, or it was written, or it is the
\* authority this step consumed.
EntityStep ==
    /\ \A e \in Entities :
          \/ entity'[e] = entity[e]
          \/ entity'[e] = None
          \/ entity'[e] = Written(entity[e], number) /\ Commits
          \/ entity[e] # None /\ entity'[e] = Consumed(entity[e], number) /\ Commits
    /\ \/ spent' = spent /\ (Commits => commit'.used = None)
       \/ \E a \in Entities :
             /\ entity[a] # None
             /\ commit'.used = Assertion(a)
             /\ spent' = spent \cup {Assertion(a)}
             /\ entity'[a] = Consumed(entity[a], number)
             /\ Commits
    /\ commit'.number \in {commit.number, number}

-----------------------------------------------------------------------------
LEMMA RowFacts ==
    ASSUME NEW row \in Row \cup {None}, NEW n \in Nat
    PROVE  /\ Revision(row) \in Nat
           /\ Written(row, n) \in Row
           /\ Written(row, n).revision = Revision(row) + 1
           /\ Written(row, n).value = n
           /\ Revision(Written(row, n)) = Revision(row) + 1
           /\ row # None => /\ Consumed(row, n) \in Row
                            /\ Consumed(row, n).revision = row.revision + 1
                            /\ Consumed(row, n).value = row.value
<1>1. Revision(row) \in Nat
  BY DEF Row, Revision
<1>2. Written(row, n) \in Row
  BY <1>1 DEF Row, Written
<1>3. /\ Written(row, n).revision = Revision(row) + 1
      /\ Written(row, n).value = n
  BY DEF Written
<1>4. Revision(Written(row, n)) = Revision(row) + 1
  <2>1. Written(row, n) # None
    BY <1>2, NoneAssumption DEF Row
  <2> QED
    BY <2>1, <1>3 DEF Revision
<1>5. ASSUME row # None
      PROVE  /\ Consumed(row, n) \in Row
             /\ Consumed(row, n).revision = row.revision + 1
             /\ Consumed(row, n).value = row.value
  <2>1. row \in Row /\ row.revision + 1 \in Nat
    BY <1>5 DEF Row
  <2> QED
    BY <2>1, ZenonT(60) DEF Row, Consumed
<1> QED
  BY <1>1, <1>2, <1>3, <1>4, <1>5

LEMMA InitIInv == Init => IInv
<1> SUFFICES ASSUME Init PROVE IInv
  OBVIOUS
<1>1. TypeOK
  BY NoneAssumption, LimitAssumption
     DEF Init, TypeOK, Rows, Copy, Commit
<1>2. WorkflowsLag /\ EntitiesNumbered /\ ProtectedLag
  BY DEF Init, WorkflowsLag, EntitiesNumbered, ProtectedLag, Numbered, Lags, Revision, Entities
<1>3. SpentIsPast
  BY DEF Init, SpentIsPast
<1> QED
  BY <1>1, <1>2, <1>3 DEF IInv

-----------------------------------------------------------------------------
(* Types *)

LEMMA LearnsTyped ==
    ASSUME TypeOK, workflow' \in Rows(Workflows), entity' \in Rows(Entities),
           NEW c \in Clients, NEW ids \in SUBSET Entities,
           NEW ws \in SUBSET Workflows
    PROVE  /\ Learns(c, ids, ws) \in [Clients -> Copy]
           /\ \A d \in Clients :
                 /\ \A w \in Workflows :
                       Learns(c, ids, ws)[d].workflow[w]
                           \in {copy[d].workflow[w], workflow'[w]}
                 /\ \A e \in Entities :
                       Learns(c, ids, ws)[d].entity[e]
                           \in {copy[d].entity[e], entity'[e]}
<1> SUFFICES ASSUME NEW d \in Clients
    PROVE  /\ Learns(c, ids, ws)[d] \in Copy
           /\ \A w \in Workflows :
                 Learns(c, ids, ws)[d].workflow[w]
                     \in {copy[d].workflow[w], workflow'[w]}
           /\ \A e \in Entities :
                 Learns(c, ids, ws)[d].entity[e]
                     \in {copy[d].entity[e], entity'[e]}
  BY SMTT(60) DEF Learns
<1>1. copy[d] \in Copy
  BY DEF TypeOK
<1>2. Touched \subseteq Children
  BY DEF Touched
<1> QED
  BY <1>1, <1>2 DEF Learns, Copy, Rows

LEMMA AppliedTyped ==
    ASSUME TypeOK, NEW saves \in SUBSET Entities, NEW deletes \in SUBSET Entities
    PROVE  /\ Applied(entity, saves, deletes, number) \in Rows(Entities)
           /\ \A e \in Entities :
                 Applied(entity, saves, deletes, number)[e]
                    \in {entity[e], None, Written(entity[e], number)}
           /\ \A e \in Entities \ (saves \cup deletes) :
                 Applied(entity, saves, deletes, number)[e] = entity[e]
           /\ \A e \in Entities \ deletes :
                 Applied(entity, saves, deletes, number)[e]
                    \in {entity[e], Written(entity[e], number)}
           /\ number \in Nat
<1>1. number \in Nat
  BY LimitAssumption DEF TypeOK, Commit, number
<1>2. \A e \in Entities : entity[e] \in Row \cup {None}
  BY DEF TypeOK, Rows
<1>3. \A e \in Entities : Written(entity[e], number) \in Row
  BY <1>1, <1>2, RowFacts
<1> QED
  BY <1>1, <1>2, <1>3 DEF Applied, Rows

LEMMA ConsumedTyped ==
    ASSUME TypeOK, NEW rows \in Rows(Entities), NEW a \in Entities,
           entity[a] # None, rows[a] = entity[a]
    PROVE  /\ WithConsumed(rows, a, number) \in Rows(Entities)
           /\ WithConsumed(rows, a, number)[a] = Consumed(entity[a], number)
           /\ \A e \in Entities \ {a} : WithConsumed(rows, a, number)[e] = rows[e]
           /\ Assertion(a) \in Assertions
<1>1. number \in Nat
  BY LimitAssumption DEF TypeOK, Commit, number
<1>2. entity[a] \in Row
  BY DEF TypeOK, Rows
<1>3. Consumed(entity[a], number) \in Row
  BY <1>1, <1>2, RowFacts
<1>4. Assertion(a) \in Assertions
  BY <1>2 DEF Assertion, Assertions, Row
<1> QED
  BY <1>3, <1>4 DEF WithConsumed, Rows

\* The facts about one step from which every invariant follows
Shape ==
    /\ TypeOK'
    /\ WorkflowStep /\ WorkflowReads
    /\ ProtectedStep /\ EntityReads
    /\ EntityStep

LEMMA ReadShape ==
    ASSUME TypeOK, NEW c \in Clients, NEW d \in Copy,
           copy' = [copy EXCEPT ![c] = d],
           UNCHANGED <<workflow, entity, spent, commit>>,
           \A w \in Workflows : d.workflow[w] \in {copy[c].workflow[w], workflow[w]},
           \A e \in Entities : d.entity[e] \in {copy[c].entity[e], entity[e]}
    PROVE  Shape
<1>1. TypeOK'
  BY DEF TypeOK
<1>2. WorkflowReads /\ EntityReads
  BY DEF TypeOK, WorkflowReads, EntityReads, Entities
<1> QED
  BY <1>1, <1>2 DEF Shape, WorkflowStep, ProtectedStep, EntityStep, Commits

LEMMA WriteShape ==
    ASSUME TypeOK, NEW c \in Clients, NEW saves \in SUBSET Entities,
           NEW deletes \in SUBSET Entities, NEW ws \in SUBSET Workflows,
           NEW leased \in BOOLEAN, NEW g \in Workflows \cup {None},
           Committed(c, leased, g, None),
           \A w \in ws : WorkflowCurrent(c, w),
           CanApply(c, saves, deletes),
           workflow' = [w \in Workflows |->
                           IF w \in ws THEN Written(workflow[w], number)
                           ELSE workflow[w]],
           entity' = Applied(entity, saves, deletes, number),
           spent' = spent,
           copy' \in [Clients -> Copy],
           \A d \in Clients :
                 /\ \A w \in Workflows :
                       copy'[d].workflow[w] \in {copy[d].workflow[w], workflow'[w]}
                 /\ \A e \in Entities :
                       copy'[d].entity[e] \in {copy[d].entity[e], entity'[e]}
    PROVE  Shape
<1>1. /\ entity' \in Rows(Entities)
      /\ number \in Nat
      /\ \A e \in Entities : entity'[e] \in {entity[e], None, Written(entity[e], number)}
      /\ \A e \in Entities \ (saves \cup deletes) : entity'[e] = entity[e]
      /\ \A e \in Entities \ deletes : entity'[e] \in {entity[e], Written(entity[e], number)}
  <2> DEFINE rows == Applied(entity, saves, deletes, number)
  <2>1. /\ rows \in Rows(Entities)
        /\ number \in Nat
        /\ \A e \in Entities : rows[e] \in {entity[e], None, Written(entity[e], number)}
        /\ \A e \in Entities \ (saves \cup deletes) : rows[e] = entity[e]
        /\ \A e \in Entities \ deletes : rows[e] \in {entity[e], Written(entity[e], number)}
    BY AppliedTyped, Zenon
  <2>2. entity' = rows
    OBVIOUS
  <2> HIDE DEF rows
  <2> QED
    BY <2>1, <2>2, Zenon
<1>2. /\ commit' \in Commit
      /\ commit'.number = number
      /\ commit'.client = c
      /\ commit'.used = None
      /\ Commits
  <2>1. commit.number \in 0 .. MaxCommits /\ MaxCommits \in Nat
    BY LimitAssumption DEF TypeOK, Commit
  <2>2. commit.number + 1 \in 0 .. MaxCommits
    BY <2>1 DEF Committed
  <2> QED
    BY <2>1, <2>2 DEF Committed, Commit, Commits, number
<1>3. workflow' \in Rows(Workflows)
  <2>1. \A w \in Workflows : workflow[w] \in Row \cup {None}
    BY DEF TypeOK, Rows
  <2>2. \A w \in Workflows : Written(workflow[w], number) \in Row
    BY <2>1, <1>1, RowFacts, ZenonT(60)
  <2> QED
    BY <2>1, <2>2 DEF Rows
<1>4. TypeOK'
  BY <1>1, <1>2, <1>3 DEF TypeOK
<1>5. WorkflowStep /\ WorkflowReads
  BY <1>2, SMTT(60) DEF WorkflowStep, WorkflowReads, WorkflowCurrent
<1>6. ProtectedStep
  BY <1>1, <1>2, SMTT(60) DEF ProtectedStep, CanApply, EntityCurrent, Entities
<1>7. EntityReads
  BY DEF EntityReads, Entities
<1>8. EntityStep
  BY <1>1, <1>2, SMTT(60) DEF EntityStep
<1> QED
  BY <1>4, <1>5, <1>6, <1>7, <1>8 DEF Shape

LEMMA ConsumeShape ==
    ASSUME TypeOK, NEW c \in Clients, NEW saves \in SUBSET Entities,
           NEW deletes \in SUBSET Entities, NEW ws \in SUBSET Workflows,
           NEW g \in Workflows, NEW a \in Entities,
           a \notin Protected, a \notin saves \cup deletes,
           copy[c].entity[a] # None, EntityCurrent(c, a),
           Committed(c, FALSE, g, Assertion(a)),
           \A w \in ws : WorkflowCurrent(c, w),
           CanApply(c, saves, deletes),
           workflow' = [w \in Workflows |->
                           IF w \in ws THEN Written(workflow[w], number)
                           ELSE workflow[w]],
           entity' = WithConsumed(Applied(entity, saves, deletes, number), a, number),
           spent' = spent \cup {Assertion(a)},
           copy' \in [Clients -> Copy],
           entity[a] # None,
           \A d \in Clients :
                 /\ \A w \in Workflows :
                       copy'[d].workflow[w] \in {copy[d].workflow[w], workflow'[w]}
                 /\ \A e \in Entities :
                       copy'[d].entity[e] \in {copy[d].entity[e], entity'[e]}
    PROVE  Shape
<1> DEFINE rows == Applied(entity, saves, deletes, number)
<1>1. /\ rows \in Rows(Entities)
      /\ number \in Nat
      /\ \A e \in Entities : rows[e] \in {entity[e], None, Written(entity[e], number)}
      /\ \A e \in Entities \ (saves \cup deletes) : rows[e] = entity[e]
      /\ \A e \in Entities \ deletes : rows[e] \in {entity[e], Written(entity[e], number)}
  BY AppliedTyped, Zenon
<1>2. entity' = WithConsumed(rows, a, number) /\ rows[a] = entity[a]
  BY <1>1, SMTT(60)
<1> HIDE DEF rows
<1>3. /\ entity' \in Rows(Entities)
      /\ entity'[a] = Consumed(entity[a], number)
      /\ \A e \in Entities \ {a} : entity'[e] = rows[e]
      /\ Assertion(a) \in Assertions
  BY <1>1, <1>2, ConsumedTyped, SMTT(60)
<1>4. /\ commit' \in Commit
      /\ commit'.number = number
      /\ commit'.client = c
      /\ commit'.used = Assertion(a)
      /\ Commits
  <2>1. commit.number \in 0 .. MaxCommits /\ MaxCommits \in Nat
    BY LimitAssumption, SMTT(60) DEF TypeOK, Commit
  <2>2. commit.number + 1 \in 0 .. MaxCommits
    BY <2>1, SMTT(60) DEF Committed
  <2> QED
    BY <2>1, <2>2, <1>3, SMTT(60) DEF Committed, Commit, Commits, number
<1>5. workflow' \in Rows(Workflows)
  <2>1. \A w \in Workflows : workflow[w] \in Row \cup {None}
    BY SMTT(60) DEF TypeOK, Rows
  <2>2. \A w \in Workflows : Written(workflow[w], number) \in Row
    BY <2>1, <1>1, RowFacts, ZenonT(60)
  <2> QED
    BY <2>1, <2>2 DEF Rows
<1>6. TypeOK'
  BY <1>3, <1>4, <1>5, SMTT(60) DEF TypeOK
<1>7. WorkflowStep /\ WorkflowReads
  BY <1>4, SMTT(60) DEF WorkflowStep, WorkflowReads, WorkflowCurrent
<1>8. ProtectedStep
  BY <1>1, <1>3, <1>4 DEF ProtectedStep, CanApply, EntityCurrent, Entities
<1>9. EntityReads
  BY DEF EntityReads, Entities
<1>10. EntityStep
  BY <1>1, <1>3, <1>4 DEF EntityStep
<1> QED
  BY <1>6, <1>7, <1>8, <1>9, <1>10, SMTT(60) DEF Shape

-----------------------------------------------------------------------------
(* From the shape of a step to the invariant *)

LEMMA ShapeKeepsIInv == ASSUME IInv, Shape PROVE IInv'
<1>1. number \in Nat /\ commit.number \in Nat /\ number = commit.number + 1
  BY LimitAssumption DEF IInv, TypeOK, Commit, number
<1>2. /\ \A w \in Workflows : workflow[w] \in Row \cup {None}
      /\ \A e \in Entities : entity[e] \in Row \cup {None}
      /\ \A c \in Clients, w \in Workflows : copy[c].workflow[w] \in Row \cup {None}
      /\ \A c \in Clients, e \in Entities : copy[c].entity[e] \in Row \cup {None}
  BY DEF IInv, TypeOK, Rows, Copy
<1>3. TypeOK'
  BY DEF Shape
<1>4. WorkflowsLag'
  <2> SUFFICES ASSUME NEW w \in Workflows
               PROVE  /\ Numbered(workflow'[w])
                      /\ \A c \in Clients : Lags(copy'[c].workflow[w], workflow'[w])
    BY DEF WorkflowsLag
  <2>1. /\ Numbered(workflow[w])
        /\ \A c \in Clients : /\ Lags(copy[c].workflow[w], workflow[w])
                             /\ Revision(copy[c].workflow[w]) \in Nat
    BY <1>1, <1>2, RowFacts DEF IInv, WorkflowsLag
  <2>2. /\ Revision(workflow[w]) \in Nat
        /\ Revision(Written(workflow[w], number)) = Revision(workflow[w]) + 1
        /\ Written(workflow[w], number).revision = Revision(workflow[w]) + 1
    BY <1>1, <1>2, RowFacts, ZenonT(60)
  <2>3. \A c \in Clients : copy'[c].workflow[w]
                             \in {copy[c].workflow[w], workflow[w], workflow'[w]}
    BY DEF Shape, WorkflowReads
  <2>4. workflow'[w] \in {workflow[w], Written(workflow[w], number)}
    BY DEF Shape, WorkflowStep
  <2> QED
    BY <2>1, <2>2, <2>3, <2>4 DEF Lags, Numbered
<1>5. EntitiesNumbered'
  <2> SUFFICES ASSUME NEW e \in Entities
               PROVE  /\ Numbered(entity'[e])
                      /\ \A c \in Clients : Numbered(copy'[c].entity[e])
    BY DEF EntitiesNumbered
  <2>1. /\ Numbered(entity[e])
        /\ \A c \in Clients : Numbered(copy[c].entity[e])
    BY DEF IInv, EntitiesNumbered
  <2>2. /\ Revision(entity[e]) \in Nat
        /\ Written(entity[e], number).revision = Revision(entity[e]) + 1
        /\ entity[e] # None =>
              Consumed(entity[e], number).revision = entity[e].revision + 1
    BY <1>1, <1>2, RowFacts, ZenonT(60)
  <2>3. \A c \in Clients : copy'[c].entity[e]
                             \in {copy[c].entity[e], entity[e], entity'[e]}
    BY DEF Shape, EntityReads
  <2>4. \/ entity'[e] \in {entity[e], None, Written(entity[e], number)}
        \/ entity[e] # None /\ entity'[e] = Consumed(entity[e], number)
    BY DEF Shape, EntityStep
  <2>5. Numbered(entity'[e])
    BY <2>1, <2>2, <2>4 DEF Numbered, Revision
  <2> QED
    BY <2>1, <2>3, <2>5
<1>6. ProtectedLag'
  <2> SUFFICES ASSUME NEW e \in Protected, NEW c \in Clients
               PROVE  Lags(copy'[c].entity[e], entity'[e])
    BY DEF ProtectedLag
  <2>1. /\ Lags(copy[c].entity[e], entity[e])
        /\ Revision(copy[c].entity[e]) \in Nat
    BY <1>1, <1>2, RowFacts DEF IInv, ProtectedLag, Entities
  <2>2. /\ Revision(entity[e]) \in Nat
        /\ Revision(Written(entity[e], number)) = Revision(entity[e]) + 1
    BY <1>1, <1>2, RowFacts, ZenonT(60) DEF Entities
  <2>3. copy'[c].entity[e] \in {copy[c].entity[e], entity[e], entity'[e]}
    BY SMTT(60) DEF Shape, EntityReads, Entities
  <2>4. entity'[e] \in {entity[e], Written(entity[e], number)}
    BY DEF Shape, ProtectedStep
  <2> QED
    BY <2>1, <2>2, <2>3, <2>4 DEF Lags
<1>7. SpentIsPast'
  <2>1. /\ commit'.number \in Nat
        /\ commit'.number >= commit.number
        /\ Commits => commit'.number = number
    BY <1>1 DEF Shape, EntityStep, Commits
  <2>2. \A e \in Entities :
           /\ Written(entity[e], number).value = number
           /\ entity[e] # None =>
                 /\ entity[e].revision \in Nat /\ entity[e].value \in Nat
                 /\ Consumed(entity[e], number).value = entity[e].value
                 /\ Consumed(entity[e], number).revision = entity[e].revision + 1
    BY <1>1, <1>2, RowFacts, ZenonT(60) DEF Row
  <2>3. \A e \in Entities : entity'[e] # None =>
           \/ entity[e] # None /\ entity'[e] = entity[e]
           \/ entity'[e] = Written(entity[e], number) /\ Commits
           \/ /\ entity[e] # None
              /\ entity'[e] = Consumed(entity[e], number)
    BY DEF Shape, EntityStep
  <2>4. \A e \in Entities : entity[e] # None => entity[e].value <= commit.number
    BY DEF IInv, SpentIsPast
  <2>5. \A e \in Entities : entity'[e] # None => entity'[e].value <= commit'.number
    BY <1>1, <2>1, <2>2, <2>3, <2>4
  <2>6. ASSUME NEW s \in spent
        PROVE  /\ s.value <= commit'.number
               /\ entity'[s.id] # None /\ entity'[s.id].value = s.value =>
                     s.revision < entity'[s.id].revision
    <3>1. s.id \in Entities /\ s.value \in Nat /\ s.revision \in Nat
      BY DEF IInv, TypeOK, Assertions
    <3>2. /\ s.value <= commit.number
          /\ entity[s.id] # None /\ entity[s.id].value = s.value =>
                s.revision < entity[s.id].revision
      BY DEF IInv, SpentIsPast
    <3> QED
      BY <1>1, <2>1, <2>2, <2>3, <3>1, <3>2
  <2>7. ASSUME NEW a \in Entities, entity[a] # None,
               entity'[a] = Consumed(entity[a], number)
        PROVE  /\ Assertion(a).value <= commit'.number
               /\ Assertion(a).revision < entity'[a].revision
               /\ Assertion(a).id = a
    BY <1>1, <2>1, <2>2, <2>4, <2>7 DEF Assertion
  <2>8. \/ spent' = spent
        \/ \E a \in Entities :
              /\ entity[a] # None
              /\ spent' = spent \cup {Assertion(a)}
              /\ entity'[a] = Consumed(entity[a], number)
    BY DEF Shape, EntityStep
  <2>9. \A s \in spent' :
           /\ s.value <= commit'.number
           /\ entity'[s.id] # None /\ entity'[s.id].value = s.value =>
                 s.revision < entity'[s.id].revision
    BY <2>6, <2>7, <2>8
  <2> QED
    BY <2>5, <2>9 DEF SpentIsPast
<1> QED
  BY <1>3, <1>4, <1>5, <1>6, <1>7 DEF IInv

-----------------------------------------------------------------------------
(* Every action has the shape *)

LEMMA BatchFacts ==
    ASSUME NEW batch \in Batches
    PROVE  batch.saves \subseteq Entities /\ batch.deletes \subseteq Entities
<1>1. PICK kind \in Kinds : batch \in [saves : SUBSET kind, deletes : SUBSET kind]
  BY DEF Batches
<1>2. kind \subseteq Entities
  BY DEF Kinds, Entities
<1> QED
  BY <1>1, <1>2

LEMMA ReadHasShape ==
    ASSUME TypeOK, NEW c \in Clients, Read(c)
    PROVE  Shape
<1>0. /\ copy[c] \in Copy
      /\ entity \in Rows(Entities)
      /\ workflow \in Rows(Workflows)
      /\ copy \in [Clients -> Copy]
  BY SMTT(60) DEF TypeOK
<1>1. ASSUME NEW w \in Workflows, LoadWorkflow(c, w) PROVE Shape
  <2> DEFINE d == [copy[c] EXCEPT !.workflow[w] = workflow[w]]
  <2>1. d \in Copy
    BY <1>0, ZenonT(60) DEF Copy, Rows
  <2>2. /\ \A v \in Workflows : d.workflow[v] \in {copy[c].workflow[v], workflow[v]}
        /\ \A e \in Entities : d.entity[e] \in {copy[c].entity[e], entity[e]}
    BY <1>0 DEF Copy, Rows
  <2>3. copy' = [copy EXCEPT ![c] = d] /\ UNCHANGED <<workflow, entity, spent, commit>>
    BY <1>1, <1>0 DEF LoadWorkflow
  <2> HIDE DEF d
  <2> QED
    BY <2>1, <2>2, <2>3, ReadShape, ZenonT(60)
<1>2. Projection(entity) \in Rows(Children)
  BY <1>0, SMTT(60) DEF Projection, Rows, Entities
<1>3. ASSUME NEW takes \in BOOLEAN, ReadSnapshot(c, takes) PROVE Shape
  <2> DEFINE d == [copy[c] EXCEPT !.entity = entity,
                      !.lease = IF takes THEN Projection(entity) ELSE None,
                      !.stirred = {}]
  <2>1. d \in Copy
    BY <1>0, <1>2, ZenonT(60) DEF Copy
  <2>2. /\ \A v \in Workflows : d.workflow[v] \in {copy[c].workflow[v], workflow[v]}
        /\ \A e \in Entities : d.entity[e] \in {copy[c].entity[e], entity[e]}
    BY <1>0 DEF Copy
  <2>3. copy' = [copy EXCEPT ![c] = d] /\ UNCHANGED <<workflow, entity, spent, commit>>
    BY <1>3, <1>0, ZenonT(60) DEF ReadSnapshot
  <2> HIDE DEF d
  <2> QED
    BY <2>1, <2>2, <2>3, ReadShape, ZenonT(60)
<1>4. ASSUME RefreshLease(c) PROVE Shape
  <2> DEFINE d == [copy[c] EXCEPT !.entity = entity,
                      !.lease = IF LeaseHolds(copy[c].lease) THEN copy[c].lease ELSE None,
                      !.stirred = IF LeaseHolds(copy[c].lease) THEN copy[c].stirred ELSE {}]
  <2>1. d \in Copy
    BY <1>0, ZenonT(60) DEF Copy
  <2>2. /\ \A v \in Workflows : d.workflow[v] \in {copy[c].workflow[v], workflow[v]}
        /\ \A e \in Entities : d.entity[e] \in {copy[c].entity[e], entity[e]}
    BY <1>0 DEF Copy
  <2>3. copy' = [copy EXCEPT ![c] = d] /\ UNCHANGED <<workflow, entity, spent, commit>>
    BY <1>4, <1>0, ZenonT(60) DEF RefreshLease
  <2> HIDE DEF d
  <2> QED
    BY <2>1, <2>2, <2>3, ReadShape, ZenonT(60)
<1> QED
  BY <1>1, <1>3, <1>4 DEF Read

\* The two tables after a write, in the form the shape lemmas use
LEMMA WriteForms ==
    ASSUME TypeOK
    PROVE  /\ Applied(entity, {}, {}, number) = entity
           /\ \A w \in Workflows :
                 [workflow EXCEPT ![w] = Written(@, number)]
                   = [v \in Workflows |-> IF v \in {w} THEN Written(workflow[v], number)
                                          ELSE workflow[v]]
           /\ workflow = [v \in Workflows |-> IF v \in {} THEN Written(workflow[v], number)
                                              ELSE workflow[v]]
<1>1. entity = [e \in Entities |-> entity[e]]
  BY DEF TypeOK, Rows
<1>2. Applied(entity, {}, {}, number) = entity
  BY <1>1 DEF Applied
<1>3. workflow = [v \in Workflows |-> workflow[v]]
  BY DEF TypeOK, Rows
<1> QED
  BY <1>2, <1>3

LEMMA WorkflowsTyped ==
    ASSUME TypeOK, NEW ws \in SUBSET Workflows
    PROVE  [w \in Workflows |-> IF w \in ws THEN Written(workflow[w], number)
                                ELSE workflow[w]] \in Rows(Workflows)
<1>1. number \in Nat
  BY LimitAssumption DEF TypeOK, Commit, number
<1>2. \A w \in Workflows : workflow[w] \in Row \cup {None}
  BY DEF TypeOK, Rows
<1>3. \A w \in Workflows : Written(workflow[w], number) \in Row
  BY <1>1, <1>2, RowFacts
<1> QED
  BY <1>2, <1>3 DEF Rows

LEMMA PlainWrite ==
    ASSUME TypeOK, NEW c \in Clients, NEW saves \in SUBSET Entities,
           NEW deletes \in SUBSET Entities, NEW ws \in SUBSET Workflows,
           NEW g \in Workflows \cup {None},
           Committed(c, FALSE, g, None),
           \A w \in ws : WorkflowCurrent(c, w),
           CanApply(c, saves, deletes),
           workflow' = [w \in Workflows |->
                           IF w \in ws THEN Written(workflow[w], number)
                           ELSE workflow[w]],
           entity' = Applied(entity, saves, deletes, number),
           spent' = spent,
           copy' = Learns(c, saves \cup deletes, ws)
    PROVE  Shape
<1>1. workflow' \in Rows(Workflows)
  BY WorkflowsTyped
<1>2. entity' \in Rows(Entities)
  BY AppliedTyped, Zenon
<1>3. /\ copy' \in [Clients -> Copy]
      /\ \A d \in Clients :
            /\ \A w \in Workflows :
                  copy'[d].workflow[w] \in {copy[d].workflow[w], workflow'[w]}
            /\ \A e \in Entities :
                  copy'[d].entity[e] \in {copy[d].entity[e], entity'[e]}
  BY <1>1, <1>2, LearnsTyped, ZenonT(60)
<1>4. FALSE \in BOOLEAN
  OBVIOUS
<1> QED
  BY <1>3, <1>4, WriteShape, ZenonT(60)

LEMMA ConsumingWrite ==
    ASSUME TypeOK, EntitiesNumbered, NEW c \in Clients,
           NEW saves \in SUBSET Entities,
           NEW deletes \in SUBSET Entities, NEW ws \in SUBSET Workflows,
           NEW g \in Workflows, NEW a \in Entities,
           a \notin Protected, a \notin saves \cup deletes,
           GuardsHold(c, g, a),
           Committed(c, FALSE, g, Assertion(a)),
           \A w \in ws : WorkflowCurrent(c, w),
           CanApply(c, saves, deletes),
           workflow' = [w \in Workflows |->
                           IF w \in ws THEN Written(workflow[w], number)
                           ELSE workflow[w]],
           entity' = WithConsumed(Applied(entity, saves, deletes, number), a, number),
           spent' = spent \cup {Assertion(a)},
           copy' = Learns(c, saves \cup deletes, ws)
    PROVE  Shape
<1>1. workflow' \in Rows(Workflows)
  BY WorkflowsTyped
<1>2. entity[a] # None
  BY SMTT(60) DEF EntitiesNumbered, GuardsHold, EntityCurrent, Numbered, Revision
<1>3. /\ Applied(entity, saves, deletes, number) \in Rows(Entities)
      /\ Applied(entity, saves, deletes, number)[a] = entity[a]
  <2>1. a \in Entities \ (saves \cup deletes)
    OBVIOUS
  <2>2. /\ Applied(entity, saves, deletes, number) \in Rows(Entities)
        /\ \A e \in Entities \ (saves \cup deletes) :
              Applied(entity, saves, deletes, number)[e] = entity[e]
    BY AppliedTyped, Zenon
  <2> QED
    BY <2>1, <2>2, Zenon
<1>4. entity' \in Rows(Entities)
  BY <1>2, <1>3, ConsumedTyped, SMTT(60)
<1>5. /\ copy' \in [Clients -> Copy]
      /\ \A d \in Clients :
            /\ \A w \in Workflows :
                  copy'[d].workflow[w] \in {copy[d].workflow[w], workflow'[w]}
            /\ \A e \in Entities :
                  copy'[d].entity[e] \in {copy[d].entity[e], entity'[e]}
  BY <1>1, <1>4, LearnsTyped, ZenonT(60)
<1>6. copy[c].entity[a] # None /\ EntityCurrent(c, a)
  BY SMTT(60) DEF GuardsHold
<1> QED
  BY <1>2, <1>5, <1>6, ConsumeShape, ZenonT(60)

LEMMA WriteHasShape ==
    ASSUME TypeOK, EntitiesNumbered, NEW c \in Clients, Write(c)
    PROVE  Shape
<1>0. None \in Workflows \cup {None} /\ {} \in SUBSET Workflows /\ {} \in SUBSET Entities
  OBVIOUS
<1>1. ASSUME NEW w \in Workflows, SaveWorkflow(c, w) PROVE Shape
  <2>1. {w} \in SUBSET Workflows /\ (\A v \in {w} : WorkflowCurrent(c, v))
    BY <1>1 DEF SaveWorkflow
  <2>2. CanApply(c, {}, {})
    BY DEF CanApply
  <2>3. /\ workflow' = [v \in Workflows |->
                           IF v \in {w} THEN Written(workflow[v], number)
                           ELSE workflow[v]]
        /\ entity' = Applied(entity, {}, {}, number)
    BY <1>1, WriteForms, ZenonT(60) DEF SaveWorkflow
  <2>4. Committed(c, FALSE, None, None) /\ spent' = spent
        /\ copy' = Learns(c, {} \cup {}, {w})
    BY <1>1, ZenonT(60) DEF SaveWorkflow
  <2> QED
    BY <1>0, <2>1, <2>2, <2>3, <2>4, PlainWrite, ZenonT(60)
<1>2. workflow' = workflow =>
        /\ workflow' = [v \in Workflows |->
                           IF v \in {} THEN Written(workflow[v], number)
                           ELSE workflow[v]]
        /\ \A v \in {} : WorkflowCurrent(c, v)
  BY WriteForms
<1>3. ASSUME NEW e \in Entities, SaveEntity(c, e) PROVE Shape
  <2>1. {e} \in SUBSET Entities /\ {e} = {e} \cup {}
    OBVIOUS
  <2> QED
    BY <1>0, <1>2, <1>3, <2>1, PlainWrite, ZenonT(60) DEF SaveEntity
<1>4. ASSUME NEW ids \in SUBSET (Entities \ Protected), DeleteEntities(c, ids)
      PROVE  Shape
  <2>1. ids \in SUBSET Entities /\ ids = {} \cup ids
    OBVIOUS
  <2> QED
    BY <1>0, <1>2, <1>4, <2>1, PlainWrite, ZenonT(60) DEF DeleteEntities
<1>5. ASSUME NEW batch \in Batches, NEW asserted \in SUBSET Children,
             ApplyBatch(c, batch, asserted)
      PROVE  Shape
  <2>1. batch.saves \in SUBSET Entities /\ batch.deletes \in SUBSET Entities
    BY BatchFacts
  <2> QED
    BY <1>0, <1>2, <1>5, <2>1, PlainWrite, ZenonT(60) DEF ApplyBatch
<1>6. ASSUME NEW batch \in Batches, ApplyLeasedBatch(c, batch) PROVE Shape
  <2>1. batch.saves \in SUBSET Entities /\ batch.deletes \in SUBSET Entities
        /\ batch.saves \cup batch.deletes \in SUBSET Entities
    BY BatchFacts
  <2>2. entity' \in Rows(Entities) /\ workflow' \in Rows(Workflows)
    BY <1>6, <2>1, AppliedTyped, ZenonT(60) DEF ApplyLeasedBatch, TypeOK
  <2> DEFINE l == Learns(c, batch.saves \cup batch.deletes, {})
  <2>3. /\ l \in [Clients -> Copy]
        /\ \A d \in Clients :
              /\ \A w \in Workflows :
                    l[d].workflow[w] \in {copy[d].workflow[w], workflow'[w]}
              /\ \A e \in Entities :
                    l[d].entity[e] \in {copy[d].entity[e], entity'[e]}
    BY <1>0, <2>1, <2>2, LearnsTyped, ZenonT(60)
  <2>4. copy' = [l EXCEPT ![c].lease = None, ![c].stirred = {}]
    BY <1>6 DEF ApplyLeasedBatch
  <2> HIDE DEF l
  <2>5. /\ copy' \in [Clients -> Copy]
        /\ \A d \in Clients : /\ copy'[d].workflow = l[d].workflow
                             /\ copy'[d].entity = l[d].entity
    <3>1. ASSUME NEW d \in Clients
          PROVE  /\ copy'[d] = IF d = c THEN [l[d] EXCEPT !.lease = None, !.stirred = {}]
                               ELSE l[d]
                 /\ l[d] \in Copy
      BY <2>3, <2>4, ZenonT(60)
    <3>2. ASSUME NEW r \in Copy
          PROVE  /\ [r EXCEPT !.lease = None, !.stirred = {}] \in Copy
                 /\ [r EXCEPT !.lease = None, !.stirred = {}].workflow = r.workflow
                 /\ [r EXCEPT !.lease = None, !.stirred = {}].entity = r.entity
      BY ONLY r \in Copy, ZenonT(60) DEF Copy
    <3>3. copy' = [d \in Clients |-> copy'[d]]
      BY <2>3, <2>4, ZenonT(60)
    <3>4. ASSUME NEW d \in Clients
          PROVE  /\ copy'[d] \in Copy
                 /\ copy'[d].workflow = l[d].workflow
                 /\ copy'[d].entity = l[d].entity
      BY <3>1, <3>2, Zenon
    <3> QED
      BY ONLY <3>3, <3>4
  <2>6. TRUE \in BOOLEAN
    OBVIOUS
  <2>7. /\ CanApply(c, batch.saves, batch.deletes)
        /\ entity' = Applied(entity, batch.saves, batch.deletes, number)
        /\ Committed(c, TRUE, None, None)
        /\ spent' = spent
        /\ workflow' = [v \in Workflows |->
                           IF v \in {} THEN Written(workflow[v], number)
                           ELSE workflow[v]]
        /\ \A v \in {} : WorkflowCurrent(c, v)
    BY <1>2, <1>6, ZenonT(60) DEF ApplyLeasedBatch
  <2>8. \A d \in Clients :
           /\ \A w \in Workflows :
                 copy'[d].workflow[w] \in {copy[d].workflow[w], workflow'[w]}
           /\ \A e \in Entities :
                 copy'[d].entity[e] \in {copy[d].entity[e], entity'[e]}
    BY <2>3, <2>5
  <2> QED
    BY <1>0, <2>1, <2>5, <2>6, <2>7, <2>8, WriteShape, ZenonT(60)
<1>7. ASSUME RejectLeasedBatch(c) PROVE Shape
  <2> DEFINE d == [copy[c] EXCEPT !.lease = None, !.stirred = {}]
  <2>1. copy[c] \in Copy /\ copy \in [Clients -> Copy]
    BY DEF TypeOK
  <2>2. /\ d \in Copy
        /\ \A v \in Workflows : d.workflow[v] \in {copy[c].workflow[v], workflow[v]}
        /\ \A e \in Entities : d.entity[e] \in {copy[c].entity[e], entity[e]}
    BY <2>1, ZenonT(60) DEF Copy
  <2>3. copy' = [copy EXCEPT ![c] = d] /\ UNCHANGED <<workflow, entity, spent, commit>>
    BY <1>7, <2>1, ZenonT(60) DEF RejectLeasedBatch
  <2> HIDE DEF d
  <2> QED
    BY <2>2, <2>3, ReadShape, ZenonT(60)
<1>8. ASSUME NEW account \in Accounts, NEW batch \in Batches,
             ApplyAccountBatch(c, account, batch)
      PROVE  Shape
  <2>1. /\ {account} \cup batch.saves \in SUBSET Entities
        /\ batch.deletes \in SUBSET Entities
    BY BatchFacts DEF Entities
  <2> QED
    BY <1>0, <1>2, <1>8, <2>1, PlainWrite, ZenonT(60) DEF ApplyAccountBatch
<1>9. ASSUME NEW w \in Workflows, NEW accounts \in SUBSET Accounts,
             NEW batch \in Batches, SaveWorkflowWithBatch(c, w, accounts, batch)
      PROVE  Shape
  <2>1. /\ accounts \cup batch.saves \in SUBSET Entities
        /\ batch.deletes \in SUBSET Entities
    BY BatchFacts DEF Entities
  <2>2. {w} \in SUBSET Workflows /\ (\A v \in {w} : WorkflowCurrent(c, v))
    BY <1>9, SMTT(60) DEF SaveWorkflowWithBatch
  <2>3. workflow' = [v \in Workflows |->
                       IF v \in {w} THEN Written(workflow[v], number)
                       ELSE workflow[v]]
    BY <1>9, WriteForms, ZenonT(60) DEF SaveWorkflowWithBatch
  <2> QED
    BY <1>0, <1>9, <2>1, <2>2, <2>3, PlainWrite, ZenonT(60) DEF SaveWorkflowWithBatch
<1>10. ASSUME NEW w \in Workflows, NEW g \in Workflows, NEW batch \in Batches,
              NEW authority \in Entities, NEW consume \in BOOLEAN,
              SaveGuarded(c, w, batch, g, authority, consume)
       PROVE  Shape
  <2>1. batch.saves \in SUBSET Entities /\ batch.deletes \in SUBSET Entities
    BY BatchFacts
  <2>2. {w} \in SUBSET Workflows /\ (\A v \in {w} : WorkflowCurrent(c, v))
    BY <1>10 DEF SaveGuarded
  <2>3. workflow' = [v \in Workflows |->
                       IF v \in {w} THEN Written(workflow[v], number)
                       ELSE workflow[v]]
    BY <1>10, WriteForms, ZenonT(60) DEF SaveGuarded
  <2>4. CASE consume
    <3>1. /\ authority \notin Protected
          /\ authority \notin batch.saves \cup batch.deletes
          /\ GuardsHold(c, g, authority)
          /\ CanApply(c, batch.saves, batch.deletes)
          /\ Committed(c, FALSE, g, Assertion(authority))
          /\ entity' = WithConsumed(Applied(entity, batch.saves, batch.deletes, number),
                                    authority, number)
          /\ spent' = spent \cup {Assertion(authority)}
          /\ copy' = Learns(c, batch.saves \cup batch.deletes, {w})
      BY <1>10, <2>4, ZenonT(60) DEF SaveGuarded
    <3> QED
      BY <2>1, <2>2, <2>3, <3>1, ConsumingWrite, ZenonT(60)
  <2>5. CASE ~consume
    <3>1. g \in Workflows \cup {None}
      OBVIOUS
    <3>2. /\ CanApply(c, batch.saves, batch.deletes)
          /\ Committed(c, FALSE, g, None)
          /\ entity' = Applied(entity, batch.saves, batch.deletes, number)
          /\ spent' = spent
          /\ copy' = Learns(c, batch.saves \cup batch.deletes, {w})
      BY <1>10, <2>5, ZenonT(60) DEF SaveGuarded
    <3> QED
      BY <2>1, <2>2, <2>3, <3>1, <3>2, PlainWrite, ZenonT(60)
  <2> QED
    BY <2>4, <2>5
<1>11. ASSUME NEW g \in Workflows, NEW batch \in Batches, NEW authority \in Entities,
              ApplyConsuming(c, batch, g, authority)
       PROVE  Shape
  <2>1. batch.saves \in SUBSET Entities /\ batch.deletes \in SUBSET Entities
    BY BatchFacts
  <2> QED
    BY <1>0, <1>2, <1>11, <2>1, ConsumingWrite, ZenonT(60) DEF ApplyConsuming
<1> QED
  BY <1>1, <1>3, <1>4, <1>5, <1>6, <1>7, <1>8, <1>9, <1>10, <1>11 DEF Write

LEMMA NextHasShape == ASSUME IInv, Next PROVE Shape
<1>1. TypeOK /\ EntitiesNumbered
  BY DEF IInv
<1> QED
  BY <1>1, ReadHasShape, WriteHasShape DEF Next

LEMMA StutterKeepsIInv == ASSUME IInv, UNCHANGED vars PROVE IInv'
  BY DEF IInv, vars, TypeOK, WorkflowsLag, EntitiesNumbered, ProtectedLag, SpentIsPast

\* The inductive invariant: no copy of a workflow or of a protected entity has
\* the revision of the current row without being that row.
THEOREM IInvariant == Spec => []IInv
<1>1. ASSUME IInv, [Next]_vars PROVE IInv'
  BY <1>1, NextHasShape, ShapeKeepsIInv, StutterKeepsIInv
<1> QED
  BY InitIInv, <1>1, PTL DEF Spec

\* The store's rows, copies, leases and transactions keep their types.
THEOREM TypeCorrect == Spec => []TypeOK
<1>1. IInv => TypeOK
  BY DEF IInv
<1> QED
  BY IInvariant, <1>1, PTL

\* save_workflow and every batch that saves a workflow replace only a row the
\* saving client has read, for any number of clients and transactions.
THEOREM WorkflowUpdatesAreNotLost == Spec => NoLostWorkflowUpdate
<1>1. ASSUME IInv, [Next]_vars, NEW w \in Workflows, workflow'[w] # workflow[w]
      PROVE  copy[commit'.client].workflow[w] = workflow[w]
  <2>1. WorkflowStep
    BY <1>1, NextHasShape, SMTT(60) DEF Shape, vars
  <2>2. /\ commit'.client \in Clients
        /\ Revision(workflow[w]) = Revision(copy[commit'.client].workflow[w])
    BY <1>1, <2>1, SMTT(60) DEF WorkflowStep
  <2> QED
    BY <1>1, <2>2 DEF IInv, WorkflowsLag, Lags
<1>2. ASSUME IInv, [Next]_vars
      PROVE  [\A w \in Workflows : workflow'[w] # workflow[w] =>
                 copy[commit'.client].workflow[w] = workflow[w]]_vars
  BY <1>1, <1>2
<1> QED
  BY IInvariant, <1>2, PTL DEF Spec, NoLostWorkflowUpdate

\* The same for the entities no operation of the store deletes: the check of
\* delete_entity and of the batches against the protected kinds is what makes
\* a compared revision stand for the row.
THEOREM ProtectedUpdatesAreNotLost == Spec => NoLostProtectedUpdate
<1>1. ASSUME IInv, [Next]_vars, NEW e \in Protected, entity'[e] # entity[e]
      PROVE  copy[commit'.client].entity[e] = entity[e]
  <2>1. ProtectedStep
    BY <1>1, NextHasShape, SMTT(60) DEF Shape, vars
  <2>2. /\ commit'.client \in Clients
        /\ Revision(entity[e]) = Revision(copy[commit'.client].entity[e])
    BY <1>1, <2>1, SMTT(60) DEF ProtectedStep
  <2> QED
    BY <1>1, <2>2 DEF IInv, ProtectedLag, Lags
<1>2. ASSUME IInv, [Next]_vars
      PROVE  [\A e \in Protected : entity'[e] # entity[e] =>
                 copy[commit'.client].entity[e] = entity[e]]_vars
  BY <1>1, <1>2
<1> QED
  BY IInvariant, <1>2, PTL DEF Spec, NoLostProtectedUpdate

\* An authority row is consumed at most once at the revision it was asserted
\* with, by all the transactions of all clients together.
THEOREM AssertionsAreSpentOnce == Spec => AssertionSpentOnce
<1>1. ASSUME IInv, [Next]_vars, Commits, commit'.used # None
      PROVE  commit'.used \notin spent
  <2>1. EntityStep
    BY <1>1, NextHasShape, SMTT(60) DEF Shape, vars, Commits
  <2>2. PICK a \in Entities : entity[a] # None /\ commit'.used = Assertion(a)
    BY <1>1, <2>1 DEF EntityStep
  <2>3. \A s \in spent : entity[s.id] # None /\ entity[s.id].value = s.value =>
                             s.revision < entity[s.id].revision
    BY <1>1 DEF IInv, SpentIsPast
  <2>4. entity[a].revision \in Nat
    BY <1>1, <2>2 DEF IInv, TypeOK, Rows, Row
  <2> QED
    BY <2>2, <2>3, <2>4 DEF Assertion
<1>2. ASSUME IInv, [Next]_vars
      PROVE  [Commits /\ commit'.used # None => commit'.used \notin spent]_vars
  BY <1>1, <1>2
<1> QED
  BY IInvariant, <1>2, PTL DEF Spec, AssertionSpentOnce
===============================================================================
