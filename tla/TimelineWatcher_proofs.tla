------------------------ MODULE TimelineWatcher_proofs ------------------------
(***************************************************************************)
(* The watcher's safety for any number of replicas, events, batch size and *)
(* faults.                                                                 *)
(***************************************************************************)
EXTENDS TimelineWatcher, FiniteSetTheorems, TLAPS

USE NoneAssumption, BatchAssumption, BoundAssumption, EventTypeAssumption

\* A batch holds rows of its candidate set only.
LEMMA FirstOfSubset == ASSUME NEW S, NEW n PROVE FirstOf(S, n) \subseteq S
  BY DEF FirstOf

\* A batch leaves no gap: it holds every row of the candidate set below one of
\* its own members.
LEMMA FirstOfDownward ==
  ASSUME NEW S \in SUBSET Id, NEW n \in Nat, NEW g \in FirstOf(S, n),
         NEW i \in S, i <= g
  PROVE  i \in FirstOf(S, n)
  <1> DEFINE Below(k) == {j \in S : j < k}
  <1>1. IsFiniteSet(Below(g)) /\ IsFiniteSet(Below(i))
    <2>1. IsFiniteSet(Id)
      BY FS_Interval DEF Id
    <2>2. Below(g) \subseteq Id /\ Below(i) \subseteq Id
      OBVIOUS
    <2> QED BY <2>1, <2>2, FS_Subset
  <1>2. Below(i) \subseteq Below(g)
    <2> SUFFICES ASSUME NEW j \in S, j < i PROVE j < g
      OBVIOUS
    <2>1. g \in S /\ S \subseteq Int
      BY DEF FirstOf, Id
    <2> QED BY <2>1
  <1>3. Cardinality(Below(i)) <= Cardinality(Below(g))
    BY <1>1, <1>2, FS_Subset
  <1>4. Cardinality(Below(i)) \in Nat /\ Cardinality(Below(g)) \in Nat
    BY <1>1, FS_CardinalityType
  <1>5. Cardinality(Below(g)) < n
    BY DEF FirstOf
  <1> QED BY <1>3, <1>4, <1>5 DEF FirstOf

\* What a run has read it can still read: rows are never taken back.
JobsVisible == \A w \in Worker : job[w].batch \subseteq visible /\ job[w].todo \subseteq visible

Types == TypeOK /\ JobsVisible

\* Replacing the state of one run by a well-typed one keeps all runs well typed.
LEMMA JobUpdate ==
  ASSUME TypeOK, NEW w \in Worker, NEW v \in Job, job' = [job EXCEPT ![w] = v]
  PROVE  /\ job' \in [Worker -> Job]
         /\ job'[w] = v
         /\ \A u \in Worker \ {w} : job'[u] = job[u]
  BY DEF TypeOK

\* Initially every variable has its type.
LEMMA TypesInit == Init => Types
  BY DEF Init, Types, JobsVisible, TypeOK, Idle, Job, Absent, Id, Kind

\* Every step keeps the types, the ids that runs hold included.
LEMMA TypesNext == Types /\ [Next]_vars => Types'
  <1> SUFFICES ASSUME Types, [Next]_vars PROVE Types'
    OBVIOUS
  <1> USE DEF Types, JobsVisible, TypeOK, table, queues
  <1>1. ASSUME NEW t \in EventType, NEW a \in Addr \cup {None},
               NEW d \in DRep \cup {None}, IndexerInsert(t, a, d)
        PROVE  Types'
    <2>1. [type |-> t, addr |-> a, drep |-> d, src |-> NoId] \in Row
      BY DEF Row
    <2> QED BY <1>1, <2>1 DEF IndexerInsert, Id
  <1>2. ASSUME NEW i \in Id, IndexerCommit(i) PROVE Types'
    BY <1>2 DEF IndexerCommit, Id
  <1>3. ASSUME NEW w \in Worker, ReadState(w) PROVE Types'
    <2> DEFINE v == [job[w] EXCEPT !.pc = IF cursor = Absent THEN "create" ELSE "fetch",
                                   !.base = IF cursor = Absent THEN 0 ELSE cursor]
    <2>1. job[w] \in Job
      OBVIOUS
    <2>2. v \in Job /\ v.batch = job[w].batch /\ v.todo = job[w].todo
      BY <2>1 DEF Job
    <2>3. job' = [job EXCEPT ![w] = v]
      BY <1>3, <2>1 DEF ReadState, Job
    <2> HIDE DEF v
    <2> QED BY <1>3, <2>2, <2>3, JobUpdate DEF ReadState
  <1>4. ASSUME NEW w \in Worker, CreateState(w) PROVE Types'
    <2> DEFINE v == [job[w] EXCEPT !.pc = "fetch"]
    <2>1. job[w] \in Job
      OBVIOUS
    <2>2. v \in Job /\ v.batch = job[w].batch /\ v.todo = job[w].todo
      BY <2>1 DEF Job
    <2>3. job' = [job EXCEPT ![w] = v]
      BY <1>4, <2>1 DEF CreateState, Job
    <2> HIDE DEF v
    <2> QED BY <1>4, <2>2, <2>3, JobUpdate DEF CreateState
  <1>5. ASSUME NEW w \in Worker, FetchBatch(w) PROVE Types'
    <2> DEFINE new == {i \in visible : i > job[w].base}
               v == IF new = {} THEN Idle
                    ELSE [job[w] EXCEPT !.pc = "handle",
                                        !.batch = FirstOf(new, BatchSize),
                                        !.todo = FirstOf(new, BatchSize)]
    <2>1. job[w] \in Job
      OBVIOUS
    <2>2. FirstOf(new, BatchSize) \subseteq visible /\ visible \subseteq Id
      BY FirstOfSubset DEF Id
    <2>3. v \in Job /\ v.batch \subseteq visible /\ v.todo \subseteq visible
      BY <2>1, <2>2 DEF Job, Idle
    <2>4. job' = [job EXCEPT ![w] = v]
      BY <1>5, <2>1 DEF FetchBatch, Job
    <2> HIDE DEF v
    <2> QED BY <1>5, <2>3, <2>4, JobUpdate DEF FetchBatch
  <1>6. ASSUME NEW w \in Worker, NEW i \in Id, NEW d \in DRep, FindTransfer(w, i, d)
        PROVE Types'
    <2> DEFINE v == [job[w] EXCEPT !.pc = "insert", !.prev = d]
    <2>1. job[w] \in Job
      OBVIOUS
    <2>2. v \in Job /\ v.batch = job[w].batch /\ v.todo = job[w].todo
      BY <2>1 DEF Job
    <2>3. job' = [job EXCEPT ![w] = v]
      BY <1>6, <2>1 DEF FindTransfer, Job
    <2> HIDE DEF v
    <2> QED BY <1>6, <2>2, <2>3, JobUpdate DEF FindTransfer
  <1>7. ASSUME NEW w \in Worker, NEW i \in Id, HandleEvent(w, i) PROVE Types'
    <2> DEFINE more == {Trigger[t] : t \in {row[i].type} \cap DOMAIN Trigger}
               v == [job[w] EXCEPT !.todo = @ \ {i}, !.trig = @ \cup more]
    <2>1. job[w] \in Job
      OBVIOUS
    <2>2. more \subseteq Kind
      BY DEF Trigger, Kind
    <2>3. v \in Job /\ v.batch = job[w].batch /\ v.todo = job[w].todo \ {i}
      BY <2>1, <2>2 DEF Job
    <2>4. job' = [job EXCEPT ![w] = v]
      BY <1>7, <2>1 DEF HandleEvent, Job
    <2> HIDE DEF v, more
    <2> QED BY <1>7, <2>3, <2>4, JobUpdate DEF HandleEvent
  <1>8. ASSUME NEW w \in Worker, NEW i \in Id, InsertUndelegation(w, i) PROVE Types'
    <2> DEFINE v == [job[w] EXCEPT !.pc = "handle", !.todo = @ \ {i}, !.prev = None]
    <2>1. job[w] \in Job
      OBVIOUS
    <2>2. v \in Job /\ v.batch = job[w].batch /\ v.todo = job[w].todo \ {i}
      BY <2>1 DEF Job
    <2>3. job' = [job EXCEPT ![w] = v]
      BY <1>8, <2>1 DEF InsertUndelegation, Job
    <2>4. row[i] \in Row
      BY <1>8 DEF InsertUndelegation, IsLeast
    <2>5. Synthetic(i, job[w].prev) \in Row
      BY <2>1, <2>4 DEF Synthetic, Row, Job
    <2>6. /\ nextId' \in 1..(MaxId + 1)
          /\ row' \in [Id -> Row \cup {None}]
          /\ \A j \in Id : j < nextId' => row'[j] \in Row
          /\ visible' \subseteq 1..(nextId' - 1)
          /\ visible \subseteq visible'
      <3> HIDE DEF v
      <3>1. CASE SyntheticOf(i) # {}
        BY <1>8, <3>1 DEF InsertUndelegation
      <3>2. CASE SyntheticOf(i) = {}
        <4>1. /\ nextId \in Id
              /\ row' = [row EXCEPT ![nextId] = Synthetic(i, job[w].prev)]
              /\ visible' = visible \cup {nextId}
              /\ nextId' = nextId + 1
          BY <1>8, <3>2 DEF InsertUndelegation, Id
        <4>2. row' \in [Id -> Row \cup {None}]
          BY <4>1, <2>5
        <4>3. \A j \in Id : j < nextId' => row'[j] \in Row
          BY <4>1, <2>5 DEF Id
        <4>4. nextId' \in 1..(MaxId + 1) /\ visible' \subseteq 1..(nextId' - 1)
          BY <4>1 DEF Id
        <4> QED BY <4>1, <4>2, <4>3, <4>4
      <3> QED BY <3>1, <3>2
    <2> HIDE DEF v
    <2>7. /\ job' \in [Worker -> Job]
          /\ job'[w] = v
          /\ \A u \in Worker \ {w} : job'[u] = job[u]
      BY <2>2, <2>3, JobUpdate
    <2>8. JobsVisible'
      BY <2>2, <2>6, <2>7
    <2>9. UNCHANGED <<late, cursor, queues, skipped, faults>>
      BY <1>8 DEF InsertUndelegation
    <2> QED BY <2>6, <2>7, <2>8, <2>9
  <1>9. ASSUME NEW w \in Worker, NEW i \in Id, SaveCursor(w, i) PROVE Types'
    <2>1. Idle \in Job /\ Idle.batch = {} /\ Idle.todo = {}
      BY DEF Idle, Job
    <2> QED BY <1>9, <2>1, JobUpdate DEF SaveCursor, Id
  <1>10. ASSUME NEW w \in Worker, NEW k \in Kind, EnqueueSync(w, k) PROVE Types'
    <2> DEFINE v == [job[w] EXCEPT !.trig = @ \ {k}]
    <2>1. job[w] \in Job
      OBVIOUS
    <2>2. v \in Job /\ v.batch = job[w].batch /\ v.todo = job[w].todo
      BY <2>1 DEF Job
    <2>3. job' = [job EXCEPT ![w] = v]
      BY <1>10, <2>1 DEF EnqueueSync, Job
    <2> HIDE DEF v
    <2>4. /\ job' \in [Worker -> Job]
          /\ job'[w] = v
          /\ \A u \in Worker \ {w} : job'[u] = job[u]
      BY <2>2, <2>3, JobUpdate
    <2>5. queued' \in [Kind -> Nat]
      BY <1>10 DEF EnqueueSync
    <2>6. UNCHANGED <<table, cursor, seen, skipped, faults>>
      BY <1>10 DEF EnqueueSync
    <2> QED BY <2>2, <2>4, <2>5, <2>6
  <1>11. ASSUME NEW w \in Worker, NEW i \in Id, HandlerThrows(w, i) PROVE Types'
    <2> DEFINE v == [job[w] EXCEPT !.pc = "handle", !.todo = @ \ {i}, !.prev = None]
    <2>1. job[w] \in Job
      OBVIOUS
    <2>2. v \in Job /\ v.batch = job[w].batch /\ v.todo = job[w].todo \ {i}
      BY <2>1 DEF Job
    <2>3. job' = [job EXCEPT ![w] = v]
      BY <1>11, <2>1 DEF HandlerThrows, Job
    <2> HIDE DEF v
    <2> QED BY <1>11, <2>2, <2>3, JobUpdate DEF HandlerThrows
  <1>12. ASSUME NEW w \in Worker, RunFails(w) PROVE Types'
    <2>1. Idle \in Job /\ Idle.batch = {} /\ Idle.todo = {}
      BY DEF Idle, Job
    <2> QED BY <1>12, <2>1, JobUpdate DEF RunFails
  <1>13. ASSUME NEW k \in Kind, SyncStarts(k) PROVE Types'
    <2>1. visible \subseteq Id
      BY DEF Id
    <2> QED BY <1>13, <2>1 DEF SyncStarts
  <1>14. CASE UNCHANGED vars
    BY <1>14 DEF vars
  <1> QED
    BY <1>1, <1>2, <1>3, <1>4, <1>5, <1>6, <1>7, <1>8, <1>9, <1>10, <1>11,
       <1>12, <1>13, <1>14 DEF Next, RunStep, RunFault

\* The types hold throughout.
LEMMA TypesAlways == Spec => []Types
  BY TypesInit, TypesNext, PTL DEF Spec

\* Every reachable state of the watcher, its table and its queues is well
\* typed.
THEOREM TypeCorrect == Spec => []TypeOK
  <1>1. Types => TypeOK
    BY DEF Types
  <1> QED BY <1>1, TypesAlways, PTL
-----------------------------------------------------------------------------
(***************************************************************************)
(* No event is lost behind the cursor.  CursorCovers is not inductive: the *)
(* cursor is saved from a run's local copy, so the invariant says of every *)
(* run that what lies at or below its base is covered, that its batch has  *)
(* no gap, and that what the loop has already taken from the batch is      *)
(* covered or still in triggeredSyncs.                                     *)
(***************************************************************************)
BaseCovered(w) ==
  /\ job[w].base \in visible \cup {0}
  /\ \A i \in visible \ late : i <= job[w].base => Covered(i)

NoGap(w) == \A i \in visible \ late, g \in job[w].batch :
              job[w].base < i /\ i <= g => i \in job[w].batch

TakenCovered(w) == \A i \in (job[w].batch \ job[w].todo) \ late :
  row[i].type \in DOMAIN Trigger =>
    Trigger[row[i].type] \in job[w].trig \/ Covered(i)

InsertsDelegation(w) == job[w].pc = "insert" =>
  \A i \in job[w].todo : IsLeast(i, job[w].todo) => row[i].type = "delegation"

Fresh(w) == job[w].pc \in {"idle", "create", "fetch"} => job[w].batch = {}

RunInv(w) == /\ BaseCovered(w)
             /\ Fresh(w)
             /\ NoGap(w)
             /\ TakenCovered(w)
             /\ InsertsDelegation(w)

CoverInv == /\ CursorCovers
            /\ cursor \in visible \cup {0, Absent}
            /\ \A w \in Worker : RunInv(w)

\* Which parts of the state each kind of step leaves alone.
LEMMA Frame ==
  ASSUME [Next]_vars
  PROVE  /\ \/ UNCHANGED table
            \/ \E t \in EventType, a \in Addr \cup {None}, d \in DRep \cup {None} :
                 IndexerInsert(t, a, d)
            \/ \E i \in Id : IndexerCommit(i)
            \/ \E w \in Worker, i \in Id : InsertUndelegation(w, i)
         /\ \/ UNCHANGED queues
            \/ \E w \in Worker, k \in Kind : EnqueueSync(w, k)
            \/ \E k \in Kind : SyncStarts(k)
  <1> USE DEF table, queues
  <1>1. ASSUME NEW w \in Worker, ReadState(w) PROVE UNCHANGED <<table, queues>>
    BY <1>1 DEF ReadState
  <1>2. ASSUME NEW w \in Worker, CreateState(w) PROVE UNCHANGED <<table, queues>>
    BY <1>2 DEF CreateState
  <1>3. ASSUME NEW w \in Worker, FetchBatch(w) PROVE UNCHANGED <<table, queues>>
    BY <1>3 DEF FetchBatch
  <1>4. ASSUME NEW w \in Worker, NEW i \in Id, NEW d \in DRep, FindTransfer(w, i, d)
        PROVE UNCHANGED <<table, queues>>
    BY <1>4 DEF FindTransfer
  <1>5. ASSUME NEW w \in Worker, NEW i \in Id, HandleEvent(w, i)
        PROVE UNCHANGED <<table, queues>>
    BY <1>5 DEF HandleEvent
  <1>6. ASSUME NEW w \in Worker, NEW i \in Id, InsertUndelegation(w, i)
        PROVE UNCHANGED queues
    BY <1>6 DEF InsertUndelegation
  <1>7. ASSUME NEW w \in Worker, NEW i \in Id, SaveCursor(w, i)
        PROVE UNCHANGED <<table, queues>>
    BY <1>7 DEF SaveCursor
  <1>8. ASSUME NEW w \in Worker, NEW k \in Kind, EnqueueSync(w, k)
        PROVE UNCHANGED table
    BY <1>8 DEF EnqueueSync
  <1>9. ASSUME NEW w \in Worker, RunFault(w) PROVE UNCHANGED <<table, queues>>
    BY <1>9 DEF RunFault, RunFails, HandlerThrows
  <1>10. ASSUME NEW k \in Kind, SyncStarts(k) PROVE UNCHANGED table
    BY <1>10 DEF SyncStarts
  <1>11. ASSUME NEW t \in EventType, NEW a \in Addr \cup {None},
                NEW d \in DRep \cup {None}, IndexerInsert(t, a, d)
         PROVE UNCHANGED queues
    BY <1>11 DEF IndexerInsert
  <1>12. ASSUME NEW i \in Id, IndexerCommit(i) PROVE UNCHANGED queues
    BY <1>12 DEF IndexerCommit
  <1>13. CASE UNCHANGED vars
    BY <1>13 DEF vars
  <1> HIDE DEF table, queues
  <1> QED
    BY <1>1, <1>2, <1>3, <1>4, <1>5, <1>6, <1>7, <1>8, <1>9, <1>10, <1>11,
       <1>12, <1>13 DEF Next, RunStep

\* What a step does to the table: rows stay, and a row that appears on time
\* has an id above every row visible before.
LEMMA TableGrows ==
  ASSUME Types, [Next]_vars
  PROVE  /\ visible \subseteq visible' /\ visible' \subseteq Id
         /\ \A i \in visible : row'[i] = row[i]
         /\ \A i \in visible : i \in late' <=> i \in late
         /\ \A i \in (visible' \ late') \ visible : \A j \in visible : j < i
  <1> USE DEF Types, TypeOK, table, queues
  <1>0. CASE UNCHANGED table
    BY <1>0 DEF Id
  <1>1. ASSUME NEW t \in EventType, NEW a \in Addr \cup {None},
               NEW d \in DRep \cup {None}, IndexerInsert(t, a, d)
        PROVE  /\ visible' = visible /\ late' = late
               /\ \A i \in visible : row'[i] = row[i]
    BY <1>1 DEF IndexerInsert, Id
  <1>2. ASSUME NEW i \in Id, IndexerCommit(i)
        PROVE  /\ visible' = visible \cup {i} /\ row' = row
               /\ \A j \in visible : j \in late' <=> j \in late
               /\ i \notin late' => \A j \in visible : j < i
    BY <1>2 DEF IndexerCommit, Id
  <1>3. ASSUME NEW w \in Worker, NEW i \in Id, InsertUndelegation(w, i)
        PROVE  /\ late' = late
               /\ \/ visible' = visible /\ row' = row
                  \/ /\ visible' = visible \cup {nextId}
                     /\ \A j \in visible : row'[j] = row[j] /\ j < nextId
    <2>1. CASE SyntheticOf(i) # {}
      BY <1>3, <2>1 DEF InsertUndelegation
    <2>2. CASE SyntheticOf(i) = {}
      <3>1. /\ row' = [row EXCEPT ![nextId] = Synthetic(i, job[w].prev)]
            /\ visible' = visible \cup {nextId}
            /\ late' = late
        BY <1>3, <2>2 DEF InsertUndelegation
      <3> QED BY <3>1 DEF Id
    <2> QED BY <2>1, <2>2
  <1>4. visible' \subseteq Id
    BY TypesNext DEF Id
  <1> QED BY <1>0, <1>1, <1>2, <1>3, <1>4, Frame

\* Coverage, once won, is kept: a job leaves its queue only by starting.
LEMMA CoveredKept ==
  ASSUME Types, [Next]_vars, NEW i \in visible, Covered(i)
  PROVE  Covered(i)'
  <1> USE DEF Types, TypeOK, Covered, queues
  <1>0. row'[i] = row[i] /\ i \in Id
    BY TableGrows DEF Id
  <1>1. CASE UNCHANGED queues
    BY <1>0, <1>1
  <1>2. ASSUME NEW w \in Worker, NEW k \in Kind, EnqueueSync(w, k)
        PROVE  Covered(i)'
    <2>1. queued' = [queued EXCEPT ![k] = @ + 1] /\ seen' = seen
      BY <1>2 DEF EnqueueSync
    <2>2. \A m \in Kind : queued[m] > 0 => queued'[m] > 0
      BY <2>1
    <2>3. row[i].type \in DOMAIN Trigger => Trigger[row[i].type] \in Kind
      BY DEF Trigger, Kind
    <2> QED BY <1>0, <2>1, <2>2, <2>3
  <1>3. ASSUME NEW k \in Kind, SyncStarts(k) PROVE Covered(i)'
    <2>1. /\ queued' = [queued EXCEPT ![k] = @ - 1]
          /\ seen' = [seen EXCEPT ![k] = visible]
      BY <1>3 DEF SyncStarts
    <2>2. row[i].type \in DOMAIN Trigger => Trigger[row[i].type] \in Kind
      BY DEF Trigger, Kind
    <2>3. \A m \in Kind \ {k} : queued'[m] = queued[m] /\ seen'[m] = seen[m]
      BY <2>1
    <2>4. i \in seen'[k]
      BY <2>1
    <2> QED BY <1>0, <2>2, <2>3, <2>4
  <1> QED BY <1>1, <1>2, <1>3, Frame

\* What lay behind the cursor a run read stays covered, whatever step is taken.
LEMMA BaseCoveredKept ==
  ASSUME Types, [Next]_vars, NEW w \in Worker, BaseCovered(w),
         job'[w].base = job[w].base
  PROVE  BaseCovered(w)'
  <1>1. job[w].base \in Nat /\ visible \subseteq Id
    BY DEF Types, TypeOK, Job, Id
  <1> QED BY <1>1, TableGrows, CoveredKept DEF BaseCovered, Id

\* A run that does not move keeps its invariant whatever the others do.
LEMMA RunInvKept ==
  ASSUME Types, [Next]_vars, NEW w \in Worker, RunInv(w), job'[w] = job[w]
  PROVE  RunInv(w)'
  <1> USE DEF Types, TypeOK, JobsVisible
  <1>0. job[w] \in Job /\ visible \subseteq Id
    BY DEF Id
  <1>1. BaseCovered(w)'
    BY BaseCoveredKept DEF RunInv
  <1>2. NoGap(w)'
    BY <1>0, TableGrows DEF RunInv, NoGap, Id, Job
  <1>3. TakenCovered(w)'
    BY <1>0, TableGrows, CoveredKept DEF RunInv, TakenCovered, Job
  <1>4. InsertsDelegation(w)'
    BY <1>0, TableGrows DEF RunInv, InsertsDelegation, Job
  <1>5. Fresh(w)'
    BY DEF RunInv, Fresh
  <1> QED BY <1>1, <1>2, <1>3, <1>4, <1>5 DEF RunInv

\* A step that leaves the cursor alone keeps the events behind it covered.
LEMMA CursorCoversKept ==
  ASSUME Types, [Next]_vars, CursorCovers, cursor \in visible \cup {0, Absent},
         cursor' = cursor
  PROVE  CursorCovers' /\ (cursor \in visible \cup {0, Absent})'
  BY TableGrows, CoveredKept DEF CursorCovers, Types, TypeOK, Id, Absent

\* Initially there is no row and no run.
LEMMA CoverInvInit == Init => CoverInv
  BY DEF Init, CoverInv, CursorCovers, RunInv, BaseCovered, Fresh, NoGap, TakenCovered,
         InsertsDelegation, Idle

\* A run that has ended satisfies its invariant.
LEMMA IdleRunInv == ASSUME Types, [Next]_vars, NEW w \in Worker, job'[w] = Idle
                    PROVE  RunInv(w)'
  <1>1. visible' \subseteq Id
    BY TableGrows
  <1> QED BY <1>1 DEF RunInv, BaseCovered, Fresh, NoGap, TakenCovered,
                      InsertsDelegation, Idle, Id

\* Every step keeps the cursor and every run covered.
LEMMA CoverInvNext == Types /\ CoverInv /\ [Next]_vars => CoverInv'
  <1> SUFFICES ASSUME Types, CoverInv, [Next]_vars PROVE CoverInv'
    OBVIOUS
  <1> DEFINE CursorInv == CursorCovers /\ cursor \in visible \cup {0, Absent}
  <1>a. CursorInv
    BY DEF CoverInv
  <1>b. \A w \in Worker : RunInv(w) /\ job[w] \in Job
    BY DEF CoverInv, Types, TypeOK
  <1>c. \A u \in Worker : job'[u] = job[u] => RunInv(u)'
    BY <1>b, RunInvKept
  <1>d. cursor' = cursor => CursorInv'
    BY <1>a, CursorCoversKept
  <1>e. visible \subseteq Id
    BY DEF Types, TypeOK, Id
  <1>f. /\ visible \subseteq visible' /\ visible' \subseteq Id
        /\ \A i \in visible : row'[i] = row[i] /\ (i \in late' <=> i \in late)
        /\ \A i \in (visible' \ late') \ visible : \A j \in visible : j < i
        /\ \A i \in visible : Covered(i) => Covered(i)'
    BY TableGrows, CoveredKept
  \* It is enough to look at the run that moves and at the cursor.
  <1>g. ASSUME NEW w \in Worker, RunInv(w)', CursorInv',
               \A u \in Worker \ {w} : job'[u] = job[u]
        PROVE  CoverInv'
    BY <1>c, <1>g DEF CoverInv
  <1>1. CASE UNCHANGED <<cursor, job>>
    BY <1>1, <1>c, <1>d DEF CoverInv
  <1>2. ASSUME NEW w \in Worker, ReadState(w) PROVE CoverInv'
    <2> DEFINE v == [job[w] EXCEPT !.pc = IF cursor = Absent THEN "create" ELSE "fetch",
                                   !.base = IF cursor = Absent THEN 0 ELSE cursor]
    <2>0. cursor \in Nat \cup {Absent}
      BY DEF Types, TypeOK
    <2>1. /\ v \in Job /\ v.pc # "insert"
          /\ v.batch = job[w].batch /\ v.todo = job[w].todo /\ v.trig = job[w].trig
          /\ v.base = IF cursor = Absent THEN 0 ELSE cursor
      BY <1>b, <2>0 DEF Job
    <2>2. job' = [job EXCEPT ![w] = v]
      BY <1>2, <1>b DEF ReadState, Job
    <2> HIDE DEF v
    <2>3. job'[w] = v /\ \A u \in Worker \ {w} : job'[u] = job[u]
      BY <2>1, <2>2, JobUpdate DEF Types
    <2>4. cursor' = cursor
      BY <1>2 DEF ReadState
    <2>5. BaseCovered(w)'
      BY <1>a, <1>e, <1>f, <2>1, <2>3, <2>0 DEF BaseCovered, CursorCovers, Id, Absent
    <2>6. v.batch = {}
      BY <1>2, <1>b, <2>1 DEF ReadState, RunInv, Fresh
    <2>7. Fresh(w)' /\ NoGap(w)' /\ TakenCovered(w)' /\ InsertsDelegation(w)'
      BY <2>1, <2>3, <2>6 DEF Fresh, NoGap, TakenCovered, InsertsDelegation
    <2> QED BY <1>d, <1>g, <2>3, <2>4, <2>5, <2>7 DEF RunInv
  <1>3. ASSUME NEW w \in Worker, CreateState(w) PROVE CoverInv'
    <2> DEFINE v == [job[w] EXCEPT !.pc = "fetch"]
    <2>1. /\ v \in Job /\ v.pc = "fetch" /\ v.base = job[w].base
          /\ v.batch = job[w].batch /\ v.todo = job[w].todo /\ v.trig = job[w].trig
      BY <1>b DEF Job
    <2>2. job' = [job EXCEPT ![w] = v]
      BY <1>3, <1>b DEF CreateState, Job
    <2> HIDE DEF v
    <2>3. job'[w] = v /\ \A u \in Worker \ {w} : job'[u] = job[u]
      BY <2>1, <2>2, JobUpdate DEF Types
    <2>4. CursorInv'
      BY <1>3, <1>f DEF CreateState, CursorCovers, Id
    <2>5. BaseCovered(w)'
      BY <1>b, <2>1, <2>3, BaseCoveredKept DEF RunInv
    <2>6. v.batch = {}
      BY <1>3, <1>b, <2>1 DEF CreateState, RunInv, Fresh
    <2>7. Fresh(w)' /\ NoGap(w)' /\ TakenCovered(w)' /\ InsertsDelegation(w)'
      BY <2>1, <2>3, <2>6 DEF Fresh, NoGap, TakenCovered, InsertsDelegation
    <2> QED BY <1>g, <2>3, <2>4, <2>5, <2>7 DEF RunInv
  <1>4. ASSUME NEW w \in Worker, FetchBatch(w) PROVE CoverInv'
    <2> DEFINE new == {i \in visible : i > job[w].base}
               first == FirstOf(new, BatchSize)
               v == [job[w] EXCEPT !.pc = "handle", !.batch = first, !.todo = first]
    <2>1. cursor' = cursor /\ visible' = visible /\ late' = late
      BY <1>4 DEF FetchBatch, table
    <2>2. CASE new = {}
      <3>1. job' = [job EXCEPT ![w] = Idle]
        BY <1>4, <2>2 DEF FetchBatch
      <3>2. Idle \in Job
        BY DEF Idle, Job
      <3>3. job'[w] = Idle /\ \A u \in Worker \ {w} : job'[u] = job[u]
        BY <3>1, <3>2, JobUpdate DEF Types
      <3> QED BY <1>d, <1>g, <2>1, <3>3, IdleRunInv
    <2>3. CASE new # {}
      <3>0. first \subseteq visible
        BY FirstOfSubset
      <3>1. /\ v \in Job /\ v.pc = "handle" /\ v.base = job[w].base
            /\ v.batch = first /\ v.todo = first
        BY <1>b, <1>e, <3>0 DEF Job
      <3>2. job' = [job EXCEPT ![w] = v]
        BY <1>4, <1>b, <2>3 DEF FetchBatch, Job
      <3>3. new \in SUBSET Id
        BY <1>e
      <3>4. \A i \in new, g \in first : i <= g => i \in first
        BY <3>3, FirstOfDownward
      <3> HIDE DEF v, first
      <3>5. job'[w] = v /\ \A u \in Worker \ {w} : job'[u] = job[u]
        BY <3>1, <3>2, JobUpdate DEF Types
      <3>6. BaseCovered(w)'
        BY <1>b, <3>1, <3>5, BaseCoveredKept DEF RunInv
      <3>7. NoGap(w)'
        BY <1>b, <1>e, <2>1, <3>1, <3>4, <3>5 DEF NoGap, Id, Job
      <3>8. Fresh(w)' /\ TakenCovered(w)' /\ InsertsDelegation(w)'
        BY <3>1, <3>5 DEF Fresh, TakenCovered, InsertsDelegation
      <3> QED BY <1>d, <1>g, <2>1, <3>5, <3>6, <3>7, <3>8 DEF RunInv
    <2> QED BY <2>2, <2>3
  <1>5. ASSUME NEW w \in Worker, NEW i \in Id, NEW d \in DRep, FindTransfer(w, i, d)
        PROVE CoverInv'
    <2> DEFINE v == [job[w] EXCEPT !.pc = "insert", !.prev = d]
    <2>1. /\ v \in Job /\ v.pc = "insert" /\ v.base = job[w].base
          /\ v.batch = job[w].batch /\ v.todo = job[w].todo /\ v.trig = job[w].trig
      BY <1>b DEF Job
    <2>2. job' = [job EXCEPT ![w] = v]
      BY <1>5, <1>b DEF FindTransfer, Job
    <2> HIDE DEF v
    <2>3. job'[w] = v /\ \A u \in Worker \ {w} : job'[u] = job[u]
      BY <2>1, <2>2, JobUpdate DEF Types
    <2>4. cursor' = cursor /\ UNCHANGED table
      BY <1>5 DEF FindTransfer
    <2>5. BaseCovered(w)'
      BY <1>b, <2>1, <2>3, BaseCoveredKept DEF RunInv
    <2>6. NoGap(w)' /\ Fresh(w)'
      BY <1>b, <2>1, <2>3, <2>4 DEF RunInv, NoGap, Fresh, table
    <2>7. TakenCovered(w)'
      BY <1>b, <1>f, <2>1, <2>3, <2>4 DEF RunInv, TakenCovered, table, Types, JobsVisible
    <2>8. InsertsDelegation(w)'
      <3>1. \A j \in v.todo : IsLeast(j, v.todo) => j = i
        BY <1>5, <1>b, <2>1 DEF FindTransfer, Takes, IsLeast, Id, Job
      <3> QED BY <1>5, <2>1, <2>3, <2>4, <3>1 DEF FindTransfer, InsertsDelegation, table
    <2> QED BY <1>d, <1>g, <2>3, <2>4, <2>5, <2>6, <2>7, <2>8 DEF RunInv
  <1>6. ASSUME NEW w \in Worker, NEW i \in Id, HandleEvent(w, i) PROVE CoverInv'
    <2> DEFINE more == {Trigger[t] : t \in {row[i].type} \cap DOMAIN Trigger}
               v == [job[w] EXCEPT !.todo = @ \ {i}, !.trig = @ \cup more]
    <2>0. more \subseteq Kind
      BY DEF Trigger, Kind
    <2>1. /\ v \in Job /\ v.pc = "handle" /\ v.base = job[w].base
          /\ v.batch = job[w].batch /\ v.todo = job[w].todo \ {i}
          /\ v.trig = job[w].trig \cup more
      BY <1>6, <1>b, <2>0 DEF Job, HandleEvent, Takes
    <2>2. job' = [job EXCEPT ![w] = v]
      BY <1>6, <1>b DEF HandleEvent, Job
    <2>3. row[i].type \in DOMAIN Trigger => Trigger[row[i].type] \in more
      OBVIOUS
    <2> HIDE DEF v, more
    <2>4. job'[w] = v /\ \A u \in Worker \ {w} : job'[u] = job[u]
      BY <2>1, <2>2, JobUpdate DEF Types
    <2>5. cursor' = cursor /\ UNCHANGED table
      BY <1>6 DEF HandleEvent
    <2>6. BaseCovered(w)'
      BY <1>b, <2>1, <2>4, BaseCoveredKept DEF RunInv
    <2>7. NoGap(w)' /\ Fresh(w)' /\ InsertsDelegation(w)'
      BY <1>b, <2>1, <2>4, <2>5 DEF RunInv, NoGap, Fresh, InsertsDelegation, table
    <2>8. TakenCovered(w)'
      BY <1>b, <1>f, <2>1, <2>3, <2>4, <2>5
         DEF RunInv, TakenCovered, table, Types, JobsVisible
    <2> QED BY <1>d, <1>g, <2>4, <2>5, <2>6, <2>7, <2>8 DEF RunInv
  <1>7. ASSUME NEW w \in Worker, NEW i \in Id,
               InsertUndelegation(w, i) \/ HandlerThrows(w, i)
        PROVE  CoverInv'
    <2> DEFINE v == [job[w] EXCEPT !.pc = "handle", !.todo = @ \ {i}, !.prev = None]
    <2>1. /\ v \in Job /\ v.pc = "handle" /\ v.base = job[w].base
          /\ v.batch = job[w].batch /\ v.todo = job[w].todo \ {i}
          /\ v.trig = job[w].trig
      BY <1>b DEF Job
    <2>2. job' = [job EXCEPT ![w] = v]
      BY <1>7, <1>b DEF InsertUndelegation, HandlerThrows, Job
    <2> HIDE DEF v
    <2>3. job'[w] = v /\ \A u \in Worker \ {w} : job'[u] = job[u]
      BY <2>1, <2>2, JobUpdate DEF Types
    <2>4. cursor' = cursor
      BY <1>7 DEF InsertUndelegation, HandlerThrows
    <2>5. row[i].type = "delegation" /\ job[w].pc \in {"handle", "insert"} /\ i \in job[w].todo
      BY <1>7, <1>b DEF InsertUndelegation, HandlerThrows, RunInv, InsertsDelegation, IsLeast
    <2>6. BaseCovered(w)'
      BY <1>b, <2>1, <2>3, BaseCoveredKept DEF RunInv
    <2>7. NoGap(w)'
      BY <1>b, <1>e, <1>f, <2>1, <2>3 DEF RunInv, NoGap, Id, Job, Types, JobsVisible
    <2>8. Fresh(w)' /\ InsertsDelegation(w)'
      BY <2>1, <2>3 DEF Fresh, InsertsDelegation
    <2>9. TakenCovered(w)'
      <3>1. row[i].type \notin DOMAIN Trigger
        BY <2>5 DEF Trigger
      <3> QED BY <1>b, <1>f, <2>1, <2>3, <3>1 DEF RunInv, TakenCovered, Types, JobsVisible
    <2> QED BY <1>d, <1>g, <2>3, <2>4, <2>6, <2>7, <2>8, <2>9 DEF RunInv
  <1>8. ASSUME NEW w \in Worker, NEW i \in Id, SaveCursor(w, i) PROVE CoverInv'
    <2>1. Idle \in Job
      BY DEF Idle, Job
    <2>2. /\ job' = [job EXCEPT ![w] = Idle] /\ cursor' = i /\ UNCHANGED <<table, queues>>
          /\ job[w].todo = {} /\ job[w].trig = {} /\ i \in job[w].batch
      BY <1>8 DEF SaveCursor, IsGreatest
    <2>3. job'[w] = Idle /\ \A u \in Worker \ {w} : job'[u] = job[u]
      BY <2>1, <2>2, JobUpdate DEF Types
    <2>4. \A j \in visible \ late : j <= i => Covered(j)
      <3>1. i \in visible
        BY <2>2 DEF Types, JobsVisible
      <3> SUFFICES ASSUME NEW j \in visible \ late, j <= i PROVE Covered(j)
        OBVIOUS
      <3>2. CASE j <= job[w].base
        BY <1>b, <3>2 DEF RunInv, BaseCovered
      <3>3. CASE ~ (j <= job[w].base)
        <4>1. j \in job[w].batch
          BY <1>b, <1>e, <2>2, <3>3 DEF RunInv, NoGap, Id, Job
        <4> QED BY <1>b, <2>2, <4>1 DEF RunInv, TakenCovered, Covered
      <3> QED BY <3>2, <3>3
    <2>5. CursorInv'
      BY <1>f, <2>2, <2>4 DEF CursorCovers, table, Types, JobsVisible
    <2> QED BY <1>g, <2>3, <2>5, IdleRunInv
  <1>9. ASSUME NEW w \in Worker, NEW k \in Kind, EnqueueSync(w, k) PROVE CoverInv'
    <2> DEFINE v == [job[w] EXCEPT !.trig = @ \ {k}]
    <2>1. /\ v \in Job /\ v.pc = job[w].pc /\ v.base = job[w].base
          /\ v.batch = job[w].batch /\ v.todo = job[w].todo
          /\ v.trig = job[w].trig \ {k}
      BY <1>b DEF Job
    <2>2. job' = [job EXCEPT ![w] = v]
      BY <1>9, <1>b DEF EnqueueSync, Job
    <2> HIDE DEF v
    <2>3. job'[w] = v /\ \A u \in Worker \ {w} : job'[u] = job[u]
      BY <2>1, <2>2, JobUpdate DEF Types
    <2>4. cursor' = cursor /\ UNCHANGED table
      BY <1>9 DEF EnqueueSync
    <2>5. queued'[k] > 0
      BY <1>9 DEF EnqueueSync, Types, TypeOK
    <2>6. BaseCovered(w)'
      BY <1>b, <2>1, <2>3, BaseCoveredKept DEF RunInv
    <2>7. NoGap(w)' /\ Fresh(w)' /\ InsertsDelegation(w)'
      BY <1>b, <2>1, <2>3, <2>4 DEF RunInv, NoGap, Fresh, InsertsDelegation, table
    <2>8. TakenCovered(w)'
      <3> SUFFICES ASSUME NEW i \in (job[w].batch \ job[w].todo) \ late,
                          row[i].type \in DOMAIN Trigger
                   PROVE  Trigger[row[i].type] \in v.trig \/ Covered(i)'
        BY <2>1, <2>3, <2>4 DEF TakenCovered, table
      <3>1. i \in visible
        BY DEF Types, JobsVisible
      <3>2. CASE Covered(i)
        BY <1>f, <3>1, <3>2
      <3>3. CASE Trigger[row[i].type] \in job[w].trig \ {k}
        BY <2>1, <3>3
      <3>4. CASE Trigger[row[i].type] = k
        BY <2>4, <2>5, <3>4 DEF Covered, table
      <3> QED BY <1>b, <3>2, <3>3, <3>4 DEF RunInv, TakenCovered
    <2> QED BY <1>d, <1>g, <2>3, <2>4, <2>6, <2>7, <2>8 DEF RunInv
  <1>10. ASSUME NEW w \in Worker, RunFails(w) PROVE CoverInv'
    <2>1. Idle \in Job
      BY DEF Idle, Job
    <2>2. job' = [job EXCEPT ![w] = Idle] /\ cursor' = cursor
      BY <1>10 DEF RunFails
    <2>3. job'[w] = Idle /\ \A u \in Worker \ {w} : job'[u] = job[u]
      BY <2>1, <2>2, JobUpdate DEF Types
    <2> QED BY <1>d, <1>g, <2>2, <2>3, IdleRunInv
  <1>11. ASSUME NEW t \in EventType, NEW a \in Addr \cup {None},
                NEW d \in DRep \cup {None}, IndexerInsert(t, a, d)
         PROVE UNCHANGED <<cursor, job>>
    BY <1>11 DEF IndexerInsert
  <1>12. ASSUME NEW i \in Id, IndexerCommit(i) PROVE UNCHANGED <<cursor, job>>
    BY <1>12 DEF IndexerCommit
  <1>13. ASSUME NEW k \in Kind, SyncStarts(k) PROVE UNCHANGED <<cursor, job>>
    BY <1>13 DEF SyncStarts
  <1>14. CASE UNCHANGED vars
    BY <1>1, <1>14 DEF vars
  <1> QED
    BY <1>1, <1>2, <1>3, <1>4, <1>5, <1>6, <1>7, <1>8, <1>9, <1>10, <1>11, <1>12,
       <1>13, <1>14 DEF Next, RunStep, RunFault

\* Whatever crashes, retries, concurrent runs and commit orders occur, an
\* event that became visible in order has its sync enqueued before the cursor
\* passes it: process() saves the cursor last.
THEOREM NoEventLost == Spec => []CursorCovers
  <1>1. CoverInv => CursorCovers
    BY DEF CoverInv
  <1> QED BY <1>1, TypesAlways, CoverInvInit, CoverInvNext, PTL DEF Spec
-----------------------------------------------------------------------------
(***************************************************************************)
(* The cursor and stale runs.  What a run may save lies above the cursor   *)
(* it had read, so that it can only take a newer cursor back.              *)
(***************************************************************************)
Above(j) == /\ j.pc = "idle" => j.batch = {}
            /\ j.pc = "create" => j.base = 0 /\ j.batch = {}
            /\ \A i \in j.batch : j.base < i

AboveBase == \A w \in Worker : Above(job[w])

\* Initially no run has a batch.
LEMMA AboveInit == Init => AboveBase
  BY DEF Init, AboveBase, Above, Idle

\* A step of one run keeps the invariant if it keeps it for that run.
LEMMA AboveStep ==
  ASSUME Types, AboveBase, NEW w \in Worker, NEW v, Above(v),
         job' = [job EXCEPT ![w] = v]
  PROVE  AboveBase'
  BY DEF Types, TypeOK, AboveBase

\* A run that goes on with the base and the batch it has is as before.
LEMMA AboveGoesOn ==
  ASSUME AboveBase, NEW w \in Worker, NEW v, v.pc \in {"handle", "insert"},
         v.base = job[w].base, v.batch = job[w].batch
  PROVE  Above(v)
  BY DEF AboveBase, Above

\* A batch is taken from the rows above the base, and neither changes until
\* the run ends.
LEMMA AboveNext == Types /\ AboveBase /\ [Next]_vars => AboveBase'
  <1> SUFFICES ASSUME Types, AboveBase, [Next]_vars PROVE AboveBase'
    OBVIOUS
  <1>0. job \in [Worker -> Job] /\ \A w \in Worker : job[w] \in Job
    BY DEF Types, TypeOK
  <1>1. ASSUME NEW w \in Worker, ReadState(w) PROVE AboveBase'
    <2> DEFINE v == [job[w] EXCEPT !.pc   = IF cursor = Absent THEN "create" ELSE "fetch",
                                   !.base = IF cursor = Absent THEN 0 ELSE cursor]
    <2>1. job' = [job EXCEPT ![w] = v]
      BY <1>0, <1>1 DEF ReadState, Job
    <2>2. /\ v.pc = IF cursor = Absent THEN "create" ELSE "fetch"
          /\ v.base = IF cursor = Absent THEN 0 ELSE cursor
          /\ v.batch = job[w].batch
      BY <1>0 DEF Job
    <2>3. job[w].batch = {}
      BY <1>1 DEF ReadState, AboveBase, Above
    <2> HIDE DEF v
    <2>4. Above(v)
      BY <2>2, <2>3 DEF Above
    <2> QED BY <2>1, <2>4, AboveStep
  <1>2. ASSUME NEW w \in Worker, CreateState(w) PROVE AboveBase'
    <2> DEFINE v == [job[w] EXCEPT !.pc = "fetch"]
    <2>1. job' = [job EXCEPT ![w] = v] /\ v.pc = "fetch" /\ v.batch = job[w].batch
      BY <1>0, <1>2 DEF CreateState, Job
    <2>2. job[w].batch = {}
      BY <1>2 DEF CreateState, AboveBase, Above
    <2> HIDE DEF v
    <2>3. Above(v)
      BY <2>1, <2>2 DEF Above
    <2> QED BY <2>1, <2>3, AboveStep
  <1>3. ASSUME NEW w \in Worker, job' = [job EXCEPT ![w] = Idle] PROVE AboveBase'
    <2>1. Above(Idle)
      BY DEF Above, Idle
    <2> QED BY <1>3, <2>1, AboveStep
  <1>4. ASSUME NEW w \in Worker, FetchBatch(w) PROVE AboveBase'
    <2> DEFINE new == {i \in visible : i > job[w].base}
               v == [job[w] EXCEPT !.pc = "handle", !.batch = FirstOf(new, BatchSize),
                                   !.todo = FirstOf(new, BatchSize)]
    <2>1. CASE job' = [job EXCEPT ![w] = Idle]
      BY <1>3, <2>1
    <2>2. CASE job' = [job EXCEPT ![w] = v]
      <3>1. v.pc = "handle" /\ v.base = job[w].base /\ v.batch = FirstOf(new, BatchSize)
        BY <1>0 DEF Job
      <3>2. \A i \in FirstOf(new, BatchSize) : job[w].base < i
        <4>1. visible \subseteq Int /\ job[w].base \in Int
          BY <1>0 DEF Types, TypeOK, Job
        <4> QED BY <4>1, FirstOfSubset
      <3> HIDE DEF v, new
      <3>3. Above(v)
        BY <3>1, <3>2 DEF Above
      <3> QED BY <2>2, <3>3, AboveStep
    <2>3. \/ job' = [job EXCEPT ![w] = Idle]
          \/ job' = [job EXCEPT ![w] = v]
      <3>1. job' = IF new = {} THEN [job EXCEPT ![w] = Idle] ELSE [job EXCEPT ![w] = v]
        BY <1>0, <1>4 DEF FetchBatch, Job
      <3> QED BY <3>1
    <2> QED BY <2>1, <2>2, <2>3
  <1>5. ASSUME NEW w \in Worker, NEW i \in Id, NEW d \in DRep, FindTransfer(w, i, d)
        PROVE  AboveBase'
    <2> DEFINE v == [job[w] EXCEPT !.pc = "insert", !.prev = d]
    <2>1. /\ job' = [job EXCEPT ![w] = v] /\ v.pc = "insert"
          /\ v.base = job[w].base /\ v.batch = job[w].batch
      BY <1>0, <1>5 DEF FindTransfer, Job
    <2> HIDE DEF v
    <2>2. Above(v)
      BY <2>1, AboveGoesOn
    <2> QED BY <2>1, <2>2, AboveStep
  <1>6. ASSUME NEW w \in Worker, NEW i \in Id, HandleEvent(w, i) PROVE AboveBase'
    <2> DEFINE v == [job[w] EXCEPT !.todo = @ \ {i},
                       !.trig = @ \cup {Trigger[t] : t \in {row[i].type} \cap DOMAIN Trigger}]
    <2>1. /\ job' = [job EXCEPT ![w] = v] /\ v.pc = "handle"
          /\ v.base = job[w].base /\ v.batch = job[w].batch
      BY <1>0, <1>6 DEF HandleEvent, Takes, Job
    <2> HIDE DEF v
    <2>2. Above(v)
      BY <2>1, AboveGoesOn
    <2> QED BY <2>1, <2>2, AboveStep
  <1>7. ASSUME NEW w \in Worker, NEW i \in Id, InsertUndelegation(w, i) \/ HandlerThrows(w, i)
        PROVE  AboveBase'
    <2> DEFINE v == [job[w] EXCEPT !.pc = "handle", !.todo = @ \ {i}, !.prev = None]
    <2>1. /\ job' = [job EXCEPT ![w] = v] /\ v.pc = "handle"
          /\ v.base = job[w].base /\ v.batch = job[w].batch
      BY <1>0, <1>7 DEF InsertUndelegation, HandlerThrows, Job
    <2> HIDE DEF v
    <2>2. Above(v)
      BY <2>1, AboveGoesOn
    <2> QED BY <2>1, <2>2, AboveStep
  <1>8. ASSUME NEW w \in Worker, NEW k \in Kind, EnqueueSync(w, k) PROVE AboveBase'
    <2> DEFINE v == [job[w] EXCEPT !.trig = @ \ {k}]
    <2>1. /\ job' = [job EXCEPT ![w] = v] /\ v.pc = "handle"
          /\ v.base = job[w].base /\ v.batch = job[w].batch
      BY <1>0, <1>8 DEF EnqueueSync, Job
    <2> HIDE DEF v
    <2>2. Above(v)
      BY <2>1, AboveGoesOn
    <2> QED BY <2>1, <2>2, AboveStep
  <1>9. ASSUME NEW w \in Worker, NEW i \in Id, SaveCursor(w, i) \/ RunFails(w)
        PROVE  AboveBase'
    BY <1>3, <1>9 DEF SaveCursor, RunFails
  <1>10. CASE job' = job
    BY <1>10 DEF AboveBase
  <1>11. ASSUME NEW w \in Worker, RunFails(w) PROVE AboveBase'
    BY <1>3, <1>11 DEF RunFails
  <1>12. ASSUME NEW t \in EventType, NEW a \in Addr \cup {None}, NEW d \in DRep \cup {None},
                IndexerInsert(t, a, d)
         PROVE  job' = job
    BY <1>12 DEF IndexerInsert
  <1>13. ASSUME NEW i \in Id, IndexerCommit(i) PROVE job' = job
    BY <1>13 DEF IndexerCommit
  <1>14. ASSUME NEW k \in Kind, SyncStarts(k) PROVE job' = job
    BY <1>14 DEF SyncStarts
  <1>15. CASE UNCHANGED vars
    BY <1>10, <1>15 DEF vars
  <1> QED BY <1>1, <1>2, <1>4, <1>5, <1>6, <1>7, <1>8, <1>9, <1>10, <1>11, <1>12,
             <1>13, <1>14, <1>15 DEF Next, RunStep, RunFault

\* Only the two saves of the position move the cursor.
LEMMA CursorFrame ==
  ASSUME [Next]_vars
  PROVE  \/ cursor' = cursor
         \/ \E w \in Worker : CreateState(w)
         \/ \E w \in Worker, i \in Id : SaveCursor(w, i)
  <1> USE DEF table, queues
  <1>1. ASSUME NEW w \in Worker, RunStep(w)
        PROVE  \/ cursor' = cursor
               \/ CreateState(w)
               \/ \E i \in Id : SaveCursor(w, i)
    <2>1. ASSUME NEW i \in Id, \/ \E d \in DRep : FindTransfer(w, i, d)
                               \/ HandleEvent(w, i)
                               \/ InsertUndelegation(w, i)
          PROVE  cursor' = cursor
      BY <2>1 DEF FindTransfer, HandleEvent, InsertUndelegation
    <2>2. ASSUME \/ ReadState(w) \/ FetchBatch(w)
                 \/ \E k \in Kind : EnqueueSync(w, k)
          PROVE  cursor' = cursor
      BY <2>2 DEF ReadState, FetchBatch, EnqueueSync
    <2> QED BY <1>1, <2>1, <2>2 DEF RunStep
  <1>2. ASSUME NEW w \in Worker, RunFault(w) PROVE cursor' = cursor
    BY <1>2 DEF RunFault, RunFails, HandlerThrows
  <1>3. ASSUME NEW k \in Kind, SyncStarts(k) PROVE cursor' = cursor
    BY <1>3 DEF SyncStarts
  <1>4. ASSUME NEW t \in EventType, NEW a \in Addr \cup {None},
               NEW d \in DRep \cup {None}, IndexerInsert(t, a, d)
        PROVE cursor' = cursor
    BY <1>4 DEF IndexerInsert
  <1>5. ASSUME NEW i \in Id, IndexerCommit(i) PROVE cursor' = cursor
    BY <1>5 DEF IndexerCommit
  <1>6. CASE UNCHANGED vars
    BY <1>6 DEF vars
  <1> QED BY <1>1, <1>2, <1>3, <1>4, <1>5, <1>6 DEF Next

\* Only CreateState and SaveCursor write the cursor, and what they write lies
\* above the base of their run or starts from nothing.
LEMMA CursorStep ==
  ASSUME Types, AboveBase, [Next]_vars, cursor' < cursor
  PROVE  \E w \in Worker : job'[w] # job[w] /\ job[w].base < cursor
  <1>0. job \in [Worker -> Job] /\ cursor \in Int /\ \A w \in Worker : job[w] \in Job
    BY DEF Types, TypeOK, Absent
  <1>1. cursor' # cursor
    BY <1>0
  <1>2. ASSUME NEW w \in Worker, CreateState(w) PROVE job'[w] # job[w] /\ job[w].base < cursor
    <2>1. job[w].base = 0 /\ cursor' = 0
      BY <1>2 DEF CreateState, AboveBase, Above
    <2>2. job'[w].pc = "fetch" /\ job[w].pc = "create"
      BY <1>0, <1>2 DEF CreateState, Job
    <2> QED BY <1>0, <2>1, <2>2
  <1>3. ASSUME NEW w \in Worker, NEW i \in Id, SaveCursor(w, i)
        PROVE  job'[w] # job[w] /\ job[w].base < cursor
    <2>1. i \in job[w].batch /\ cursor' = i
      BY <1>3 DEF SaveCursor, IsGreatest
    <2>2. job[w].base < i /\ job[w].base \in Int /\ i \in Int
      BY <1>0, <2>1 DEF AboveBase, Above, Job, Id
    <2>3. job'[w] = Idle /\ job[w].pc = "handle"
      BY <1>0, <1>3 DEF SaveCursor
    <2> QED BY <1>0, <2>1, <2>2, <2>3 DEF Idle
  <1>4. \/ \E w \in Worker : CreateState(w)
        \/ \E w \in Worker, i \in Id : SaveCursor(w, i)
    BY <1>1, CursorFrame
  <1> QED BY <1>2, <1>3, <1>4

\* The cursor moves back only by the hand of a run that had read it before
\* another run moved it on.
THEOREM BackOnlyIfStale == Spec => CursorMonotone
  <1>1. Types /\ AboveBase /\ [Next]_vars =>
          [cursor' < cursor =>
             \E w \in Worker : job'[w] # job[w] /\ job[w].base < cursor]_vars
    BY CursorStep
  <1> QED BY <1>1, TypesInit, TypesNext, AboveInit, AboveNext, PTL DEF Spec, CursorMonotone
-----------------------------------------------------------------------------
(***************************************************************************)
(* Refinement.  Every step of the watcher, of the indexer and of the syncs *)
(* is a step of the feed or leaves it alone.                               *)
(***************************************************************************)
Served == {i \in Asks : Covered(i)}
Acked  == {i \in Asks : i <= cursor}

\* Published and served events stay so, and only what is served is behind the
\* cursor.
LEMMA FeedGrows ==
  ASSUME Types, CoverInv, [Next]_vars
  PROVE  /\ Asks \subseteq Asks' /\ Asks' \subseteq Id
         /\ Served \subseteq Served' /\ Served' \subseteq Asks'
         /\ Acked \subseteq Served /\ Acked' \subseteq Served'
  <1>1. Asks \subseteq Asks' /\ Asks' \subseteq Id
    BY TableGrows DEF Asks
  <1>2. Served \subseteq Served' /\ Served' \subseteq Asks'
    BY <1>1, CoveredKept DEF Served, Asks
  <1>3. Acked \subseteq Served
    BY DEF Acked, Served, Asks, CoverInv, CursorCovers
  <1>4. CoverInv'
    BY CoverInvNext
  <1>5. Acked' \subseteq Served'
    BY <1>4 DEF Acked, Served, Asks, CoverInv, CursorCovers
  <1> QED BY <1>1, <1>2, <1>3, <1>5

\* A committed row is a new event of the feed, unless it is late or asks for
\* no sync; it lies above the cursor.
LEMMA CommitPublishes ==
  ASSUME Types, CoverInv, [Next]_vars, NEW i \in Id, IndexerCommit(i)
  PROVE  Feed!Publish(i) \/ UNCHANGED <<Asks, Served, Acked>>
  <1> USE DEF Types, TypeOK
  <1>1. /\ visible' = visible \cup {i} /\ i \notin visible
        /\ row' = row /\ UNCHANGED queues /\ cursor' = cursor
        /\ \A j \in visible : j \in late' <=> j \in late
        /\ i \notin late' => \A j \in visible : j < i
    BY DEF IndexerCommit, Id
  <1>2. visible \subseteq Id
    BY DEF Id
  <1>3. \A j \in visible : Covered(j)' <=> Covered(j)
    BY <1>1 DEF Covered, queues
  <1>4. Asks' = Asks \cup ({i} \cap Asks') /\ i \notin Asks
    BY <1>1, <1>2 DEF Asks
  <1>5. Served' = Served \cup ({i} \cap Served')
    BY <1>1, <1>3, <1>4 DEF Served, Asks
  <1>6. i \in Asks' => i > cursor
    <2>1. i \in Asks' => \A j \in visible : j < i
      BY <1>1 DEF Asks
    <2>2. cursor \in visible \cup {0, Absent} /\ Absent < i /\ 0 < i
      BY DEF CoverInv, Absent, Id
    <2> QED BY <2>1, <2>2, <1>2 DEF Id
  <1>7. Acked' = Acked
    <2>1. cursor \in Int /\ i \in Int
      BY DEF Absent, Id
    <2> QED BY <1>1, <1>4, <1>6, <2>1 DEF Acked
  <1>8. CASE i \in Asks'
    BY <1>4, <1>5, <1>7, <1>8 DEF Feed!Publish, Served, Acked
  <1>9. CASE i \notin Asks'
    <2>1. i \notin Served'
      BY <1>9 DEF Served
    <2>2. Asks' = Asks
      BY <1>4, <1>9
    <2>3. Served' = Served
      BY <1>5, <2>1
    <2> HIDE DEF Asks, Served, Acked
    <2> QED BY <1>7, <2>2, <2>3
  <1> QED BY <1>8, <1>9

\* Every step of the watcher is a step of the feed.
LEMMA FeedStep ==
  ASSUME Types, CoverInv, [Next]_vars
  PROVE  [Feed!Next]_(Feed!feed)
  <1> USE DEF Served, Acked
  <1>0. Asks \subseteq Asks' /\ Served \subseteq Served' /\ Acked \subseteq Served
        /\ Acked' \subseteq Served' /\ Asks' \subseteq Id /\ Served' \subseteq Asks'
    BY FeedGrows
  <1> HIDE DEF Served, Acked
  <1>1. CASE UNCHANGED table /\ cursor' = cursor
    <2>1. Asks' = Asks /\ Acked' = Acked
      BY <1>1 DEF table, Asks, Acked
    <2>2. Served' \in SUBSET Id /\ Feed!Serve(Served')
      BY <1>0, <2>1 DEF Feed!Serve, Served, Acked
    <2> QED BY <2>2 DEF Feed!Next
  <1>2. CASE UNCHANGED <<table, queues>>
    <2>1. Asks' = Asks /\ Served' = Served
      BY <1>2 DEF table, queues, Asks, Served, Covered
    <2>2. CASE cursor' >= cursor
      <3>1. \A i \in Asks : i <= cursor => i <= cursor'
        <4>1. cursor \in Int /\ cursor' \in Int
          BY TypesNext DEF Types, TypeOK, Absent
        <4> QED BY <1>0, <2>2, <4>1 DEF Id
      <3>2. PICK S \in SUBSET Id : S = Acked'
        BY <1>0
      <3>3. Feed!Acknowledge(S)
        BY <1>0, <2>1, <3>1, <3>2 DEF Feed!Acknowledge, Served, Acked
      <3> QED BY <3>3 DEF Feed!Next
    <2>3. CASE ~ (cursor' >= cursor)
      <3>1. \A i \in Asks : i <= cursor' => i <= cursor
        <4>1. cursor \in Int /\ cursor' \in Int
          BY TypesNext DEF Types, TypeOK, Absent
        <4> QED BY <1>0, <2>3, <4>1 DEF Id
      <3>2. PICK S \in SUBSET Id : S = Acked \ Acked'
        BY <1>0
      <3>3. Feed!FallBack(S)
        BY <1>0, <2>1, <3>1, <3>2 DEF Feed!FallBack, Served, Acked
      <3> QED BY <3>3 DEF Feed!Next
    <2> QED BY <2>2, <2>3
  <1>3. ASSUME NEW i \in Id, IndexerCommit(i) PROVE [Feed!Next]_(Feed!feed)
    BY <1>3, CommitPublishes DEF Feed!Next, Feed!feed, Served, Acked
  <1>4. ASSUME NEW t \in EventType, NEW a \in Addr \cup {None},
               NEW d \in DRep \cup {None}, IndexerInsert(t, a, d)
        PROVE  UNCHANGED <<Asks, Served, Acked>>
    <2>1. /\ UNCHANGED <<visible, late, cursor, queued, seen>>
          /\ \A i \in visible : row'[i] = row[i]
      BY <1>4, TableGrows DEF IndexerInsert, queues
    <2> QED BY <2>1 DEF Asks, Served, Acked, Covered
  <1>5. ASSUME NEW w \in Worker, NEW i \in Id, InsertUndelegation(w, i)
        PROVE  UNCHANGED <<Asks, Served, Acked>>
    <2>1. /\ UNCHANGED <<late, cursor, queued, seen>>
          /\ visible \subseteq visible'
          /\ \A j \in visible : row'[j] = row[j]
      BY <1>5, TableGrows DEF InsertUndelegation, queues
    <2>2. \A j \in visible' \ visible : row'[j].type = "undelegation"
      <3>1. CASE SyntheticOf(i) # {}
        BY <1>5, <3>1 DEF InsertUndelegation
      <3>2. CASE SyntheticOf(i) = {}
        <4>1. /\ row' = [row EXCEPT ![nextId] = Synthetic(i, job[w].prev)]
              /\ visible' = visible \cup {nextId} /\ nextId \in Id
          BY <1>5, <3>2 DEF InsertUndelegation, Types, TypeOK, Id
        <4>2. row \in [Id -> Row \cup {None}]
          BY DEF Types, TypeOK
        <4>3. row'[nextId].type = "undelegation"
          BY <4>1, <4>2 DEF Synthetic
        <4> QED BY <4>1, <4>3
      <3> QED BY <3>1, <3>2
    <2>3. Asks' = Asks
      BY <2>1, <2>2 DEF Asks, Trigger
    <2> QED BY <2>1, <2>3 DEF Asks, Served, Acked, Covered
  <1>6. UNCHANGED <<Asks, Served, Acked>> => [Feed!Next]_(Feed!feed)
    BY DEF Feed!feed, Served, Acked
  <1>7. cursor' = cursor \/ UNCHANGED <<table, queues>>
    BY CursorFrame DEF CreateState, SaveCursor
  <1> QED BY <1>1, <1>2, <1>3, <1>4, <1>5, <1>6, <1>7, Frame

\* The watcher is an at-least-once feed: for any number of replicas, events
\* and faults, process() refines the safety part of EventFeed.
THEOREM RefinesFeed == Spec => Feed!Spec
  <1>1. Init => Feed!Init
    BY DEF Init, Feed!Init, Asks
  <1>2. Types /\ CoverInv /\ [Next]_vars => [Feed!Next]_(Feed!feed)
    BY FeedStep
  <1> QED BY <1>1, <1>2, TypesAlways, CoverInvInit, CoverInvNext, PTL DEF Spec, Feed!Spec

-----------------------------------------------------------------------------
(***************************************************************************)
(* The undelegations the watcher synthesizes: they are sound, and every    *)
(* transfer behind the cursor has one, for any number of replicas, events, *)
(* batch size and faults.                                                  *)
(***************************************************************************)

\* The address of event i had chosen d, and leaves it with i.
Left(i, d) == d # row[i].drep /\ \E p \in Earlier(i) : row[p].drep = d

\* d is what a lookup for event i found: a DRep the address left and, unless a
\* late row disturbs the lookup, still what a lookup finds.
Sourced(i, d) == Left(i, d) /\ (Undisturbed(i) => TransferFrom(i, d))

\* If event i is a transfer its undelegation is in the table.
Recorded(i) ==
  row[i].type = "delegation" /\ Undisturbed(i) =>
    \A d \in DRep : TransferFrom(i, d) => \E j \in SyntheticOf(i) : row[j].drep = d

RecordedTo(c) == \A i \in visible \ skipped : i <= c => Recorded(i)

\* Of one run: what lies at or below its base is recorded, so is what the loop
\* has taken from the batch, and what it is about to insert has a source.
Records(j) ==
  /\ RecordedTo(j.base)
  /\ \A i \in (j.batch \ j.todo) \ skipped : Recorded(i)
  /\ j.pc = "insert" => \A i \in j.todo, d \in DRep \cup {None} :
                          IsLeast(i, j.todo) /\ d = j.prev => Sourced(i, d)

\* The indexer never writes an undelegation: each is the watcher's, is alone
\* for its event and has a source.
OwnOpen == \A i \in Id : i < nextId /\ i \notin visible => row[i].type # "undelegation"
Backed  == \A j \in visible, s \in Id \cup {NoId}, d \in DRep \cup {None} :
             row[j].type = "undelegation" /\ row[j].src = s /\ row[j].drep = d =>
               s \in visible /\ SyntheticOf(s) = {j} /\ Sourced(s, d)

\* Inductive, with CoverInv: neither property is.  What is inserted was looked
\* up a step before, and a row that finds the unique key taken relies on what
\* another run found.
TransferInv == /\ OwnOpen /\ Backed
               /\ RecordedTo(cursor)
               /\ \A w \in Worker : Records(job[w])

\* Initially there is no row and no run.
LEMMA TransferInit == Init => TransferInv
  BY DEF Init, TransferInv, OwnOpen, Backed, RecordedTo, Records, Idle, Id

\* Only a handler that throws skips an event.
LEMMA SkippedGrows == [Next]_vars => skipped \subseteq skipped'
  <1> SUFFICES ASSUME [Next]_vars PROVE skipped \subseteq skipped'
    OBVIOUS
  <1>1. ASSUME NEW w \in Worker, RunStep(w) PROVE skipped' = skipped
    <2>1. ASSUME NEW i \in Id, \/ \E d \in DRep : FindTransfer(w, i, d)
                               \/ HandleEvent(w, i)
                               \/ InsertUndelegation(w, i)
                               \/ SaveCursor(w, i)
          PROVE  skipped' = skipped
      BY <2>1 DEF FindTransfer, HandleEvent, InsertUndelegation, SaveCursor
    <2>2. ASSUME \/ ReadState(w) \/ CreateState(w) \/ FetchBatch(w)
                 \/ \E k \in Kind : EnqueueSync(w, k)
          PROVE  skipped' = skipped
      BY <2>2 DEF ReadState, CreateState, FetchBatch, EnqueueSync
    <2> QED BY <1>1, <2>1, <2>2 DEF RunStep
  <1>2. ASSUME NEW w \in Worker, RunFault(w) PROVE skipped \subseteq skipped'
    BY <1>2 DEF RunFault, RunFails, HandlerThrows
  <1>3. ASSUME NEW k \in Kind, SyncStarts(k) PROVE skipped' = skipped
    BY <1>3 DEF SyncStarts
  <1>4. ASSUME NEW t \in EventType, NEW a \in Addr \cup {None},
               NEW d \in DRep \cup {None}, IndexerInsert(t, a, d)
        PROVE skipped' = skipped
    BY <1>4 DEF IndexerInsert
  <1>5. ASSUME NEW i \in Id, IndexerCommit(i) PROVE skipped' = skipped
    BY <1>5 DEF IndexerCommit
  <1>6. CASE UNCHANGED vars
    BY <1>6 DEF vars
  <1> QED BY <1>1, <1>2, <1>3, <1>4, <1>5, <1>6 DEF Next
-----------------------------------------------------------------------------
(***************************************************************************)
(* What every step keeps.                                                  *)
(***************************************************************************)
\* A lookup for a visible row sees what it saw before, and more only if a late
\* row of the address disturbs it: a row that commits on time lies above it.
LEMMA EarlierKept ==
  ASSUME Types, [Next]_vars, NEW i \in visible
  PROVE  /\ Earlier(i) \subseteq Earlier(i)'
         /\ Undisturbed(i)' => Undisturbed(i) /\ Earlier(i)' = Earlier(i)
  <1>1. /\ visible \subseteq visible' /\ visible' \subseteq Id
        /\ \A j \in visible : row'[j] = row[j] /\ (j \in late' <=> j \in late)
        /\ \A n \in (visible' \ late') \ visible : \A j \in visible : j < n
        /\ late \subseteq visible /\ Id \subseteq Int
    BY TableGrows DEF Types, TypeOK, Id
  <1>2. Earlier(i) \subseteq Earlier(i)'
    BY <1>1 DEF Earlier
  <1>3. ASSUME Undisturbed(i)' PROVE Undisturbed(i)
    BY <1>1, <1>3 DEF Undisturbed
  <1>4. ASSUME Undisturbed(i)', NEW n \in Earlier(i)' PROVE n \in Earlier(i)
    <2>1. n \in visible' /\ n < i /\ row'[n].type = "delegation" /\ row'[n].addr = row'[i].addr
      BY <1>4 DEF Earlier
    <2>2. n \notin late'
      <3>0. n \in Int /\ i \in Int
        BY <1>1, <2>1
      <3>1. n <= i
        BY <2>1, <3>0
      <3> QED BY <1>4, <2>1, <3>1 DEF Undisturbed
    <2>3. n \in visible
      <3>1. ~ (i < n)
        BY <1>1, <2>1
      <3> QED BY <1>1, <2>1, <2>2, <3>1
    <2> QED BY <1>1, <2>1, <2>3 DEF Earlier
  <1> QED BY <1>2, <1>3, <1>4

\* So a transfer is one before if it is one after the step and nothing
\* disturbs it, and conversely.
LEMMA TransferKept ==
  ASSUME Types, [Next]_vars, NEW i \in visible, Undisturbed(i)', NEW d
  PROVE  TransferFrom(i, d)' <=> TransferFrom(i, d)
  <1>1. Earlier(i)' = Earlier(i) /\ Earlier(i) \subseteq visible
    BY EarlierKept DEF Earlier
  <1>2. \A j \in visible : row'[j] = row[j]
    BY TableGrows
  <1>3. \A p \in Earlier(i) : row'[p] = row[p]
    BY <1>1, <1>2
  <1> QED BY <1>1, <1>2, <1>3 DEF TransferFrom, IsGreatest

\* What a lookup found keeps its source.
LEMMA SourcedKept ==
  ASSUME Types, [Next]_vars, NEW i \in visible, NEW d, Sourced(i, d)
  PROVE  Sourced(i, d)'
  <1>1. /\ Earlier(i) \subseteq Earlier(i)' /\ Earlier(i) \subseteq visible
        /\ Undisturbed(i)' => Undisturbed(i)
    BY EarlierKept DEF Earlier
  <1>2. \A j \in visible : row'[j] = row[j]
    BY TableGrows
  <1>3. Left(i, d)'
    BY <1>1, <1>2 DEF Sourced, Left
  <1>4. Undisturbed(i)' => TransferFrom(i, d)'
    BY <1>1, TransferKept DEF Sourced
  <1> QED BY <1>3, <1>4 DEF Sourced

\* A recorded transfer stays recorded.
LEMMA RecordedKept ==
  ASSUME Types, [Next]_vars, NEW i \in visible, Recorded(i)
  PROVE  Recorded(i)'
  <1>1. /\ visible \subseteq visible'
        /\ \A j \in visible : row'[j] = row[j]
    BY TableGrows
  <1>2. Undisturbed(i)' => Undisturbed(i)
    BY EarlierKept
  <1> SUFFICES ASSUME row[i].type = "delegation", Undisturbed(i)',
                      NEW d \in DRep, TransferFrom(i, d)'
               PROVE  \E j \in SyntheticOf(i)' : row'[j].drep = d
    BY <1>1 DEF Recorded
  <1>3. TransferFrom(i, d)
    BY TransferKept
  <1>4. PICK j \in SyntheticOf(i) : row[j].drep = d
    BY <1>2, <1>3 DEF Recorded
  <1>5. j \in visible
    BY <1>4 DEF SyntheticOf
  <1> QED BY <1>1, <1>4, <1>5 DEF SyntheticOf

\* A row that becomes visible lies above all others, or nothing is asked of it.
LEMMA NewRecorded ==
  ASSUME Types, [Next]_vars, NEW i \in visible' \ visible
  PROVE  Recorded(i)' \/ \A j \in visible : j < i
  <1>1. CASE i \notin late'
    BY <1>1, TableGrows
  <1>2. CASE i \in late'
    <2>1. i \in Int
      BY TableGrows DEF Id
    <2>2. row'[i].type = "delegation" => ~ Undisturbed(i)'
      BY <1>2, <2>1 DEF Undisturbed
    <2> QED BY <2>2 DEF Recorded
  <1> QED BY <1>1, <1>2

\* What is recorded up to a position stays so.
LEMMA RecordedToKept ==
  ASSUME Types, [Next]_vars, NEW c \in visible \cup {0, Absent}, RecordedTo(c)
  PROVE  RecordedTo(c)'
  <1> SUFFICES ASSUME NEW i \in visible', i \notin skipped', i <= c
               PROVE  Recorded(i)'
    BY DEF RecordedTo
  <1>1. i \notin skipped /\ i \in Id /\ visible \subseteq Id
    BY SkippedGrows, TableGrows DEF Types, TypeOK, Id
  <1>2. CASE i \in visible
    BY <1>1, <1>2, RecordedKept DEF RecordedTo
  <1>3. CASE i \notin visible
    <2>1. ~ \A j \in visible : j < i
      BY <1>1 DEF Id, Absent
    <2> QED BY <1>3, <2>1, NewRecorded
  <1> QED BY <1>2, <1>3

\* A run that does not move keeps what is said of it.
LEMMA RecordsKept ==
  ASSUME Types, [Next]_vars, NEW j, j.base \in visible \cup {0},
         j.batch \subseteq visible, j.todo \subseteq visible, Records(j)
  PROVE  Records(j)'
  <1>1. RecordedTo(j.base)'
    BY RecordedToKept DEF Records
  <1>2. \A i \in (j.batch \ j.todo) \ skipped' : Recorded(i)'
    BY SkippedGrows, RecordedKept DEF Records
  <1>3. j.pc = "insert" => \A i \in j.todo, d \in DRep \cup {None} :
                             IsLeast(i, j.todo) /\ d = j.prev => Sourced(i, d)'
    BY SourcedKept DEF Records
  <1> QED BY <1>1, <1>2, <1>3 DEF Records
-----------------------------------------------------------------------------
(***************************************************************************)
(* Undelegations are inserted only by the watcher.                         *)
(***************************************************************************)
\* A visible row has an id that was given out, and the columns of a row.
LEMMA VisibleRow ==
  ASSUME NEW next \in 1..(MaxId + 1), NEW vis \in SUBSET (1..(next - 1)), NEW r,
         \A i \in Id : i < next => r[i] \in Row
  PROVE  \A j \in vis : j \in Id /\ j < next /\ r[j] \in Row
  <1>1. ASSUME NEW j \in vis PROVE j \in Id /\ j < next
    <2>1. j \in 1..(next - 1)
      OBVIOUS
    <2> QED BY <2>1, BoundAssumption DEF Id
  <1> QED BY <1>1

\* The undelegations in the table stay sound if a new one is the first of its
\* event and has a source.
LEMMA BackedStep ==
  ASSUME Types, Backed, [Next]_vars,
         \A n \in visible' \ visible : row'[n].type = "undelegation" =>
           \A s \in Id \cup {NoId}, d \in DRep \cup {None} :
             row'[n].src = s /\ row'[n].drep = d =>
               /\ s \in visible /\ SyntheticOf(s) = {} /\ Sourced(s, d)
               /\ visible' = visible \cup {n}
  PROVE  Backed'
  <1>1. visible \subseteq visible' /\ \A j \in visible : row'[j] = row[j]
    BY TableGrows
  <1> SUFFICES ASSUME NEW j \in visible', NEW s \in Id \cup {NoId},
                      NEW d \in DRep \cup {None}, row'[j].type = "undelegation",
                      row'[j].src = s, row'[j].drep = d
               PROVE  s \in visible' /\ SyntheticOf(s)' = {j} /\ Sourced(s, d)'
    BY DEF Backed
  <1>2. CASE j \in visible
    <2>1. s \in visible /\ SyntheticOf(s) = {j} /\ Sourced(s, d)
      BY <1>1, <1>2 DEF Backed
    <2>2. ASSUME NEW k \in SyntheticOf(s)' PROVE k = j
      <3>1. k \in visible' /\ row'[k].type = "undelegation" /\ row'[k].src = s
        BY <2>2 DEF SyntheticOf
      <3>2. CASE k \in visible
        BY <1>1, <2>1, <3>1, <3>2 DEF SyntheticOf
      <3>3. CASE k \notin visible
        <4>1. row'[k].drep \in DRep \cup {None}
          <5>1. Types'
            BY TypesNext
          <5>2. /\ nextId' \in 1..(MaxId + 1) /\ visible' \in SUBSET (1..(nextId' - 1))
                /\ \A i \in Id : i < nextId' => row'[i] \in Row
            BY <5>1 DEF Types, TypeOK
          <5>3. row'[k] \in Row
            BY <3>1, <5>2, VisibleRow
          <5> QED BY <5>3 DEF Row
        <4> QED BY <2>1, <3>1, <3>3, <4>1
      <3> QED BY <3>2, <3>3
    <2>3. j \in SyntheticOf(s)'
      BY DEF SyntheticOf
    <2> QED BY <1>1, <2>1, <2>2, <2>3, SourcedKept
  <1>3. CASE j \notin visible
    <2>1. s \in visible /\ SyntheticOf(s) = {} /\ Sourced(s, d) /\ visible' = visible \cup {j}
      BY <1>3
    <2>2. SyntheticOf(s)' = {j}
      BY <1>1, <2>1 DEF SyntheticOf
    <2> QED BY <1>1, <2>1, <2>2, SourcedKept
  <1> QED BY <1>2, <1>3

\* What a run inserts, if it inserts.
LEMMA Inserted ==
  ASSUME Types, TransferInv, NEW w \in Worker, NEW i \in Id, InsertUndelegation(w, i),
         SyntheticOf(i) = {}
  PROVE  /\ i \in visible /\ nextId \in Id /\ nextId \notin visible
         /\ visible' = visible \cup {nextId} /\ nextId' = nextId + 1
         /\ \A j \in Id \ {nextId} : row'[j] = row[j]
         /\ row'[nextId].type = "undelegation" /\ row'[nextId].src = i
         /\ row'[nextId].drep = job[w].prev
         /\ job[w].prev \in DRep \cup {None} /\ Sourced(i, job[w].prev)
  <1>1. /\ IsLeast(i, job[w].todo) /\ job[w].pc = "insert"
        /\ nextId <= MaxId /\ visible' = visible \cup {nextId} /\ nextId' = nextId + 1
        /\ row' = [row EXCEPT ![nextId] = Synthetic(i, job[w].prev)]
    BY DEF InsertUndelegation
  <1>2. nextId \in Id /\ nextId \notin visible /\ row \in [Id -> Row \cup {None}]
    BY <1>1 DEF Types, TypeOK, Id
  <1>3. job[w] \in Job /\ i \in job[w].todo /\ i \in visible
    BY <1>1 DEF Types, TypeOK, JobsVisible, IsLeast
  <1>4. job[w].prev \in DRep \cup {None}
    BY <1>3 DEF Job
  <1>5. Sourced(i, job[w].prev)
    <2>1. Records(job[w])
      BY DEF TransferInv
    <2> QED BY <1>1, <1>3, <1>4, <2>1 DEF Records
  <1>6. row'[nextId] = Synthetic(i, job[w].prev) /\ \A j \in Id \ {nextId} : row'[j] = row[j]
    BY <1>1, <1>2
  <1> QED BY <1>1, <1>2, <1>3, <1>4, <1>5, <1>6 DEF Synthetic

\* Every step keeps the undelegations sound.
LEMMA BackedNext ==
  ASSUME Types, TransferInv, [Next]_vars
  PROVE  OwnOpen' /\ Backed'
  <1>0. /\ OwnOpen /\ Backed
        /\ visible \subseteq Id /\ \A j \in visible : j < nextId
    <2>1. /\ nextId \in 1..(MaxId + 1) /\ visible \in SUBSET (1..(nextId - 1))
          /\ \A i \in Id : i < nextId => row[i] \in Row
      BY DEF Types, TypeOK
    <2> QED BY <2>1, VisibleRow DEF TransferInv
  <1>1. CASE UNCHANGED table
    <2>1. OwnOpen'
      BY <1>0, <1>1 DEF OwnOpen, table
    <2>2. visible' = visible
      BY <1>1 DEF table
    <2> QED BY <1>0, <2>1, <2>2, BackedStep
  <1>2. ASSUME NEW t \in EventType, NEW a \in Addr \cup {None},
               NEW d \in DRep \cup {None}, IndexerInsert(t, a, d)
        PROVE  OwnOpen' /\ Backed'
    <2>1. /\ visible' = visible /\ nextId \in Id /\ nextId' = nextId + 1
          /\ row' = [row EXCEPT ![nextId] = [type |-> t, addr |-> a, drep |-> d, src |-> NoId]]
          /\ row \in [Id -> Row \cup {None}] /\ t # "undelegation"
      <3>1. nextId \in 1..(MaxId + 1) /\ row \in [Id -> Row \cup {None}]
        BY DEF Types, TypeOK
      <3>2. nextId \in Id
        BY <1>2, <3>1 DEF IndexerInsert, Id
      <3>3. t # "undelegation"
        <4>1. t \in DOMAIN Trigger \cup {"delegation"}
          BY EventTypeAssumption
        <4>2. DOMAIN Trigger = {"registration", "retirement", "proposal", "vote"}
          BY DEF Trigger
        <4> QED BY <4>1, <4>2
      <3> QED BY <1>2, <3>1, <3>2, <3>3 DEF IndexerInsert
    <2>2. row'[nextId].type = t /\ \A i \in Id \ {nextId} : row'[i] = row[i]
      BY <2>1
    <2>3. OwnOpen'
      BY <1>0, <2>1, <2>2 DEF OwnOpen, Id
    <2> QED BY <1>0, <2>1, <2>3, BackedStep
  <1>3. ASSUME NEW i \in Id, IndexerCommit(i) PROVE OwnOpen' /\ Backed'
    <2>1. /\ visible' = visible \cup {i} /\ row' = row /\ nextId' = nextId
          /\ i < nextId /\ i \notin visible
      BY <1>3 DEF IndexerCommit
    <2>2. row'[i].type # "undelegation" /\ OwnOpen'
      BY <1>0, <2>1 DEF OwnOpen
    <2> QED BY <1>0, <2>1, <2>2, BackedStep
  <1>4. ASSUME NEW w \in Worker, NEW i \in Id, InsertUndelegation(w, i)
        PROVE  OwnOpen' /\ Backed'
    <2>1. CASE SyntheticOf(i) # {}
      <3>1. nextId' = nextId /\ row' = row /\ visible' = visible
        BY <1>4, <2>1 DEF InsertUndelegation
      <3>2. OwnOpen'
        BY <1>0, <3>1 DEF OwnOpen
      <3> QED BY <1>0, <3>1, <3>2, BackedStep
    <2>2. CASE SyntheticOf(i) = {}
      <3>1. /\ i \in visible /\ nextId \in Id
            /\ visible' = visible \cup {nextId} /\ nextId' = nextId + 1
            /\ \A j \in Id \ {nextId} : row'[j] = row[j]
            /\ row'[nextId].src = i /\ row'[nextId].drep = job[w].prev
            /\ Sourced(i, job[w].prev)
        BY <1>4, <2>2, Inserted
      <3>2. OwnOpen'
        BY <1>0, <3>1 DEF OwnOpen, Id
      <3>3. PICK d : d = job[w].prev
        OBVIOUS
      <3>4. Sourced(i, d) /\ row'[nextId].drep = d
        BY <3>1, <3>3
      <3> QED BY <1>0, <2>2, <3>1, <3>2, <3>4, BackedStep
    <2> QED BY <2>1, <2>2
  <1> QED BY <1>1, <1>2, <1>3, <1>4, Frame
-----------------------------------------------------------------------------
(***************************************************************************)
(* A run that moves.                                                       *)
(***************************************************************************)
\* A step of run w, to state v, keeps the invariant if it keeps it for that
\* run and the cursor.
LEMMA RunMoves ==
  ASSUME Types, CoverInv, TransferInv, [Next]_vars, NEW w \in Worker, NEW v \in Job,
         job' = [job EXCEPT ![w] = v], Records(v)', RecordedTo(cursor)'
  PROVE  TransferInv'
  <1>1. OwnOpen' /\ Backed'
    BY BackedNext
  <1>2. job'[w] = v /\ \A u \in Worker \ {w} : job'[u] = job[u]
    BY JobUpdate DEF Types
  <1>3. ASSUME NEW u \in Worker PROVE Records(job[u])'
    <2>1. CASE u = w
      <3>1. job'[u] = v
        BY <1>2, <2>1
      <3> QED BY <3>1 DEF Records, RecordedTo
    <2>2. CASE u # w
      <3>1. PICK j : j = job[u]
        OBVIOUS
      <3>2. /\ j.base \in visible \cup {0} /\ j.batch \subseteq visible /\ j.todo \subseteq visible
            /\ Records(j)
        BY <3>1 DEF CoverInv, RunInv, BaseCovered, Types, JobsVisible, TransferInv
      <3>3. Records(j)'
        BY <3>2, RecordsKept
      <3>4. job'[u] = j
        BY <1>2, <2>2, <3>1
      <3> QED BY <3>3, <3>4 DEF Records, RecordedTo
    <2> QED BY <2>1, <2>2
  <1> QED BY <1>1, <1>3 DEF TransferInv

\* The cursor, while it stays, and the base of a run, while the run goes on.
LEMMA CursorStays ==
  ASSUME Types, CoverInv, TransferInv, [Next]_vars, cursor' = cursor
  PROVE  RecordedTo(cursor)'
  <1>1. PICK c : c = cursor
    OBVIOUS
  <1>2. c \in visible \cup {0, Absent} /\ RecordedTo(c)
    BY <1>1 DEF CoverInv, TransferInv
  <1>3. RecordedTo(c)'
    BY <1>2, RecordedToKept
  <1>4. cursor' = c
    BY <1>1
  <1> QED BY <1>3, <1>4 DEF RecordedTo

LEMMA BaseStays ==
  ASSUME Types, CoverInv, TransferInv, [Next]_vars, NEW w \in Worker,
         NEW b, b = job[w].base
  PROVE  RecordedTo(b)'
  <1>1. b \in visible \cup {0, Absent} /\ RecordedTo(b)
    BY DEF CoverInv, RunInv, BaseCovered, TransferInv, Records
  <1> QED BY <1>1, RecordedToKept

\* A run goes on, having taken event i or none, and inserts only what has a
\* source.
LEMMA RunGoesOn ==
  ASSUME Types, CoverInv, TransferInv, [Next]_vars, NEW w \in Worker, NEW v \in Job,
         job' = [job EXCEPT ![w] = v], cursor' = cursor,
         v.base = job[w].base, v.batch = job[w].batch,
         NEW i, i \in skipped' \/ Recorded(i)' \/ v.todo = job[w].todo,
         job[w].todo \ {i} \subseteq v.todo,
         v.pc = "insert" => \A k \in v.todo, d \in DRep \cup {None} :
                              IsLeast(k, v.todo) /\ d = v.prev => Sourced(k, d)'
  PROVE  TransferInv'
  <1>1. RecordedTo(v.base)'
    BY BaseStays
  <1>2. ASSUME NEW k \in v.batch \ v.todo, k \notin skipped' PROVE Recorded(k)'
    <2>1. CASE k \notin job[w].todo
      <3>1. k \in (job[w].batch \ job[w].todo) \ skipped /\ k \in visible
        BY <1>2, <2>1, SkippedGrows DEF Types, JobsVisible
      <3>2. Recorded(k)
        BY <3>1 DEF TransferInv, Records
      <3> QED BY <3>1, <3>2, RecordedKept
    <2>2. CASE k \in job[w].todo
      <3>1. k = i /\ v.todo # job[w].todo
        BY <1>2, <2>2
      <3> QED BY <1>2, <3>1
    <2> QED BY <2>1, <2>2
  <1>3. Records(v)'
    BY <1>1, <1>2 DEF Records
  <1> QED BY <1>3, RunMoves, CursorStays

\* A run that has ended has nothing to answer for.
LEMMA RunEnds ==
  ASSUME Types, CoverInv, TransferInv, [Next]_vars, NEW w \in Worker,
         job' = [job EXCEPT ![w] = Idle], RecordedTo(cursor)'
  PROVE  TransferInv'
  <1>1. Idle \in Job
    BY DEF Idle, Job
  <1>2. visible' \subseteq Id
    BY TableGrows
  <1>3. Records(Idle)'
    BY <1>2 DEF Records, RecordedTo, Idle, Id
  <1> QED BY <1>1, <1>3, RunMoves

\* The newest of a set is one only.
LEMMA OneGreatest ==
  ASSUME NEW S, S \subseteq Int, NEW p, NEW q, IsGreatest(p, S), IsGreatest(q, S)
  PROVE  p = q
  BY DEF IsGreatest

\* With the insertion, or the unique key found taken, the transfer of event i
\* is recorded.
LEMMA InsertRecords ==
  ASSUME Types, CoverInv, TransferInv, [Next]_vars, NEW w \in Worker, NEW i \in Id,
         InsertUndelegation(w, i)
  PROVE  Recorded(i)'
  <1>0. i \in visible /\ visible \subseteq visible' /\ \A j \in visible : row'[j] = row[j]
    BY TableGrows DEF InsertUndelegation, IsLeast, Types, JobsVisible
  <1> SUFFICES ASSUME Undisturbed(i)', NEW d \in DRep, TransferFrom(i, d)'
               PROVE  \E j \in SyntheticOf(i)' : row'[j].drep = d
    BY DEF Recorded
  <1>1. Undisturbed(i) /\ TransferFrom(i, d)
    BY <1>0, EarlierKept, TransferKept
  \* Nothing disturbs the lookup of i: it always finds d.
  <1>2. ASSUME NEW e, Sourced(i, e) PROVE e = d
    <2>1. TransferFrom(i, e)
      BY <1>1, <1>2 DEF Sourced
    <2>2. PICK p \in Earlier(i) : IsGreatest(p, Earlier(i)) /\ row[p].drep = d
      BY <1>1 DEF TransferFrom
    <2>3. PICK q \in Earlier(i) : IsGreatest(q, Earlier(i)) /\ row[q].drep = e
      BY <2>1 DEF TransferFrom
    <2>4. Earlier(i) \subseteq Int
      <3>1. visible \subseteq Id
        BY TableGrows
      <3>2. Id \subseteq Int
        BY DEF Id
      <3>3. Earlier(i) \subseteq visible
        BY DEF Earlier
      <3> QED BY <3>1, <3>2, <3>3
    <2> QED BY <2>2, <2>3, <2>4, OneGreatest
  <1>3. CASE SyntheticOf(i) # {}
    <2>1. PICK j \in visible : row[j].type = "undelegation" /\ row[j].src = i
      BY <1>3 DEF SyntheticOf
    <2>2. row[j].drep \in DRep \cup {None}
      <3>1. /\ nextId \in 1..(MaxId + 1) /\ visible \in SUBSET (1..(nextId - 1))
            /\ \A k \in Id : k < nextId => row[k] \in Row
        BY DEF Types, TypeOK
      <3>2. row[j] \in Row
        BY <3>1, VisibleRow
      <3> QED BY <3>2 DEF Row
    <2>3. PICK e \in DRep \cup {None} : e = row[j].drep
      BY <2>2
    <2>4. Sourced(i, e)
      BY <2>1, <2>3 DEF TransferInv, Backed
    <2> QED BY <1>0, <1>2, <2>1, <2>3, <2>4 DEF SyntheticOf
  <1>4. CASE SyntheticOf(i) = {}
    <2>1. /\ visible' = visible \cup {nextId}
          /\ row'[nextId].type = "undelegation" /\ row'[nextId].src = i
          /\ row'[nextId].drep = job[w].prev /\ Sourced(i, job[w].prev)
      BY <1>4, Inserted
    <2>2. PICK e : e = job[w].prev
      OBVIOUS
    <2>3. e = d
      BY <1>2, <2>1, <2>2
    <2>4. nextId \in SyntheticOf(i)'
      BY <2>1 DEF SyntheticOf
    <2> QED BY <2>1, <2>2, <2>3, <2>4
  <1> QED BY <1>3, <1>4

\* Every step keeps the invariant.
LEMMA TransferNext == Types /\ CoverInv /\ TransferInv /\ [Next]_vars => TransferInv'
  <1> SUFFICES ASSUME Types, CoverInv, TransferInv, [Next]_vars PROVE TransferInv'
    OBVIOUS
  <1>0. /\ job \in [Worker -> Job] /\ \A w \in Worker : job[w] \in Job
        /\ \A w \in Worker : job[w].batch \subseteq visible /\ job[w].todo \subseteq visible
        /\ visible \subseteq Id
    BY TableGrows DEF Types, TypeOK, JobsVisible
  <1>1. CASE UNCHANGED <<cursor, job>>
    <2>1. OwnOpen' /\ Backed' /\ RecordedTo(cursor)'
      BY <1>1, BackedNext, CursorStays
    <2>2. ASSUME NEW w \in Worker PROVE Records(job[w])'
      <3>1. PICK j : j = job[w]
        OBVIOUS
      <3>2. j.base \in visible \cup {0} /\ Records(j)
        BY <3>1 DEF CoverInv, RunInv, BaseCovered, TransferInv
      <3>3. Records(j)'
        BY <1>0, <3>1, <3>2, RecordsKept
      <3>4. job'[w] = j
        BY <1>1, <3>1
      <3> QED BY <3>3, <3>4 DEF Records, RecordedTo
    <2> QED BY <2>1, <2>2 DEF TransferInv
  <1>2. ASSUME NEW w \in Worker, ReadState(w) PROVE TransferInv'
    <2> DEFINE base == IF cursor = Absent THEN 0 ELSE cursor
               j == [job[w] EXCEPT !.pc   = IF cursor = Absent THEN "create" ELSE "fetch",
                                   !.base = base]
    <2>1. cursor \in {Absent} \cup Nat
      BY DEF Types, TypeOK
    <2>2. /\ j \in Job /\ j.pc # "insert" /\ j.base = base /\ j.batch = job[w].batch
      BY <1>0, <2>1 DEF Job
    <2>3. job' = [job EXCEPT ![w] = j] /\ cursor' = cursor /\ job[w].pc = "idle"
      BY <1>0, <1>2 DEF ReadState, Job
    <2> HIDE DEF j
    <2>4. PICK v : v = j
      OBVIOUS
    <2>5. v.batch = {}
      BY <2>2, <2>3, <2>4 DEF CoverInv, RunInv, Fresh
    <2>6. v.base \in visible \cup {0, Absent} /\ RecordedTo(v.base)
      <3>1. cursor \in visible \cup {0, Absent} /\ RecordedTo(cursor)
        BY DEF CoverInv, TransferInv
      <3>2. RecordedTo(0)
        BY <1>0 DEF RecordedTo, Id
      <3>3. v.base = cursor \/ v.base = 0
        BY <2>2, <2>4
      <3> QED BY <3>1, <3>2, <3>3 DEF RecordedTo
    <2>7. RecordedTo(v.base)'
      BY <2>6, RecordedToKept
    <2>8. Records(v)'
      BY <2>2, <2>4, <2>5, <2>7 DEF Records
    <2> QED BY <2>2, <2>3, <2>4, <2>8, RunMoves, CursorStays
  <1>3. ASSUME NEW w \in Worker, CreateState(w) PROVE TransferInv'
    <2> DEFINE j == [job[w] EXCEPT !.pc = "fetch"]
    <2>1. j \in Job /\ j.pc = "fetch" /\ j.base = job[w].base /\ j.batch = job[w].batch
      BY <1>0 DEF Job
    <2>2. job' = [job EXCEPT ![w] = j] /\ cursor' = 0 /\ job[w].pc = "create"
      BY <1>0, <1>3 DEF CreateState, Job
    <2> HIDE DEF j
    <2>3. PICK v : v = j
      OBVIOUS
    <2>4. v.batch = {}
      BY <2>1, <2>2, <2>3 DEF CoverInv, RunInv, Fresh
    <2>5. RecordedTo(v.base)'
      BY <2>1, <2>3, BaseStays
    <2>6. Records(v)'
      BY <2>1, <2>3, <2>4, <2>5 DEF Records
    <2>7. RecordedTo(cursor)'
      <3>1. visible' \subseteq Id
        BY TableGrows
      <3> QED BY <2>2, <3>1 DEF RecordedTo, Id
    <2> QED BY <2>1, <2>2, <2>3, <2>6, <2>7, RunMoves
  <1>4. ASSUME NEW w \in Worker, FetchBatch(w) PROVE TransferInv'
    <2> DEFINE new == {i \in visible : i > job[w].base}
               first == FirstOf(new, BatchSize)
               j == [job[w] EXCEPT !.pc = "handle", !.batch = first, !.todo = first]
    <2>1. cursor' = cursor
      BY <1>4 DEF FetchBatch
    <2>2. CASE new = {}
      <3>1. job' = [job EXCEPT ![w] = Idle]
        BY <1>4, <2>2 DEF FetchBatch
      <3> QED BY <2>1, <3>1, RunEnds, CursorStays
    <2>3. CASE new # {}
      <3>1. first \subseteq Id
        BY <1>0, FirstOfSubset
      <3>2. job' = [job EXCEPT ![w] = j]
        BY <1>0, <1>4, <2>3 DEF FetchBatch, Job
      <3> HIDE DEF first
      <3>3. /\ j \in Job /\ j.pc = "handle" /\ j.base = job[w].base
            /\ j.batch = first /\ j.todo = first
        BY <1>0, <3>1 DEF Job
      <3> HIDE DEF j
      <3>4. PICK v : v = j
        OBVIOUS
      <3>5. RecordedTo(v.base)'
        BY <3>3, <3>4, BaseStays
      <3>6. Records(v)'
        BY <3>3, <3>4, <3>5 DEF Records
      <3> QED BY <2>1, <3>2, <3>3, <3>4, <3>6, RunMoves, CursorStays
    <2> QED BY <2>2, <2>3
  <1>5. ASSUME NEW w \in Worker, NEW i \in Id, NEW d \in DRep, FindTransfer(w, i, d)
        PROVE  TransferInv'
    <2> DEFINE j == [job[w] EXCEPT !.pc = "insert", !.prev = d]
    <2>1. /\ j \in Job /\ j.base = job[w].base /\ j.prev = d
          /\ j.batch = job[w].batch /\ j.todo = job[w].todo
      BY <1>0 DEF Job
    <2>2. job' = [job EXCEPT ![w] = j] /\ cursor' = cursor
      BY <1>0, <1>5 DEF FindTransfer, Job
    <2> HIDE DEF j
    <2>3. PICK v : v = j
      OBVIOUS
    <2>4. TransferFrom(i, d) /\ IsLeast(i, job[w].todo) /\ i \in visible
      BY <1>0, <1>5 DEF FindTransfer, Takes, IsLeast
    <2>5. Sourced(i, d)
      BY <2>4 DEF Sourced, Left, TransferFrom
    <2>6. \A k \in v.todo : IsLeast(k, v.todo) => k = i
      <3>0. Id \subseteq Int
        BY DEF Id
      <3>1. v.todo \subseteq Int
        BY <1>0, <2>1, <2>3, <3>0
      <3> QED BY <2>1, <2>3, <2>4, <3>1 DEF IsLeast
    <2>7. Sourced(i, d)'
      BY <2>4, <2>5, SourcedKept
    <2>8. \A k \in v.todo, e \in DRep \cup {None} :
            IsLeast(k, v.todo) /\ e = v.prev => Sourced(k, e)'
      BY <2>1, <2>3, <2>6, <2>7
    <2> QED BY <2>1, <2>2, <2>3, <2>8, RunGoesOn
  <1>6. ASSUME NEW w \in Worker, NEW i \in Id, HandleEvent(w, i) PROVE TransferInv'
    <2> DEFINE more == {Trigger[t] : t \in {row[i].type} \cap DOMAIN Trigger}
               j == [job[w] EXCEPT !.todo = @ \ {i}, !.trig = @ \cup more]
    <2>0. more \subseteq Kind
      BY DEF Trigger, Kind
    <2>1. job' = [job EXCEPT ![w] = j]
      BY <1>6, <1>0 DEF HandleEvent, Job
    <2> HIDE DEF more
    <2>2. /\ j \in Job /\ j.base = job[w].base /\ j.pc = job[w].pc
          /\ j.batch = job[w].batch /\ j.todo = job[w].todo \ {i}
      BY <1>0, <2>0 DEF Job
    <2> HIDE DEF j
    <2>3. PICK v : v = j
      OBVIOUS
    <2>4. /\ cursor' = cursor /\ job[w].pc = "handle" /\ i \in visible
          /\ row[i].type = "delegation" => \A d \in DRep : ~ TransferFrom(i, d)
      BY <1>0, <1>6 DEF HandleEvent, Takes, IsLeast
    <2>5. Recorded(i)'
      BY <2>4, RecordedKept DEF Recorded
    <2> QED BY <2>1, <2>2, <2>3, <2>4, <2>5, RunGoesOn
  <1>7. ASSUME NEW w \in Worker, NEW i \in Id,
               InsertUndelegation(w, i) \/ HandlerThrows(w, i)
        PROVE  TransferInv'
    <2> DEFINE j == [job[w] EXCEPT !.pc = "handle", !.todo = @ \ {i}, !.prev = None]
    <2>1. /\ j \in Job /\ j.base = job[w].base /\ j.pc = "handle"
          /\ j.batch = job[w].batch /\ j.todo = job[w].todo \ {i}
      BY <1>0 DEF Job
    <2>2. job' = [job EXCEPT ![w] = j] /\ cursor' = cursor
      BY <1>7, <1>0 DEF InsertUndelegation, HandlerThrows, Job
    <2> HIDE DEF j
    <2>3. PICK v : v = j
      OBVIOUS
    <2>4. i \in skipped' \/ Recorded(i)'
      BY <1>7, InsertRecords DEF HandlerThrows
    <2> QED BY <2>1, <2>2, <2>3, <2>4, RunGoesOn
  <1>8. ASSUME NEW w \in Worker, NEW i \in Id, SaveCursor(w, i) PROVE TransferInv'
    <2>1. /\ job' = [job EXCEPT ![w] = Idle] /\ cursor' = i /\ UNCHANGED table
          /\ job[w].todo = {} /\ i \in job[w].batch
      BY <1>8 DEF SaveCursor, IsGreatest
    <2>2. RecordedTo(i)
      <3> SUFFICES ASSUME NEW k \in visible \ skipped, k <= i PROVE Recorded(k)
        BY DEF RecordedTo
      <3>1. CASE k <= job[w].base
        BY <3>1 DEF TransferInv, Records, RecordedTo
      <3>2. CASE k \in job[w].batch
        BY <2>1, <3>2 DEF TransferInv, Records
      <3>3. CASE k \in late
        <4>1. k <= k
          BY <1>0 DEF Id
        <4> QED BY <3>3, <4>1 DEF Recorded, Undisturbed
      <3>4. CASE ~ (k <= job[w].base) /\ k \notin late
        <4>1. job[w].base < k
          BY <1>0, <3>4 DEF Id, Job
        <4> QED BY <2>1, <3>2, <3>4, <4>1 DEF CoverInv, RunInv, NoGap
      <3> QED BY <3>1, <3>3, <3>4
    <2>3. i \in visible \cup {0, Absent}
      BY <1>0, <2>1
    <2>4. RecordedTo(i)'
      BY <2>2, <2>3, RecordedToKept
    <2>5. RecordedTo(cursor)'
      BY <2>1, <2>4 DEF RecordedTo
    <2> QED BY <2>1, <2>5, RunEnds
  <1>9. ASSUME NEW w \in Worker, NEW k \in Kind, EnqueueSync(w, k) PROVE TransferInv'
    <2> DEFINE j == [job[w] EXCEPT !.trig = @ \ {k}]
    <2>1. /\ j \in Job /\ j.base = job[w].base /\ j.pc = job[w].pc
          /\ j.batch = job[w].batch /\ j.todo = job[w].todo
      BY <1>0 DEF Job
    <2>2. job' = [job EXCEPT ![w] = j] /\ cursor' = cursor /\ job[w].pc = "handle"
      BY <1>9, <1>0 DEF EnqueueSync, Job
    <2> HIDE DEF j
    <2>3. PICK v : v = j
      OBVIOUS
    <2>4. v.pc # "insert" /\ v.todo = job[w].todo
      BY <2>1, <2>2, <2>3
    <2> QED BY <2>1, <2>2, <2>3, <2>4, RunGoesOn
  <1>10. ASSUME NEW w \in Worker, RunFails(w) PROVE TransferInv'
    BY <1>10, RunEnds, CursorStays DEF RunFails
  <1>11. ASSUME NEW t \in EventType, NEW a \in Addr \cup {None},
                NEW d \in DRep \cup {None}, IndexerInsert(t, a, d)
         PROVE  UNCHANGED <<cursor, job>>
    BY <1>11 DEF IndexerInsert
  <1>12. ASSUME NEW i \in Id, IndexerCommit(i) PROVE UNCHANGED <<cursor, job>>
    BY <1>12 DEF IndexerCommit
  <1>13. ASSUME NEW k \in Kind, SyncStarts(k) PROVE UNCHANGED <<cursor, job>>
    BY <1>13 DEF SyncStarts
  <1>14. CASE UNCHANGED vars
    BY <1>1, <1>14 DEF vars
  <1> QED
    BY <1>1, <1>2, <1>3, <1>4, <1>5, <1>6, <1>7, <1>8, <1>9, <1>10, <1>11, <1>12,
       <1>13, <1>14 DEF Next, RunStep, RunFault

\* The invariant holds throughout.
LEMMA TransferAlways == Spec => [](Types /\ TransferInv)
  <1>1. Types /\ CoverInv /\ TransferInv /\ [Next]_vars => TransferInv'
    BY TransferNext
  <1> QED BY <1>1, TransferInit, TypesAlways, CoverInvInit, CoverInvNext, PTL DEF Spec

\* A transfer behind the cursor has left its undelegation, naming the DRep the
\* address was delegated to before, unless its handler threw or a row of the
\* address committed late: whatever crashes, replays and replicas overlap.
THEOREM EveryTransferRecorded == Spec => []TransfersRecorded
  <1>1. TransferInv => TransfersRecorded
    BY DEF TransferInv, RecordedTo, Recorded, TransfersRecorded
  <1> QED BY <1>1, TransferAlways, PTL

\* No transfer is recorded twice, and a recorded undelegation names a DRep the
\* address had chosen and left.
THEOREM UndelegationsBacked == Spec => []UndelegationsSound
  <1>1. ASSUME Types, TransferInv PROVE UndelegationsSound
    <2> SUFFICES ASSUME NEW j \in visible, row[j].type = "undelegation"
                 PROVE  /\ SyntheticOf(row[j].src) = {j}
                        /\ row[j].drep # row[row[j].src].drep
                        /\ \E p \in Earlier(row[j].src) : row[p].drep = row[j].drep
      BY DEF UndelegationsSound
    <2>1. row[j].src \in Id \cup {NoId} /\ row[j].drep \in DRep \cup {None}
      <3>1. /\ nextId \in 1..(MaxId + 1) /\ visible \in SUBSET (1..(nextId - 1))
            /\ \A i \in Id : i < nextId => row[i] \in Row
        BY <1>1 DEF Types, TypeOK
      <3>2. row[j] \in Row
        BY <3>1, VisibleRow
      <3> QED BY <3>2 DEF Row
    <2>2. PICK s \in Id \cup {NoId}, d \in DRep \cup {None} : s = row[j].src /\ d = row[j].drep
      BY <2>1
    <2>3. SyntheticOf(s) = {j} /\ Sourced(s, d)
      BY <1>1, <2>2 DEF TransferInv, Backed
    <2> QED BY <2>2, <2>3 DEF Sourced, Left
  <1> QED BY <1>1, TransferAlways, PTL
=============================================================================
