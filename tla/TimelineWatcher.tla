--------------------------- MODULE TimelineWatcher ---------------------------
(***************************************************************************)
(* The timeline watcher of queue-backend: a BullMQ worker that, once a     *)
(* minute, reads the drep_timeline_event rows above a persisted cursor,    *)
(* synthesizes an undelegation row for every transfer of a delegation,     *)
(* enqueues the DRep, proposal and vote syncs the batch calls for, and     *)
(* only then saves the cursor.                                             *)
(*                                                                         *)
(* The rows are written by the external governance indexer, which runs     *)
(* several concurrent transactions: a row takes its BIGSERIAL id when it   *)
(* is inserted and becomes visible when its transaction commits, so ids    *)
(* may become visible out of order.  Every database or Redis call of       *)
(* process() is a step of its own and may fail or be cut off by a crash.   *)
(***************************************************************************)
EXTENDS Integers, FiniteSets

CONSTANTS
  Worker,      \* replicas of queue-backend able to run a watcher job
  Addr,        \* stake addresses
  DRep,        \* DRep ids
  None,        \* SQL NULL / undefined
  EventType,   \* event types the indexer emits in this instance
  BatchSize,   \* take: 50
  MaxEvents,   \* bound: rows the indexer writes
  MaxId,       \* bound: ids ever allocated, synthetic rows included
  MaxFaults    \* bound: failed calls, crashes and throwing handlers

ASSUME BatchAssumption == BatchSize \in Nat \ {0}
ASSUME BoundAssumption == MaxEvents \in Nat /\ MaxId \in Nat /\ MaxFaults \in Nat
ASSUME NoneAssumption  == None \notin Addr /\ None \notin DRep

\* The syncs a batch can trigger, in the order they are enqueued.
Kind == {"dreps", "proposals", "votes"}
Rank == [dreps |-> 1, proposals |-> 2, votes |-> 3]
Trigger == [registration |-> "dreps", retirement |-> "dreps",
            proposal |-> "proposals", vote |-> "votes"]

ASSUME EventTypeAssumption == EventType \subseteq (DOMAIN Trigger \cup {"delegation"})

Id     == 1..MaxId
NoId   == 0
Absent == -1    \* no sync_state row under timeline_watcher_last_id
Row    == [type : EventType \cup {"undelegation"}, addr : Addr \cup {None},
           drep : DRep \cup {None}, src : Id \cup {NoId}]

VARIABLES
  nextId,   \* the sequence behind drep_timeline_event.id
  row,      \* rows by id, those of open transactions included
  visible,  \* ids of committed rows
  cursor,   \* sync_state.last_processed_id
  job,      \* the local state of process() on each worker
  queued,   \* jobs waiting in the three sync queues
  seen,     \* history: ids visible when a sync of that kind last started
  late,     \* history: ids committed after a higher id was visible
  skipped,  \* history: delegation events whose handler threw
  faults    \* number of faults so far

table  == <<nextId, row, visible, late>>
queues == <<queued, seen>>
vars   == <<table, cursor, job, queues, skipped, faults>>

\* base is the run's copy of the cursor, batch is newEvents, todo the part of
\* it the loop has still to take, prev is previousDrepId while an undelegation
\* is being inserted, trig is what is still to enqueue of triggeredSyncs.
Job == [pc : {"idle", "create", "fetch", "handle", "insert"}, base : Nat,
        batch : SUBSET Id, todo : SUBSET Id, prev : DRep \cup {None},
        trig : SUBSET Kind]
Idle == [pc |-> "idle", base |-> 0, batch |-> {}, todo |-> {}, prev |-> None,
         trig |-> {}]

IsLeast(i, S)    == i \in S /\ \A j \in S : i <= j
IsGreatest(i, S) == i \in S /\ \A j \in S : j <= i

\* order: { id: 'ASC' }, take: n
FirstOf(S, n) == {i \in S : Cardinality({j \in S : j < i}) < n}

\* Delegation rows of the same stake address that the lookup of event i can see.
Earlier(i) == {j \in visible : /\ j < i
                               /\ row[j].type = "delegation"
                               /\ row[j].addr = row[i].addr}

\* handleDelegation(i) goes on to insert an undelegation from DRep d: the
\* newest earlier delegation of the address chose d, and i chooses another.
TransferFrom(i, d) ==
  /\ row[i].addr # None
  /\ d \notin {None, row[i].drep}
  /\ \E p \in Earlier(i) : IsGreatest(p, Earlier(i)) /\ row[p].drep = d

\* The synthetic row of event i: its transaction hash with the index offset.
Synthetic(i, from) == [type |-> "undelegation", addr |-> row[i].addr,
                       drep |-> from, src |-> i]

\* Rows that already hold the unique key (tx_hash, tx_index + offset, type).
SyntheticOf(i) == {j \in visible : row[j].type = "undelegation" /\ row[j].src = i}

Init ==
  /\ nextId = 1
  /\ row = [i \in Id |-> None]
  /\ visible = {}
  /\ cursor = Absent
  /\ job = [w \in Worker |-> Idle]
  /\ queued = [k \in Kind |-> 0]
  /\ seen = [k \in Kind |-> {}]
  /\ late = {}
  /\ skipped = {}
  /\ faults = 0

(***************************************************************************)
(* The indexer (external).                                                 *)
(***************************************************************************)
IndexerInsert(t, a, d) ==
  /\ nextId <= MaxId
  /\ Cardinality({i \in Id : i < nextId /\ row[i].src = NoId}) < MaxEvents
  /\ t # "delegation" => a = None /\ d = None
  /\ row' = [row EXCEPT ![nextId] = [type |-> t, addr |-> a, drep |-> d, src |-> NoId]]
  /\ nextId' = nextId + 1
  /\ UNCHANGED <<visible, late, cursor, job, queues, skipped, faults>>

IndexerCommit(i) ==
  /\ i < nextId
  /\ i \notin visible
  /\ visible' = visible \cup {i}
  /\ late' = IF \E j \in visible : j > i THEN late \cup {i} ELSE late
  /\ UNCHANGED <<nextId, row, cursor, job, queues, skipped, faults>>

(***************************************************************************)
(* One run of process() by worker w.                                       *)
(***************************************************************************)
ReadState(w) ==
  /\ job[w].pc = "idle"
  /\ job' = [job EXCEPT ![w].pc   = IF cursor = Absent THEN "create" ELSE "fetch",
                        ![w].base = IF cursor = Absent THEN 0 ELSE cursor]
  /\ UNCHANGED <<table, cursor, queues, skipped, faults>>

\* Slip: the new row has no lastProcessedId.
CreateEmptyState(w) ==
  /\ job[w].pc = "create"
  /\ cursor' = None
  /\ job' = [job EXCEPT ![w].pc = "fetch"]
  /\ UNCHANGED <<table, queues, skipped, faults>>

CreateState(w) ==
  /\ job[w].pc = "create"
  /\ cursor' = 0
  /\ job' = [job EXCEPT ![w].pc = "fetch"]
  /\ UNCHANGED <<table, queues, skipped, faults>>

FetchBatch(w) ==
  LET new == {i \in visible : i > job[w].base} IN
  /\ job[w].pc = "fetch"
  /\ job' = IF new = {} THEN [job EXCEPT ![w] = Idle]
             ELSE [job EXCEPT ![w].pc    = "handle",
                              ![w].batch = FirstOf(new, BatchSize),
                              ![w].todo  = FirstOf(new, BatchSize)]
  /\ UNCHANGED <<table, cursor, queues, skipped, faults>>

\* The loop takes the next event of the batch.
Takes(w, i) == job[w].pc = "handle" /\ IsLeast(i, job[w].todo)

\* A delegation that turns out to be a transfer.
FindTransfer(w, i, d) ==
  /\ Takes(w, i)
  /\ row[i].type = "delegation"
  /\ TransferFrom(i, d)
  /\ job' = [job EXCEPT ![w].pc = "insert", ![w].prev = d]
  /\ UNCHANGED <<table, cursor, queues, skipped, faults>>

\* Every other case of the switch.
HandleEvent(w, i) ==
  /\ Takes(w, i)
  /\ row[i].type = "delegation" => \A d \in DRep : ~ TransferFrom(i, d)
  /\ job' = [job EXCEPT ![w].todo = @ \ {i},
                        ![w].trig = @ \cup {Trigger[t] : t \in {row[i].type} \cap DOMAIN Trigger}]
  /\ UNCHANGED <<table, cursor, queues, skipped, faults>>

\* Slip: insert without orIgnore() or a unique key.
InsertAlways(w, i) ==
  /\ job[w].pc = "insert"
  /\ IsLeast(i, job[w].todo)
  /\ nextId <= MaxId
  /\ row' = [row EXCEPT ![nextId] = Synthetic(i, job[w].prev)]
  /\ visible' = visible \cup {nextId}
  /\ nextId' = nextId + 1
  /\ job' = [job EXCEPT ![w].pc = "handle", ![w].todo = @ \ {i}, ![w].prev = None]
  /\ UNCHANGED <<late, cursor, queues, skipped, faults>>

\* insert ... orIgnore().  The row commits with the statement.
InsertUndelegation(w, i) ==
  /\ job[w].pc = "insert"
  /\ IsLeast(i, job[w].todo)
  /\ IF SyntheticOf(i) # {}
     THEN UNCHANGED <<nextId, row, visible>>
     ELSE /\ nextId <= MaxId
          /\ row' = [row EXCEPT ![nextId] = Synthetic(i, job[w].prev)]
          /\ visible' = visible \cup {nextId}
          /\ nextId' = nextId + 1
  /\ job' = [job EXCEPT ![w].pc = "handle", ![w].todo = @ \ {i}, ![w].prev = None]
  /\ UNCHANGED <<late, cursor, queues, skipped, faults>>

\* The catch inside the loop: log the event and let the batch advance.
HandlerThrows(w, i) ==
  /\ job[w].pc \in {"handle", "insert"}
  /\ IsLeast(i, job[w].todo)
  /\ row[i].type = "delegation" /\ row[i].addr # None
  /\ faults < MaxFaults
  /\ faults' = faults + 1
  /\ skipped' = skipped \cup {i}
  /\ job' = [job EXCEPT ![w].pc = "handle", ![w].todo = @ \ {i}, ![w].prev = None]
  /\ UNCHANGED <<table, cursor, queues>>

\* Slip: the trigger is noted but no job is added.
EnqueueNothing(w, k) ==
  /\ job[w].pc = "handle"
  /\ job[w].todo = {}
  /\ k \in job[w].trig
  /\ job' = [job EXCEPT ![w].trig = @ \ {k}]
  /\ UNCHANGED <<table, cursor, queues, skipped, faults>>

EnqueueSync(w, k) ==
  /\ job[w].pc = "handle"
  /\ job[w].todo = {}
  /\ k \in job[w].trig
  /\ \A other \in job[w].trig : Rank[k] <= Rank[other]
  /\ queued' = [queued EXCEPT ![k] = @ + 1]
  /\ job' = [job EXCEPT ![w].trig = @ \ {k}]
  /\ UNCHANGED <<table, cursor, seen, skipped, faults>>

\* Slip: the cursor is saved before the events are handled.
SaveCursorEarly(w, i) ==
  /\ job[w].pc = "handle"
  /\ IsGreatest(i, job[w].batch)
  /\ cursor' = i
  /\ job' = [job EXCEPT ![w] = Idle]
  /\ UNCHANGED <<table, queues, skipped, faults>>

\* Slip: the number of events is saved in place of the last id.
SaveCount(w, i) ==
  /\ job[w].pc = "handle"
  /\ job[w].todo = {}
  /\ job[w].trig = {}
  /\ IsGreatest(i, job[w].batch)
  /\ cursor' = Cardinality(job[w].batch)
  /\ job' = [job EXCEPT ![w] = Idle]
  /\ UNCHANGED <<table, queues, skipped, faults>>

SaveCursor(w, i) ==
  /\ job[w].pc = "handle"
  /\ job[w].todo = {}
  /\ job[w].trig = {}
  /\ IsGreatest(i, job[w].batch)
  /\ cursor' = i
  /\ job' = [job EXCEPT ![w] = Idle]
  /\ UNCHANGED <<table, queues, skipped, faults>>

\* A call outside the loop's catch fails, or the process dies: nothing of the
\* run's local state is kept.
RunFails(w) ==
  /\ job[w].pc # "idle"
  /\ faults < MaxFaults
  /\ faults' = faults + 1
  /\ job' = [job EXCEPT ![w] = Idle]
  /\ UNCHANGED <<table, cursor, queues, skipped>>

(***************************************************************************)
(* A sync worker takes a job from its queue and reads the chain as it is.  *)
(***************************************************************************)
SyncStarts(k) ==
  /\ queued[k] > 0
  /\ queued' = [queued EXCEPT ![k] = @ - 1]
  /\ seen' = [seen EXCEPT ![k] = visible]
  /\ UNCHANGED <<table, cursor, job, skipped, faults>>

RunStep(w) ==
  \/ ReadState(w) \/ CreateState(w) \/ FetchBatch(w)
  \/ \E i \in Id : \/ \E d \in DRep : FindTransfer(w, i, d)
                  \/ HandleEvent(w, i)
                  \/ InsertUndelegation(w, i)
                  \/ SaveCursor(w, i)
  \/ \E k \in Kind : EnqueueSync(w, k)

RunFault(w) == RunFails(w) \/ \E i \in Id : HandlerThrows(w, i)

Next ==
  \/ \E t \in EventType, a \in Addr \cup {None}, d \in DRep \cup {None} :
       IndexerInsert(t, a, d)
  \/ \E i \in Id : IndexerCommit(i)
  \/ \E w \in Worker : RunStep(w) \/ RunFault(w)
  \/ \E k \in Kind : SyncStarts(k)

Spec == Init /\ [][Next]_vars

\* The scheduler starts a watcher job every minute and BullMQ hands queued
\* jobs to the workers; nothing makes the indexer write.
FairSpec ==
  /\ Spec
  /\ \A w \in Worker : WF_vars(RunStep(w))
  /\ \A k \in Kind : WF_vars(SyncStarts(k))
-----------------------------------------------------------------------------
TypeOK ==
  /\ nextId \in 1..(MaxId + 1)
  /\ row \in [Id -> Row \cup {None}]
  /\ \A i \in Id : i < nextId => row[i] \in Row
  /\ visible \subseteq 1..(nextId - 1)
  /\ late \subseteq visible
  /\ cursor \in {Absent} \cup Nat
  /\ job \in [Worker -> Job]
  /\ queued \in [Kind -> Nat]
  /\ seen \in [Kind -> SUBSET Id]
  /\ skipped \subseteq Id
  /\ faults \in 0..MaxFaults

\* The sync that event i asks for is waiting in its queue or has started
\* since i became visible.
Covered(i) ==
  row[i].type \in DOMAIN Trigger =>
    \/ queued[Trigger[row[i].type]] > 0
    \/ i \in seen[Trigger[row[i].type]]

\* No event is lost behind the cursor.  Whatever crashes, retries and
\* concurrent runs happen, the cursor passes a registration, retirement,
\* proposal or vote only after its sync was enqueued; the only exception are
\* rows that committed after a higher id was already visible.
CursorCovers ==
  \A i \in visible \ late : i <= cursor => Covered(i)

\* A delegation whose lookup no late row of its address can disturb.
Undisturbed(i) == ~ \E j \in late : j <= i /\ row[j].type = "delegation"
                                             /\ row[j].addr = row[i].addr

\* A transfer behind the cursor has left its undelegation, naming the DRep
\* the address was delegated to before, unless its handler threw.
TransfersRecorded ==
  \A i \in visible \ skipped, d \in DRep :
    i <= cursor /\ row[i].type = "delegation" /\ TransferFrom(i, d) /\ Undisturbed(i)
      => \E j \in SyntheticOf(i) : row[j].drep = d

\* Replaying a batch never records a transfer twice, and a recorded
\* undelegation always names a DRep the address had really chosen and left.
UndelegationsSound ==
  \A j \in visible : row[j].type = "undelegation" =>
    LET i == row[j].src IN
    /\ SyntheticOf(i) = {j}
    /\ row[j].drep # row[i].drep
    /\ \E p \in Earlier(i) : row[p].drep = row[j].drep

\* The saved cursor moves back only by the hand of a run that had read it, or
\* found it missing, before another run moved it; a run on its own, a retry of
\* a failed one included, never takes it back.
CursorMonotone ==
  [][cursor' < cursor =>
       \E w \in Worker : job'[w] # job[w] /\ job[w].base < cursor]_vars

\* Every committed row ends up behind the cursor for good.
CatchesUp == \A i \in Id : (i \in visible) ~> [](cursor >= i)

\* Every committed row that asks for a sync gets one that started after it,
\* unless it committed late.
EventuallySynced ==
  \A i \in Id, t \in DOMAIN Trigger :
    (i \in visible \ late /\ row[i].type = t) ~> (i \in seen[Trigger[t]])

\* The events of the feed: the rows that ask for a sync and did not commit late.
Asks == {i \in visible \ late : row[i].type \in DOMAIN Trigger}

Feed == INSTANCE EventFeed WITH
  Event     <- Id,
  published <- Asks,
  served    <- {i \in Asks : Covered(i)},
  acked     <- {i \in Asks : i <= cursor}

\* The watcher is an at-least-once feed.  Whatever crashes, replays and
\* overlapping runs happen, process() refines EventFeed: no position is saved
\* past an event whose sync is not assured, an assured sync is never lost, and
\* every published event is in the end served and acknowledged.
ImplementsFeed == Feed!FairSpec
=============================================================================
