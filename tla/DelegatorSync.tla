---------------------------- MODULE DelegatorSync ----------------------------
(***************************************************************************)
(* The delegator part of the governance sync worker of queue-backend.  A   *)
(* run pages through the on-chain delegators of every DRep, compares them  *)
(* with the drep_delegators rows, and applies the difference in one        *)
(* transaction per DRep: rows of addresses that are gone are deleted and   *)
(* an undelegation is written to drep_timeline_event, new addresses are    *)
(* inserted, changed amounts upserted.  Afterwards the delegation counts   *)
(* of the dreps table are recomputed.                                      *)
(*                                                                         *)
(* The daily job and a manually triggered one may run at the same time, on *)
(* two replicas; between any two pages delegations change on chain, or the *)
(* other of Blockfrost's sources takes over, which may be ahead or behind. *)
(***************************************************************************)
EXTENDS Blockfrost, FiniteSets

CONSTANTS
  Worker,         \* replicas of queue-backend able to run the job
  DRep,           \* rows of the dreps table
  Addr,           \* stake addresses, in the order Blockfrost lists them
  Amount,         \* delegated amounts
  None,           \* no row, no DRep
  PageSize,       \* delegators per page: 100
  MaxChanges      \* bound: delegations that change on chain

ASSUME PageAssumption  == PageSize \in Nat \ {0}
ASSUME AddrAssumption  == Addr \subseteq Nat /\ IsFiniteSet(Addr)
ASSUME BoundAssumption == MaxChanges \in Nat
ASSUME NoneAssumption  == None \notin DRep /\ None \notin Amount

\* A state of the chain: the delegation and the stake of every address.
Ledger == [Addr -> [drep : DRep \cup {None}, amount : Amount]]

VARIABLES
  stored,      \* drep_delegators: amount_lovelace by DRep and address
  timeline,    \* synthetic undelegations: total_stake by DRep and address
  count,       \* dreps.delegation_vote_count
  pairUnique,  \* is (tx_hash, tx_index) a unique index of the timeline?
  job,         \* the local state of the run on each worker
  refused,     \* history: tables whose unique index refused a transaction
  doubtful     \* history: undelegations recorded from a torn or an old list

db   == <<stored, timeline, count, refused, doubtful>>
env  == <<past, at, pairUnique>>
vars == <<env, db, job, faults>>

\* A column of one row per address; None where there is no row.
Column == [Addr -> Amount \cup {None}]
NoRows == [a \in Addr |-> None]

\* What drep_delegators should hold for DRep d when the chain is in state l.
ColumnIn(l, d) == [a \in Addr |-> IF l[a].drep = d THEN l[a].amount ELSE None]

\* new is newDelegatorsMap, old the existing rows, todo the DReps still to
\* take, tally the counts still to write.  History: from is the position in
\* past of the state the first page shows, torn whether a later page came from
\* a state in which this DRep has other delegators or other amounts.
Job == [pc : {"idle", "drep", "page", "read", "write", "tally", "count"},
        todo : SUBSET DRep, drep : DRep \cup {None}, page : Nat,
        new : Column, old : Column, tally : [DRep -> Nat],
        from : Nat, torn : BOOLEAN]
Idle == [pc |-> "idle", todo |-> {}, drep |-> None, page |-> 0, new |-> NoRows,
         old |-> NoRows, tally |-> [d \in DRep |-> 0], from |-> 0, torn |-> FALSE]

Delegators(l, d) == {a \in Addr : l[a].drep = d}

\* /governance/dreps/{d}/delegators?page={p}&count=PageSize&order=asc
Page(l, d, p) ==
  {a \in Delegators(l, d) :
     Cardinality({b \in Delegators(l, d) : b < a}) \in ((p - 1) * PageSize)..(p * PageSize - 1)}

ToDelete(j) == {a \in Addr : j.old[a] # None /\ j.new[a] = None}
ToInsert(j) == {a \in Addr : j.old[a] = None /\ j.new[a] # None}
ToUpdate(j) == {a \in Addr : /\ j.old[a] # None /\ j.new[a] # None
                             /\ j.old[a] # j.new[a]}

\* Slip: COUNT(DISTINCT amount).
TallyAmounts(d) == Cardinality({stored[d][a] : a \in Addr} \ {None})

Rows(d) == {a \in Addr : stored[d][a] # None}

\* GROUP BY drepId: a DRep without rows is not in the result.
Tally(d) == Cardinality(Rows(d))

Init ==
  /\ past \in {<<l>> : l \in Ledger}
  /\ at = [s \in Source |-> 1]
  /\ stored = [d \in DRep |-> NoRows]
  /\ timeline = [d \in DRep |-> NoRows]
  /\ count = [d \in DRep |-> 0]
  /\ pairUnique \in BOOLEAN
  /\ job = [w \in Worker |-> Idle]
  /\ refused = {}
  /\ doubtful = {}
  /\ faults = 0

\* An address delegates to a DRep or to none, or its stake changes (external).
ChainChange(a, d, m) ==
  /\ Len(past) <= MaxChanges
  /\ Tip[a] # [drep |-> d, amount |-> m]
  /\ past' = Append(past, [Tip EXCEPT ![a] = [drep |-> d, amount |-> m]])
  /\ UNCHANGED <<at, pairUnique, db, job, faults>>

SourceCatchesUp(s) == CatchUp(s) /\ UNCHANGED <<pairUnique, db, job>>

\* The backend, which owns the schema, runs its migrations when it is deployed:
\* (tx_hash, tx_index) is replaced by (tx_hash, tx_index, event_type).
Migrate ==
  /\ pairUnique
  /\ pairUnique' = FALSE
  /\ UNCHANGED <<past, at, db, job, faults>>

\* drepsRepository.find()
StartSync(w) ==
  /\ job[w].pc = "idle"
  /\ job' = [job EXCEPT ![w].pc = "drep", ![w].todo = DRep]
  /\ UNCHANGED <<env, db, faults>>

\* Slip: the DRep is not remembered.
NextDRepBlank(w, d) ==
  /\ job[w].pc = "drep"
  /\ d \in job[w].todo
  /\ job' = [job EXCEPT ![w] = [Idle EXCEPT !.pc = "page", !.page = 1,
                                            !.todo = job[w].todo \ {d}]]
  /\ UNCHANGED <<env, db, faults>>

NextDRep(w, d) ==
  /\ job[w].pc = "drep"
  /\ d \in job[w].todo
  /\ job' = [job EXCEPT ![w] = [Idle EXCEPT !.pc = "page", !.drep = d, !.page = 1,
                                            !.todo = job[w].todo \ {d}]]
  /\ UNCHANGED <<env, db, faults>>

\* The run after the page of source s has been added to its list.
Added(j, s) ==
  LET l == Shown(s)
      data == Page(l, j.drep, j.page) IN
  [j EXCEPT !.new  = [a \in Addr |-> IF a \in data THEN l[a].amount ELSE @[a]],
            !.from = IF j.page = 1 THEN at[s] ELSE @,
            !.torn = @ \/ (j.page > 1 /\ ColumnIn(l, j.drep) # ColumnIn(past[j.from], j.drep))]

\* Slip: a full page is taken for the last one.
FetchPageStops(w, s) ==
  /\ job[w].pc = "page"
  /\ Answers(s)
  /\ job' = [job EXCEPT ![w] = [Added(job[w], s) EXCEPT !.pc = "read"]]
  /\ UNCHANGED <<env, db>>

FetchPage(w, s) ==
  LET full == Cardinality(Page(Shown(s), job[w].drep, job[w].page)) >= PageSize IN
  /\ job[w].pc = "page"
  /\ Answers(s)
  /\ job' = [job EXCEPT ![w] = [Added(job[w], s) EXCEPT
                                  !.pc   = IF full THEN "page" ELSE "read",
                                  !.page = IF full THEN @ + 1 ELSE @]]
  /\ UNCHANGED <<env, db>>

\* Slip: a partial list is compared as if it were complete.
FetchFailsPartial(w) ==
  /\ job[w].pc = "page"
  /\ faults < MaxFaults
  /\ faults' = faults + 1
  /\ job' = [job EXCEPT ![w].pc = "read"]
  /\ UNCHANGED <<env, db>>

\* if (fetchFailed) continue: the DRep keeps its rows until the next run.
FetchFails(w) ==
  /\ job[w].pc = "page"
  /\ faults < MaxFaults
  /\ faults' = faults + 1
  /\ job' = [job EXCEPT ![w] = [Idle EXCEPT !.pc = "drep", !.todo = job[w].todo]]
  /\ UNCHANGED <<env, db>>

ReadExisting(w) ==
  /\ job[w].pc = "read"
  /\ job' = [job EXCEPT ![w].pc = "write", ![w].old = stored[job[w].drep]]
  /\ UNCHANGED <<env, db, faults>>

\* Unique indexes a statement of the transaction runs into: the upsert of the
\* undelegations names (tx_hash, tx_index) as its conflict target, the insert
\* meets a row another run has inserted since.
Refusals(w) ==
  {t \in {"drep_timeline_event"} : ToDelete(job[w]) # {} /\ ~ pairUnique}
  \cup
  {t \in {"drep_delegators"} :
     \E a \in ToInsert(job[w]) : stored[job[w].drep][a] # None}

\* Slip: the undelegations are left out of the transaction.
CommitSilently(w) ==
  LET j == job[w] IN
  /\ j.pc = "write"
  /\ stored' = [stored EXCEPT ![j.drep] = j.new]
  /\ job' = [job EXCEPT ![w] = [Idle EXCEPT !.pc = "drep", !.todo = j.todo]]
  /\ UNCHANGED <<env, timeline, count, refused, doubtful, faults>>

\* Undelegations that the list does not justify: all those of a torn list, and
\* those of addresses that came to the DRep after the state the list shows, and
\* whose rows a run that saw a later state has stored.
Unfounded(j) ==
  {a \in ToDelete(j) : j.torn \/ \E k \in 1..Len(past) : k > j.from /\ past[k][a].drep = j.drep}

\* The transaction of one DRep commits.
CommitDiff(w) ==
  LET j == job[w] IN
  /\ j.pc = "write"
  /\ Refusals(w) = {}
  /\ stored' = [stored EXCEPT ![j.drep] =
       [a \in Addr |-> IF a \in ToDelete(j) THEN None
                       ELSE IF a \in ToInsert(j) \cup ToUpdate(j) THEN j.new[a]
                       ELSE @[a]]]
  /\ timeline' = [timeline EXCEPT ![j.drep] =
       [a \in Addr |-> IF a \in ToDelete(j) THEN j.old[a] ELSE @[a]]]
  /\ doubtful' = doubtful \cup ({j.drep} \X Unfounded(j))
  /\ job' = [job EXCEPT ![w] = [Idle EXCEPT !.pc = "drep", !.todo = j.todo]]
  /\ UNCHANGED <<env, count, refused, faults>>

\* A statement is refused: everything rolls back, the error is logged and the
\* loop goes on.
RefuseDiff(w) ==
  /\ job[w].pc = "write"
  /\ Refusals(w) # {}
  /\ refused' = refused \cup Refusals(w)
  /\ job' = [job EXCEPT ![w] = [Idle EXCEPT !.pc = "drep", !.todo = job[w].todo]]
  /\ UNCHANGED <<env, stored, timeline, count, doubtful, faults>>

\* updateDelegationCounts: one query for all counts ...
ReadCounts(w) ==
  /\ job[w].pc = "drep"
  /\ job[w].todo = {}
  /\ job' = [job EXCEPT ![w] = [Idle EXCEPT !.pc = "count", !.tally = [d \in DRep |-> Tally(d)]]]
  /\ UNCHANGED <<env, db, faults>>

\* ... and one update per DRep the query returned.
UpdateCount(w, d) ==
  /\ job[w].pc = "count"
  /\ job[w].tally[d] > 0
  /\ count' = [count EXCEPT ![d] = job[w].tally[d]]
  /\ job' = [job EXCEPT ![w].tally[d] = 0]
  /\ UNCHANGED <<env, stored, timeline, refused, doubtful, faults>>

CountFails(w, d) ==
  /\ job[w].pc = "count"
  /\ job[w].tally[d] > 0
  /\ faults < MaxFaults
  /\ faults' = faults + 1
  /\ job' = [job EXCEPT ![w].tally[d] = 0]
  /\ UNCHANGED <<env, db>>

FinishSync(w) ==
  /\ job[w].pc = "count"
  /\ \A d \in DRep : job[w].tally[d] = 0
  /\ job' = [job EXCEPT ![w] = Idle]
  /\ UNCHANGED <<env, db, faults>>

\* A call outside the inner catches fails, or the process dies.  The job
\* reports success: false, which BullMQ does not retry.
RunFails(w) ==
  /\ job[w].pc # "idle"
  /\ faults < MaxFaults
  /\ faults' = faults + 1
  /\ job' = [job EXCEPT ![w] = Idle]
  /\ UNCHANGED <<env, db>>

\* The transaction is cut off by the database: the inner catch goes on.
CommitFails(w) ==
  /\ job[w].pc = "write"
  /\ faults < MaxFaults
  /\ faults' = faults + 1
  /\ job' = [job EXCEPT ![w] = [Idle EXCEPT !.pc = "drep", !.todo = job[w].todo]]
  /\ UNCHANGED <<env, db>>

RunStep(w) ==
  \/ StartSync(w) \/ ReadExisting(w) \/ CommitDiff(w)
  \/ RefuseDiff(w) \/ ReadCounts(w) \/ FinishSync(w)
  \/ \E s \in Source : FetchPage(w, s)
  \/ \E d \in DRep : NextDRep(w, d) \/ UpdateCount(w, d)

RunFault(w) ==
  \/ FetchFails(w) \/ CommitFails(w) \/ RunFails(w)
  \/ \E d \in DRep : CountFails(w, d)

Next ==
  \/ \E a \in Addr, d \in DRep \cup {None}, m \in Amount : ChainChange(a, d, m)
  \/ \E s \in Source : SourceCatchesUp(s)
  \/ Migrate
  \/ \E w \in Worker : RunStep(w) \/ RunFault(w)

Spec == Init /\ [][Next]_vars

\* The scheduler starts the job every day; nothing makes the chain change, a
\* source catch up or the backend migrate.
FairSpec == Spec /\ \A w \in Worker : WF_vars(RunStep(w))
-----------------------------------------------------------------------------
TypeOK ==
  /\ past \in Seq(Ledger)
  /\ at \in [Source -> 1..Len(past)]
  /\ stored \in [DRep -> Column]
  /\ timeline \in [DRep -> Column]
  /\ count \in [DRep -> Nat]
  /\ pairUnique \in BOOLEAN
  /\ job \in [Worker -> Job]
  /\ \A w \in Worker : job[w].pc \in {"page", "read", "write"} => job[w].drep \in DRep
  /\ refused \subseteq {"drep_timeline_event", "drep_delegators"}
  /\ doubtful \subseteq DRep \X Addr
  /\ faults \in 0..MaxFaults

\* However the list of a DRep falls into pages, and whichever source answers
\* each, a run that is not torn ends up with exactly the delegators the DRep
\* had in the state its first page shows.
PagesAddUp ==
  [][\A w \in Worker :
       job[w].pc = "page" /\ job'[w].pc = "read" /\ ~ job'[w].torn
       => job'[w].new = ColumnIn(past[job'[w].from], job[w].drep)]_vars

\* A delegator disappears from drep_delegators only together with an
\* undelegation in the timeline.
RemovalRecorded ==
  [][\A d \in DRep, a \in Addr :
       stored[d][a] # None /\ stored'[d][a] = None => timeline'[d][a] # None]_vars

\* Addresses that were with DRep d once and later were not.
Left(d) ==
  {a \in Addr : \E i, k \in 1..Len(past) : i < k /\ past[i][a].drep = d /\ past[k][a].drep # d}

\* An undelegation is recorded only for an address that had really left the
\* DRep, whatever pages fail, sources lag and runs overlap; aside from torn
\* lists, and from addresses that came after the state the list shows.
UndelegationsReal ==
  \A d \in DRep, a \in Addr :
    timeline[d][a] # None /\ <<d, a>> \notin doubtful => a \in Left(d)

\* The transaction of DRep d is refused for good: the index it names is gone,
\* and there is a row to delete.
Blocked(d) == ~ pairUnique /\ \E a \in Rows(d) : Tip[a].drep # d

\* If the primary stays in step with the chain, the rows of every DRep become
\* and stay what the chain says, overlapping runs, torn lists and crashes
\* notwithstanding: except where the migrated index keeps a departed delegator,
\* and with it everything else, as it was.
Settles ==
  PrimaryCurrent => <>[](\A d \in DRep : stored[d] = ColumnIn(Tip, d) \/ Blocked(d))

\* The count of every DRep that has rows becomes and stays their number.
CountsSettle ==
  <>[](\A d \in DRep : Rows(d) # {} => count[d] = Cardinality(Rows(d)))

\* The comment in the transaction: the synthetic hash and tx_index 0 of an
\* undelegation clear the unique index of the timeline.
ClearsTimelineIndex == "drep_timeline_event" \notin refused
=============================================================================
