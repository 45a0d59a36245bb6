# 1694.io: a TLA+ verification of the governance synchronisation

1694.io is a portal for Cardano's delegated governance. Most of its own logic is
in how it keeps a PostgreSQL copy of on-chain governance (DReps, delegations,
proposals, votes, metadata, stake per epoch) in step with a chain that moves on
while it is read, over an HTTP API that fails, from jobs that overlap. The rest
is where the pages hold state of their own while something else moves: the
timeline of a DRep that is paged in two directions over replicas that disagree,
the modal that every transaction is signed in, and the session of the wallet.
That is what this project models, checks with TLC and proves about with TLAPS.
Paths are relative to the repository; `queue-backend/` stands for
`src/queue-backend/src/`, `backend/` for `src/backend/src/` and `frontend/` for
`src/frontend/src/`.

## 1. Inventory

### 1.1 Parts and how they interact

    governance indexer ──rows──> drep_timeline_event <──synthetic undelegations──┐
     (external image)                   │                                        │
                                        v                                        │
    scheduler ──cron──> BullMQ queues ──> timeline watcher ──enqueues──> sync jobs
    sync-trigger ──manual──^                    │                        │
                                           sync_state               Blockfrost (primary,
                                                                    fallback) ──> dreps,
                                        backend REST API  <──reads── drep_delegators, proposals,
                                          (2 replicas)               proposal_metadata, proposal_votes,
                                               │                     drep_epoch_stake
                                            frontend: timeline, transaction modal, wallet session
                                               │                     │
                                            browser wallets     Cardano network

| Part | Source | State | Operations | Hard because |
|---|---|---|---|---|
| Timeline watcher | `queue-backend/workers/timeline-watcher.worker.ts` | cursor in `sync_state`, synthetic rows in `drep_timeline_event` | once a minute: read the rows above the cursor, synthesize undelegations, enqueue syncs, save the cursor | crash between any two calls, retry, two replicas, rows that commit out of id order |
| Delegator sync | `queue-backend/workers/governance-sync.worker.ts` 122-216, 438-453 | `drep_delegators`, synthetic rows, `dreps.delegation_vote_count` | page through the delegators of each DRep, diff, one transaction per DRep, recount | the list changes between pages, or the next page comes from another source, pages fail, runs overlap, a migration changes the index it relies on |
| Proposal sync | `proposals-sync.worker.ts` 59-145 and `governance-sync.worker.ts` 218-271 | `proposals` | list newest first, read row, fetch detail and transaction, upsert | stale reads between two workers, pages that shift, or come from sources at different heights, failed lookups |
| Metadata sync | `proposals-sync.worker.ts` 147-357 and `governance-sync.worker.ts` 273-436 | `proposal_metadata` | select what is missing or failed, three sources in turn, three kinds of upsert | two workers on one row, partial upserts, endless retries |
| Stake sync | `queue-backend/workers/stake-sync.worker.ts` | `dreps.voting_power_ada`, `snapshot_epoch_no`, `drep_epoch_stake` | check that the source is fresh, refresh every DRep, save snapshots in chunks | an epoch begins in mid-run, sources lag and fail over, runs overlap |
| Blockfrost client | `queue-backend/blockfrost/blockfrost.service.ts` | none | `executeWithFallback`, `assertGovernanceSourceFresh`, pages | the source is chosen call by call: two calls of a run may be answered from different heights |
| Scheduler, triggers, queues | `queue-backend/scheduler/`, `sync-trigger.controller.ts`, `app.module.ts` | Redis | stake hourly, governance at midnight, proposals six-hourly, votes weekly, watcher every minute; manual triggers | nothing keeps two runs of a job apart |
| DRep list sync | `governance-sync.worker.ts` 65-120 | `dreps` | ask the details of every DRep, upsert it | failed detail requests, a second writer of the rows of the stake sync |
| DRep votes sync | `drep-votes-sync.worker.ts` 29-136 | `proposal_votes`, vote counts | newest votes first, stop when most are known | early stop, re-votes, a second writer |
| Proposal votes of the governance sync | `governance-sync.worker.ts` 334-362 | `proposal_votes` | oldest votes first, one bulk upsert per page | replaced ballots, selection by another table, the other writer |
| DRep claim | `drep-claim.worker.ts`, `backend/src/queue/` | `drep`, `signature` | claim a DRep profile | check then act |
| Notification cron | `backend/src/notifications/` | `notification`, `synctime` | notify of new votes since the last sync | two replicas, failure before the sync time is saved |
| DRep timeline, backend | `backend/governance/governance.service.ts` 232-952 | the current epoch, cached for an hour by each replica | pages of epochs, in both directions, from three queries | replicas that disagree, late entries |
| DRep timeline, frontend | `frontend/hooks/useGetDRepTimelineQuery.ts`, `components/molecules/DrepTimeline.tsx` | shown epochs and their items, cursors, the query cache | load older, load newer, filter, refetch | merging what arrives twice, or upside down, or grown |
| Transaction modal | `frontend/hooks/useTransactionHandler.tsx`, `components/atoms/TxnModal.tsx`, `ModalWrapper.tsx`, `context/globalContext.tsx` | one modal, one pending promise | prepare, sign, submit, cancel, countdown, fade | every caller shares the modal; handlers act on the state they were rendered with; an uploaded file may hold any transaction |
| Wallet session | `frontend/auth/authService.ts`, `frontend/context/authContext.tsx`, the providers; `backend/auth/auth.service.ts` | local storage, `AuthenticationService`, the context, the wallet state | login by wallet or file, reconnection, logout | three copies of one fact, accounts switched in the wallet, overlapping logins |
| REST API, comments, notes, reactions, attachments, IPFS | `backend/` | application tables | CRUD and read models | mostly single statements |
| Pages and forms, chart, node configuration | `src/frontend`, `src/chart`, `src/cardanonode` | | | rendering and configuration |

Deployment facts the models rely on: the chart runs two replicas of
queue-backend and of the backend (`src/chart/values.yaml`); the indexer writes
with several concurrent workers (`MAX_CONCURRENT_WORKERS`); a BullMQ job has
three attempts (`app.module.ts` 56), but every sync worker except the watcher
catches its own errors and returns `success: false`, so only a watcher run is
retried at once and the others wait for the next scheduled run; manual triggers
(`sync-trigger.controller.ts`) start a job whatever is already running.

### 1.2 What makes each part correct

- **Watcher.** No registration, retirement, proposal or vote falls behind the
  cursor before its sync is enqueued; each is followed by a sync that started
  after it; a transfer leaves exactly one undelegation, naming the DRep that was
  left; the cursor ends up past every row.
- **Delegator sync.** However the list falls into pages it adds up, unless a later
  page shows another list; a delegator disappears only together with a recorded
  undelegation, which is true unless the list was not; the rows settle on the
  chain, except of the DReps that the migrated index blocks.
- **Proposal sync.** A run misses no proposal unless a call failed or the source
  changed to one that knows fewer; only a stale run may lose a block time or
  reopen a closed proposal; statuses and block times settle.
- **Metadata sync.** An error-free row is complete; a document is never lost;
  every document that can be had is stored in the end.
- **Stake sync and DRep list sync.** Nothing stored claims a later epoch than
  its stake, but through a fallback that is behind the run it answers for or a list
  sync that was slow; voting power goes back only through those, or a run that was
  overlapped or did not learn the tip; stake and metadata settle although the
  list sync writes null over both.
- **Votes.** A walk may stop at a page it knows, because no earlier ballot was
  left out below a later one; every ballot of a DRep is found in the table in the
  end, whichever worker comes first, and the count of a DRep follows its rows;
  other voters are found under conditions the property spells out.
- **DRep timeline.** The screen shows an unbroken run of epochs, each once; what
  it says of its ends is true; no merge hides an entry that arrived; a reader who
  pages back reaches the first epoch.
- **Transaction modal.** A promise resolves with the result of its own
  transaction; who still waits can be answered; a transaction reported as
  cancelled was not submitted: each with the exceptions that section 3 names, of
  which the file of another transaction is one.
- **Wallet session.** The token belongs to the account that is shown; a logout
  leaves nothing behind.

PROJECT.json, "hazards", lists at its line everything in this code that is hard
to test, with the properties that watch it or the reason why none does.

## 2. Modules

In every module of a worker a run of a job is a record of the process's local
variables, with a program counter that names the call it is about to make. A
database, Redis or HTTP call is one action, so that a crash, a failed call or a
step of another run may come between any two of them. A transaction is one
action because the database makes it one. Operations the code performs without
a call in between belong to the action of the call before them. The exceptions
are in `VotesSync`: `TakeVote` merges the three calls a vote takes
(`drep-votes-sync.worker.ts` 63-104: the row is read, the transaction looked up,
the row upserted), since what may come between them is the sweep, which writes
no block time, and casts, which only add ballots, so that each has the same effect
before or after; and `NextProposal` merges the metadata phase of the governance
sync (273-333), which `MetadataSync` models call by call, into what it leaves of
`clean`. The votes module also leaves out the key a ballot without a proposal id
is stored under (87-88), and has no action for the catch around a whole DRep
(137-139): a count that fails is a crash there, which loses the count as well.

Blockfrost is read through `executeWithFallback`, which turns to the fallback
when the primary fails, call by call. In `ProposalSync` and `DelegatorSync` each
call therefore names the source that answers (`Blockfrost`: `past` is every
state the chain has been in, `at` the one that each source shows, `Answers` what
a fallback costs: a failure of the primary); `StakeSync` does the same with
epochs, and `VotesSync` with a page from a source that is behind (`BallotsBehind`,
`VotesBehind`). Variables whose
comment says *history* record what happened and guard nothing. Operators marked
`Slip` are the plausible mistakes against which the properties are measured;
nothing refers to them.

| Module | Models | Correspondence |
|---|---|---|
| `TimelineWatcher` | `TimelineWatcherWorker.process`, `handleDelegation` | `ReadState`, `CreateState` 37-41; `FetchBatch` 43-55; `FindTransfer`, `HandleEvent`, `HandlerThrows` the loop 57-78 and the lookup 105-121; `InsertUndelegation` 123-149; `EnqueueSync` 80-91; `SaveCursor` 93-95; `RunFails` any exception that leaves `process`, or a crash; `SyncStarts` a sync worker taking its job. `IndexerInsert`, `IndexerCommit` are the external writer |
| `Blockfrost` | the two sources behind `executeWithFallback` | `Source`, `Answers` `blockfrost.service.ts` 52-87; `CatchUp` a source's db-sync. No `Next` of its own: `ProposalSync` and `DelegatorSync` extend it |
| `DelegatorSync` | `syncDRepDelegators`, `updateDelegationCounts` | `NextDRep`, `FetchPage`, `FetchFails` 128-147; `ReadExisting` 149-167; `CommitDiff`, `RefuseDiff`, `CommitFails` the transaction 169-213; `ReadCounts`, `UpdateCount`, `CountFails` 438-453. `Migrate` is `backend/migrations/1778100000000`, after which `Refusals` has no index to name. `ChainChange` is the ledger, `SourceCatchesUp` a source |
| `ProposalSync` | both `syncProposals` loops | `FetchList` 65-74; `SkipClosed`, `ReadExisting` 75-87; `FetchProposal`, `NotServed` 89-95, 128-133; `FetchTime`, `FetchTimeFails` 95-105; `SaveProposal` 107-128; `NextPage`, `FinishSync` 135-139. `Submit`, `Close` are the ledger, `SourceCatchesUp` a source |
| `MetadataSync` | both `syncProposalMetadata` loops | `StartSync` the selection 151-158; `AskBlockfrost`, `AskFails` 168-185; `FindAnchor` 258-285, which finds nothing for an `unlisted` URL, one that Blockfrost knows and no timeline event has; `FetchManually` 292-357; `SaveMetadata` the three upserts 197-249; `SyncVotes`, `VotesFail` the votes that the governance sync stores along |
| `StakeSync` | `StakeSyncWorker.process` with the client's `assertGovernanceSourceFresh` and `executeWithFallback`, composed with `GovernanceSyncWorker.syncDReps` | `ProbePrimary`, `ProbeTip`, `TipUnknown`, `Abort` the freshness check; `FetchPrimary`, `FetchFallback`, `SkipDRep` one `getDRepInfo`; `UpdateDRep` 54-76; `SaveSnapshots` one chunk 88-98. `StartList`, `AskInfo`, `InfoFails`, `AskMetadata`, `MetadataFails`, `SaveDRep`, `SaveFails`, `ListEnds`, `ListFails` are the list sync, 65-120. `EpochBegins`, `PrimaryCatchesUp`, `FallbackCatchesUp` are the chain and the db-sync of either source |
| `VotesSync` | `DrepVotesSyncWorker.process` and the votes of `syncProposalMetadataAndVotes` | `StartWalk`, `NextDRep`, `FetchBallots`, `BallotsBehind`, `BallotsFail` 29-60, 117-122; `TakeVote`, `VoteFails` one vote 61-109; `TurnPage` 112-116; `CountVotes` 125-136. `StartSweep`, `NextProposal`, `FetchVotes`, `VotesBehind`, `WriteVotes`, `VotesFail` are `governance-sync.worker.ts` 273-362. `CastBallot` is the chain. A page is the set of ballots at its places (`Places`, `Newest`, `Oldest`); `forced` is the job's `forceRefresh`, `cast` is history |
| `EventFeed` | what the watcher promises: an at-least-once feed | abstract: `Publish`, `Serve`, `Acknowledge`, `FallBack`. `TimelineWatcher` implements it (below) |
| `DRepTimeline` | `GovernanceService.getDRepTimeline` and its queries; `useGetDRepTimelineQuery`, `DRepTimeline` | operators: `EpochsOf`, `NextCursor`, `PrevCursor` 232-290 and 554-557, `EventTypes`, `Seen`, `RowsOf`, `Items` the three queries and the bundles 327-552, `CurrentEpoch` 927-952; `MergeEpochs`, `MergeItems` the hook's `onSuccess` 93-154. Actions: `MergePage` a request answered by a replica, `RequestFails`, `ClickOlder`, `ClickNewer`, `ChangeParams`, `Reconnect`; `CacheExpires`, `EpochBegins`, `Store` the surroundings |
| `TransactionModal` | the hook, the modal and its wrapper, and the callers that await a promise | `Begin`, `BuilderReady`, `Prepared`, `PreparationFails` a caller up to its promise (`openTxnModal` 551-587, `globalContext.tsx` 676-703 and 923-948); `Cancel`, `ClickCloseIcon`, `FadeEnds`, `Download`, `CountdownEnds`, `WalletSign`, `SubmitSignedFile(file)` the modal, where `file` is any transaction that was downloaded (`drafts`), pending or not, and `Usable` what the handler makes of its content (767-824); `SigningFails`, `Signed`, `SubmissionRefused`, `Accepted`, `AnswerLost`, `HashArrives` the answers |
| `WalletSession` | `AuthenticationService`, the providers, `AuthProvider`, the wallet state, and what the backend's login accepts | `LoadPage`, `OpenLogin`, `ChooseWallet`, `ChooseFile`, `WalletAnswers`, `LoginAccepted`, `ReconnectRefused`, `ReconnectFails`, `LoginFails`, `Logout`; `SwitchAccount` is the extension, `TokenExpires` the expiry of the JWT |

`MC*` modules extend a component for TLC, where there is more to say than a cfg can.
`MCProposalSync` bounds three instances at once by a variable `shape`: runs at a
time, proposals and failures. `MCStakeSync` adds a variable that says which two runs there are in a behaviour.
`MCVotesSync` adds one that says whether the sweep is there; alone, the walk has
the DRep vote in one order, since it does not tell proposals apart.
`MCFrontend` puts the three components of the browser side by side: they share
no state and do not call each other, so a variable `focus` picks the one that
moves, and the others rest; of four transactions a behaviour asks for three (`asked`). The `*_proofs` modules extend a component and TLAPS.

Data is abstracted to what the properties tell apart. Ids, epochs and pages are
numbers, because their order matters; addresses of `DelegatorSync` are numbers
because Blockfrost lists them in an order; hashes, payloads and documents are
model values or Booleans (a block time is there or not). A synthetic row is
identified by the row it stems from, which is what its unique key
(transaction hash, offset index, type) comes to. Stake is abstracted to the
epoch it belongs to, so "older stake" is a comparison. Ballots are numbered as
the chain orders them; an entry of the timeline is its epoch, its position in
it, its type and the query that finds it.

## 3. Runs

Deadlock is checked in every run of the workers, since a worker can always start
another run, and not in `frontend` and `timeline_filters`: a reader who has
reached the end, and a user whose transactions are done, may stop.

| Run | Bounds | Shows |
|---|---|---|
| `watcher_transfers` | 2 replicas, 1 address, 2 DReps, 3 delegations, batch of 2, 1 fault, ids up to 5; symmetric workers and DReps | types; `TransfersRecorded`, `UndelegationsSound`; `CursorMonotone` |
| `watcher_triggers` | 2 replicas, registration and vote, 2 rows in any commit order, batch of 1, 1 fault | `CursorCovers`; `CatchesUp`, `EventuallySynced`; `ImplementsFeed`, the refinement of `EventFeed` |
| `delegators` | 2 runs, 1 DRep, 2 addresses on pages of 1, 1 change on chain, 1 fault, two sources that catch up when they like, an index migrated at any moment or before | `UndelegationsReal`; `PagesAddUp`, `RemovalRecorded`; `Settles`, `CountsSettle` |
| `delegators_index` | 1 run, 1 address, 1 change, pages of 2, no fault | violation of `ClearsTimelineIndex` |
| `proposals` | pages of 1, two sources that catch up when they like; 2 runs, 2 proposals and no fault, or 1 run at a time, 2 proposals and 2 faults, or 2 runs, 1 proposal and 1 fault | `RunTakesAll`, `RowsNeverRegress`; `StatusSettles`, `OpenTimed` |
| `proposals_blocktime` | 2 runs, 1 proposal, 1 fault | violation of `BlockTimeKept` |
| `stake` | 2 runs at a time: 2 of the stake sync, or 1 of it and 1 of the list sync; 2 DReps in chunks of 1, 2 epochs, 1 fault, two sources that catch up when they like | `SnapshotNotOlder`, `PowerNeverOlder`; `RowsSettle` |
| `stake_exact` | 1 run, 1 DRep, 1 epoch change, no fault | violation of `SnapshotExact` |
| `metadata` | one run of each worker, 2 proposals, each with its document in any of five places, limit of 2, 1 vote, 1 fault | `CleanRowsComplete`, `JsonKept`; `MetadataSettles` |
| `votes` | pages of 2, a walk that ends at more than 1 known vote, 1 fault; both workers, 1 DRep on 2 proposals of which one is documented and 1 pool on one of them, 3 ballots; or the walk alone, forced or not, on 5 ballots of 1 DRep; the fault may be a page from a source that is behind | `VotesTypeOK`, `NoneOvertaken`; `BallotsFound`, `CountsFollow` |
| `frontend` | timeline: 2 replicas, pages of 2 epochs, an epoch that begins after the page was opened, 3 steps of the surroundings. Modal: 3 callers, of two submissions and a login of either sort; a signed file of any that was downloaded. Session: 2 wallets, 2 accounts, 4 page loads and logins, 1 switch or expiry | `NoGaps`, `EndsHonest`, `NothingHidden`, `ReachesGenesis`; `RightAnswer`, `CallersAnswered`, `NoFalseCancel`; `TokenMatchesAccount`, `LogoutHolds` |
| `timeline_filters` | 1 replica, pages of 2 epochs, no filter or Delegations | violation of `CategoryShown` |

Why the bounds suffice. Every hazard is a conflict of two runs, of a run and
the environment, or of a run and one fault, and each has a witness within the
bounds. Pages and batches are one or two rows instead of 100 or 50 so that a
list has a second page, a full last page and an empty page. Three delegations
make a transfer, a transfer back and a batch boundary between them. Two epochs
are an old and a new one, and two DReps in chunks of one let an epoch begin, or a
run die, between two amounts and between two chunks. Three ballots make a full
page, a second one, and a ballot that replaces another; five, of which one is cast
under the walk, let it meet a row of its own on the second page with a third one
still to read, which is the least on which a walk that stops a vote too early goes
wrong. Two replicas are what
disagreement about the epoch takes, and three steps let an epoch begin, an entry
come late and a request fail in one behaviour. Three callers have an overlap and
a third that starts when it has gone, and with two submissions among them the
file of one can be handed in for the other; four starts are a login, a second one
beside a reconnection, and a page load after each. A call that the
fallback answers costs one fault; one shape of `proposals` has two, so that a run
may meet the fallback on a page and again, or fail, on a later call. Elsewhere the one fault may strike at any call of any run;
combinations of several failures are outside the runs, and inside the theorems,
whose bounds are arbitrary. Each property is
also measured against a mistake in the code (PROJECT.json, "mutants") that TLC
finds within the same bounds.

Fairness. The safety and action properties use no fairness. The liveness
properties assume `WF_vars(RunStep(w))` of each replica: the scheduler keeps
adding jobs (`job-scheduler.service.ts` 27-92) and a started run goes on to its
next call. Faults are limited in number, which stands for "calls fail, but not
for ever"; nothing obliges the indexer to write, the chain to change, the backend to migrate or
a source to catch up, which is why `Settles`, `StatusSettles` and `OpenTimed` have the
premise `PrimaryCurrent`, and `RowsSettle` its like: from some time on the primary
is in step with the chain. `SyncStarts` is weakly fair because BullMQ hands waiting jobs
to idle workers. `WF(ListStep(l))` is the governance sync at midnight, `WF(Walk)`
and `WF(Sweep)` the weekly votes sync and the governance sync. Of the browser
`FrontendSpec` assumes only that a request is answered unless it fails
(`Answered`) and that the reader, while the button is there, clicks it
(`PagesBack`); the
modal and the session have no liveness property, because a user may walk away.

Refinement. `Feed` in `TimelineWatcher` instantiates `EventFeed` with the rows
that ask for a sync as published, the covered ones as served and those behind the
cursor as acknowledged. `ImplementsFeed` says that the watcher implements the
feed with its fairness, so that every event is served and acknowledged in the
end; TLC checks it, and `RefinesFeed` proves its safety part for all constants.

### Where the code and what is said of it part

- **`delegators_index`.** The transaction of a DRep upserts its undelegations
  with the conflict target `(txHash, txIndex)` (`governance-sync.worker.ts` 195),
  and the comment above (180) relies on that unique index. Migration
  `1778100000000-UpdateTimelineUniqueConstraint.ts` of the backend replaces the
  index by `(tx_hash, tx_index, event_type)`. PostgreSQL then refuses the
  statement: the transaction rolls back whenever a delegator has left, and that
  DRep's rows stay as they were, the new delegators and amounts of the others
  included. The backend runs its migrations when it is deployed (`Migrate`, at
  any moment, or before the first run of the worker), so the run `delegators`
  covers both schemas. Its `Settles` is what is left at this commit: the rows of
  every DRep become what the chain says unless the index is migrated and there is
  a departed delegator to delete (`Blocked`). A DRep that lost one stays blocked
  for as long as the conflict target and the index disagree, unless the address
  comes back; and its count, which `CountsSettle` compares with the rows, stays
  above the number on chain with them.
- **`proposals_blocktime`.** The changelog (88-90) says that block times are
  preserved. They are by one run; but the row is upserted whole from a read made
  two remote calls earlier, so a run whose lookup fails can overwrite with null
  the time that an overlapping run has stored. `RowsNeverRegress` shows that
  nothing but a stale run does, and `OpenTimed` that open proposals recover.
- **`stake_exact`.** The snapshots are "our drep_distr equivalent"
  (`stake-sync.worker.ts` 88), but the epoch is read once and the amounts
  afterwards, so a run across an epoch boundary stores stake of the new epoch as
  the snapshot of the old. `SnapshotNotOlder` shows that the error is on that
  side only.
- **`timeline_filters`.** The filter menu (`DRepTimeLineFilters.tsx` 38-71)
  writes `va`, `d` and `n` into the address, the backend maps `voting_activity`
  and `delegation` (`governance.service.ts` 779-804) and takes a filter without a
  word it knows for no filter: what was chosen changes nothing but the reset.

Observations on the way, which no run shows because no comment, document or test
says otherwise, or because the part is not modelled:

- Two ballots of one voter on one page of the governance sync make its bulk
  upsert touch a row twice, which PostgreSQL refuses; the rest of that
  proposal's votes is skipped (`Twice` in `VotesSync`).
- Votes of pools and of the committee on a proposal whose metadata is clean are
  fetched only while a DRep's row is there (`Targets`).
- A replaced ballot: one writer ends with the oldest it lists, the other with the
  newest, so the row may flip between them for ever.
- A DRep's ballot may be left out for good, although every call succeeds. A
  replaced ballot whose new row the sweep wrote keeps the time of the old one,
  and counts as known: a page with more than 80 of those ends the walk above
  ballots that were never read. So do more than 80 ballots that a DRep casts
  while its votes are walked, since the walk then meets its own rows. The sweep
  finds them as long as it selects their proposals; otherwise only
  `forceRefresh`, which never stops at what is known, does.
- A page left open while more epochs begin than a page holds, and then refetched,
  has a gap: the new first page does not reach down to the old one.
- Pages from two sources do not join. If the source of a page knows fewer
  proposals than the source of the page before, what is on the boundary has moved
  up past the run, which skips it although no call that it sees has failed
  (`clean` in `ProposalSync`); the same holds of ballots (`BallotsBehind`), where
  the early stop may make it last, and makes a list of delegators `torn`.
- False undelegations stay. A torn list that misses an address, or a list from
  before an address came whose row another run has stored meanwhile, makes the
  transaction delete the row and record a departure that did not happen; the next
  run inserts the row again and leaves the timeline as it is.
- The file with the signed transaction is never compared with the pending one. A
  transaction that was downloaded, cancelled, and signed later is submitted from
  the modal of another, whose caller is given its hash; the modal's own is then
  reported as done and was never submitted.

### What is deliberately excluded from a property

- `CursorCovers`, `TransfersRecorded` and `EventuallySynced` leave out rows that
  became visible after a higher id (`late`): the cursor passes them unread.
- `TransfersRecorded` leaves out events whose handler threw (`skipped`): the
  code logs them and goes on, as its comment says (75).
- `PagesAddUp` leaves out torn lists: a later page came from a state of the chain
  in which this DRep has other delegators or amounts than on the first page,
  because the chain or the source changed. That another run commits meanwhile
  does not make a list torn.
- `UndelegationsReal` leaves out what is `doubtful`: undelegations from a torn
  list, and those of an address that came to the DRep after the state the list
  shows (`Unfounded`). It holds of every other undelegation, those of overlapping
  runs included. `Settles` says that the rows recover from doubtful ones; the
  false rows in the timeline do not.
- `Settles` leaves out `Blocked` DReps, as described above.
- `RunTakesAll` leaves out runs that are not `clean`: a call of theirs failed, or
  a page came from a source that knew fewer proposals than the page before.
- `CountsSettle` leaves out a DRep without delegators: the grouped query has no
  row for it and its count stays what it was.
- `OpenTimed` leaves out closed proposals: both workers skip them from then on,
  with or without a block time.
- `MetadataSettles` is checked with a limit no smaller than the table; with more
  hopeless proposals than the limit, the unordered query may never select the
  others.
- `SnapshotNotOlder` leaves out the label of a row that a `slow` list sync wrote,
  one whose answer was older than what the primary served by then, and the label and
  snapshot of an epoch for which a fallback behind that epoch answered (`strayed`):
  the freshness check accepts such a fallback.
- `PowerNeverOlder` leaves out a stake sync that was overlapped, did not learn the
  tip, or stores an answer older than its epoch, and a list sync whose answer is
  older than what a source serves when it writes; a list sync that stores the
  newest there is lowers nothing.
- `NoneOvertaken`, `BallotsFound` and `CountsFollow` leave out DReps whose walk a
  fault, or a page from a source that is behind, cut short, or that outran it by more ballots than it may pass (`hit`), and
  DReps that replaced a ballot (`Revoted`): for them the observation above holds,
  and the next walk may stop on its first page. `BallotsFound` leaves out other
  voters of proposals the sweep does not select, or refuses, or that have
  more votes than it reads (`VotesLimit`, which no instance here reaches).
- `NoGaps` leaves out a page left open for more epochs than a page holds.
- `NoFalseCancel`, `RightAnswer` and `CallersAnswered` leave out transactions that
  were `excused`: two were under way at once (`overlap`), the countdown closed the
  modal over a signature or submission (`raced`), its answer was lost (`lost`), or
  its file was handed in for another one, or another's for it (`swapped`). The last
  is exact for `RightAnswer`: a promise gets another's result only if another's
  file was handed in for it. A file that comes from elsewhere, of a transaction this
  page has never shown, behaves like another transaction's.
- `TokenMatchesAccount` leaves out what sets token and account `apart`: logins
  that overlap, one that fails after the wallet had answered, an account switched
  in the wallet. `LogoutHolds` leaves out a logout with a login still under way.

## 4. Proofs

`tlapm` checks the proof modules to the last leaf. Only the ASSUMEs of the
components are assumed of the constants: any sets of workers, addresses, DReps,
callers and wallets, any bounds; what is listed in pages is finite, page sizes
are positive, and the known votes that end a walk are fewer than a page, as 80 is
than 100. Blockfrost's sources may be at any heights. Every invariant of a passing run, and every action property, has its
theorem; `TypeOK` of `MetadataSync` is proved only.

| Theorem | Says |
|---|---|
| `TimelineWatcher_proofs!TypeCorrect` | `Spec => []TypeOK` |
| `TimelineWatcher_proofs!NoEventLost` | `Spec => []CursorCovers` |
| `TimelineWatcher_proofs!BackOnlyIfStale` | `Spec => CursorMonotone` |
| `TimelineWatcher_proofs!RefinesFeed` | `Spec => Feed!Spec` |
| `TimelineWatcher_proofs!EveryTransferRecorded` | `Spec => []TransfersRecorded` |
| `TimelineWatcher_proofs!UndelegationsBacked` | `Spec => []UndelegationsSound` |
| `DelegatorSync_proofs!DelegatorTypes` | `Spec => []TypeOK` |
| `DelegatorSync_proofs!NoFalseUndelegation` | `Spec => []UndelegationsReal` |
| `DelegatorSync_proofs!ListsAreWhole` | `Spec => PagesAddUp` |
| `DelegatorSync_proofs!RemovalsRecorded` | `Spec => RemovalRecorded` |
| `ProposalSync_proofs!ProposalTypes` | `Spec => []TypeOK` |
| `ProposalSync_proofs!OnlyStaleRegress` | `Spec => RowsNeverRegress` |
| `ProposalSync_proofs!AllTaken` | `Spec => RunTakesAll` |
| `MetadataSync_proofs!MetaTypes` | `Spec => []TypeOK` |
| `MetadataSync_proofs!CleanMeansComplete` | `Spec => []CleanRowsComplete` |
| `MetadataSync_proofs!DocumentsKept` | `Spec => JsonKept` |
| `StakeSync_proofs!StakeTypes` | `Spec => []TypeOK` |
| `StakeSync_proofs!SnapshotsNotOlder` | `Spec => []SnapshotNotOlder` |
| `StakeSync_proofs!NeverOlder` | `Spec => PowerNeverOlder` |
| `Frontend_proofs!Answers` | `ModalSpec => []RightAnswer` |
| `Frontend_proofs!NobodyLeftWaiting` | `ModalSpec => []CallersAnswered` |
| `Frontend_proofs!CancelIsHonest` | `ModalSpec => []NoFalseCancel` |
| `Frontend_proofs!SessionTyped` | `SessionSpec => []SessionTypeOK` |
| `Frontend_proofs!TokenIsOwn` | `SessionSpec => []TokenMatchesAccount` |
| `Frontend_proofs!LoggedOutForGood` | `SessionSpec => []LogoutHolds` |
| `Frontend_proofs!FrontendTyped` | `FrontendSpec => []TypesOK` |
| `DRepTimeline_proofs!EndsAreHonest` | `TimelineSpec => []EndsHonest` |
| `DRepTimeline_proofs!MergeHidesNothing` | `TimelineSpec => []NothingHidden` |
| `DRepTimeline_proofs!PagesJoin` | `TimelineSpec => []NoGaps` |
| `VotesSync_proofs!VotesTyped` | `VotesSpec => []VotesTypeOK` |
| `VotesSync_proofs!WalksOvertakeNone` | `VotesSpec => []NoneOvertaken` |

**NoEventLost.** `CursorCovers` is not inductive: it says nothing of a run in
progress, and saving that run's cursor could break it. `CoverInv` adds what each
run owes (`RunInv`): the rows up to `base` are covered (`BaseCovered`); a batch
leaves no gap above `base`, rows that commit late apart (`NoGap`); an event of
the batch that is no longer in `todo` is covered or its sync is still in `trig`
(`TakenCovered`). `FetchBatch` establishes `NoGap`, from the lemma
`FirstOfDownward` on the batch operator; `HandleEvent` moves an event from
`todo` to `trig`, `EnqueueSync` from `trig` to the queue, and `SaveCursor` finds
both empty. A run that moves the cursor back needs no case of its own, since a
lower cursor covers less. The lemma `Frame` says once that no step takes
coverage back.

**BackOnlyIfStale.** The step that could move the cursor back is `SaveCursor`;
`AboveBase` says that whatever a run may save lies above the cursor it had read,
and that a run about to create the cursor had found none.

**RefinesFeed.** From `CoverInv` again. A commit is `Publish`, or a stutter when
the row asks for nothing or is late (`CommitPublishes`: a row that is not late
lies above every visible one, hence above the cursor); a step that moves the
cursor forward is `Acknowledge`, which `CursorCovers` allows, one that moves it
back is `FallBack`; whatever touches the queues is `Serve`, since coverage is
never taken back; synthetic rows ask for nothing.

**EveryTransferRecorded** and **UndelegationsBacked** need each other. A run
looks the previous DRep up in one step and inserts in another, or finds that the
row is there already, because another run looked it up. `TransferInv` therefore
says of what a run is about to insert, and of every undelegation in the table,
that it has a source (`Sourced`): a DRep the address had chosen and leaves and,
unless a late row of the address disturbs the lookup, the one a lookup still
finds. `EarlierKept` is the heart of it: a row that commits on time lies above
every visible one, so that no undisturbed lookup changes its answer. As for the
cursor, what lies below a run's base is recorded, and what the loop has taken
from the batch is recorded or skipped (`Records`); `SaveCursor` closes the gap
between the two with `NoGap`.

**ListsAreWhole.** A page is a set of ranks, and a run stops at the first page
that is not full. `RankRises` says that ranks are distinct and below the length
of the list, `PageFull`, by counting an injection, that a page below some entry
is full, and `PagesCover` that the pages up to a short one are therefore the
whole list. The invariant `Listed` is that the pages a run has read, while its
list is not torn, are the ranks below the page it asks for (`Upto`) in the state
its first page shows.

**NoFalseUndelegation.** `DelegatorInv` follows an address through a run: what a
run has heard was with the DRep in some state of the chain (`Heard`), and so was a
stored row (`Known`). A row that the whole list lacks is then of an address that
was with the DRep, and is not in the state the list shows (`Gathered`). If it was
with the DRep before that state it had left by then, and if only after it the
undelegation is `Unfounded`, whatever another run does in between.
**RemovalsRecorded** needs only the types: the transaction that removes is the
one that records.

**OnlyStaleRegress.** What `SaveProposal` writes was settled several calls
earlier, so `RowInv` carries it along: a run at work on a proposal read a row
that was not closed, and once the proposal is fetched it is about to save a
block time if that row had one (`Keeps`). If the row is still the one it read,
saving therefore neither loses a block time nor reopens it.

**AllTaken.** As long as no page comes from a source that knows fewer proposals
than the page before, the others are pushed to later pages, never to earlier
ones, so `Taken` measures from the end of the list as the last page had it
(`seen`): of the proposals a run has to take, those before the page it asks for are done, those on the page
in hand are done or in hand, and with the last page all are. `ShortPage`, by the
cardinality of an interval, says that a page that is not full reaches down to the
first proposal.

**CleanMeansComplete.** The row is written by three kinds of upsert from what a
run has got so far, so `GotReal` says what that is at each program counter: a
document only with its anchor, and only if one can be had.

**SnapshotsNotOlder.** `SnapshotNotOlder` alone is not inductive, since it says
nothing of the amounts a run still holds. `StakeInv` adds that a run's epoch is
one the primary has reached and that every amount it holds, about to be written
or kept for the snapshots, belongs to that epoch or a later one, or is one that a
fallback behind that epoch has given (`JobOK`); and,
for the list sync, that a label is one the primary has reached (`LabelReached`),
so that an amount read before it moved on is what `slow` records.

**NeverOlder.** `FreshInv` adds that nothing stored is newer than what one of the
sources has reached (`Reached`), which is all a fallback behind the primary leaves of
"newer than the tip", and that, while a run that has overlapped with no other, of the list sync either,
and has learnt the tip (`Lone`) is at work, no row it has still to write is newer
than the epoch it started in: that epoch was the primary's, and its freshness
check compared it with the fallback's. A run that went ahead because the fallback did not answer (`TipUnknown`) is
counted with the overlapped ones; the property says nothing of what those store.

**The modal.** None of its three properties is inductive, since they depend on
who else is under way. `ModalInv` says: what can be clicked belongs to a caller
that waits (`Held`); a transaction that none has met is alone (`Alone`), the
modal is its own (`Own`), a flight carries its kind, and its own file or that of a
transaction swapped with it (`Kinded`), and while its answer is awaited nothing can
be clicked (`Flying`). Most steps keep it by the
lemma for their shape (`QuietKeeps`, `ClosingKeeps`, `ErrsKeeps`,
`ResolveKeeps`, `StageKeeps`).

**The session.** `SessionInv`: unless something has set them apart, one login or
reconnection is under way at most (`One`), it is about the wallet named in the
storage (`Named`) and carries the account selected in it (`Current`), and the
stored token was issued to that account, unless a login is about to replace it
(`Owned`).

**The timeline.** The hook sorts a set of epochs; `SortedLists` and `Runs` say
what sorting by rank yields, and that the list of an interval is the interval, and
`MergeAdds` that a merge shows the epochs that were on the screen and those of the
page. `EndsHonest` needs to know where a cursor may lead (`Near`): next to an epoch
on the screen and never past the chain, and a replica's cached epoch is one behind
at most. `NothingHidden` rests on the shape of an item (`ItemsShaped`: one entry, or
delegations alone) and on delegations having a slot to themselves (`OwnSlots`), by
which the id of a bundle determines its newest entry. `NoGaps` says only
*how* the screen looks; what a page adds joins it because the interval on the
screen begins about where the page was opened (`Unbroken`), and a page upside down
is told from one that was turned by the steps it took (`Turned`).

**FrontendTyped.** The three components take turns, so each invariant is kept by
the steps of its own component and left alone by the others.

**VotesTyped.** That a row is made of ballots of its own pair depends on what the
walk holds of a page it read earlier: those are ballots of the DRep it is at
(`Named`), and ballots never leave the chain.

**WalksOvertakeNone.** Between walks the invariant `Gapless` is `NoneOvertaken`;
within one it says how far the walk has come, in places of the list of its DRep's
ballots, `After(S, b)` being the place of `b`. The lemmas on places say that
they are distinct and fill an interval (`PlacesFall`, `PlacesFilled`), what
a page is therefore (`PageOfPlaces`), and that a ballot that is cast moves the
others down by one (`PlacesMove`). Before a page is asked for (`PageOK`), nothing
without a time is above it below a ballot with one; and a ballot with a time at a
place no row of this walk can have been moved to (`Own`: the places above the
page, and as many as were cast meanwhile) is one of an earlier walk, which left
nothing out below it. While the page is worked through (`VoteOK`), what is gone
of it has its time, and the known ones are no more than the walk's own or there
is one of an earlier walk among them. A page with more than `Enough` known, of
which at most `Enough` are the walk's own, thus has a ballot below which all have
their time, and the walk may stop (`PageTurned`). The count of own rows is
where the proof needs that the DRep did not outrun the walk, and that an untimed
row is never taken for known is where it needs that no ballot was replaced
(`CastOnce`).

What stays with TLC: liveness, which rests on fairness and is out of the prover's
reach. These are `CatchesUp`, `EventuallySynced`, the fairness of
`ImplementsFeed`, `Settles`, `CountsSettle`, `StatusSettles`, `OpenTimed`,
`RowsSettle`, `MetadataSettles`, `BallotsFound`, `CountsFollow`, `ReachesGenesis`.

## 5. Not modelled, and why

- `updateDelegatorVotingPower` (watcher, 151-165) and
  `syncDelegatorVotingPower` (stake sync, 119-152) refresh
  `drep_delegators.voting_power_lovelace`, which is state of no module.
- The notification cron (`backend/notifications/`). Its vote query (line 134)
  selects columns of `proposals` that the migrations do not create there, so the
  cron throws, before the purge and before the sync time is saved, as soon as a
  recently signed-in user has a delegation; a first run starts from an invalid
  date, because there is no row of `synctime`. A model of it would be a model of
  the code as it was meant.
- The claim worker (`drep-claim.worker.ts`) looks up entities that the data source
  of queue-backend does not register, so that a run ends in its catch.
- The REST API reads what the workers store; its own writes are single
  statements. (`authService.ts` 69 keeps the token in the local storage, while
  `axiosInstance.ts` 15 reads the session storage: requests carry no token, and
  no model of authorisation beyond the session would be about this code.)
- The lists, profiles and metrics of the backend are SQL over tables the workers
  fill and over cardano-db-sync. IPFS, PDF and the governance-actions proxy are
  I/O and library calls. The migration service of queue-backend counts and reports, and writes nothing.
- Rendering and forms of the frontend; what a transaction is made of.
- Rollbacks of the chain: a source of Blockfrost only moves forward, on one chain.
- BullMQ's locks and stalled-job recovery: a job that is started twice is two
  runs here, which is the more general case.
- HTTP details (keys, headers, delays between calls), logging, number formats.

## 6. Plan

Done, in this order: `TimelineWatcher`, `DelegatorSync`, `ProposalSync`,
`StakeSync`, `MetadataSync`; `EventFeed` and the refinement; `DRepTimeline`,
`TransactionModal`, `WalletSession`; `VotesSync`; the list sync in `StakeSync`;
the two sources (`Blockfrost`, and both heights in `StakeSync`); the proofs of
section 4.

Next modules: the rows of votes read call by call, with both sources in full; the
composition of watcher and delegator sync over one timeline
(two synthetic rows for one departure, a second departure of one address);
`NotificationCron` and `DrepClaim`, once their code runs.

Next proofs: what liveness rests on and is itself safety, such as that a run at
work has a step to take; the invariants of the modules to come.
