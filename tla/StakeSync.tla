------------------------------ MODULE StakeSync ------------------------------
(***************************************************************************)
(* The two writers of the dreps table: the hourly stake sync of            *)
(* queue-backend and the list sync that begins its governance sync.        *)
(*                                                                         *)
(* A run of the stake sync first asks the primary Blockfrost for its epoch *)
(* and compares it with the epoch of the hosted fallback; if the primary   *)
(* is not the one behind, it reads the stake of every DRep, through the    *)
(* client that turns to the fallback when the primary fails, updates       *)
(* dreps.voting_power_ada and snapshot_epoch_no, and at the end writes the *)
(* amounts to drep_epoch_stake under the epoch it learnt at the beginning. *)
(* The list sync writes every row whole, snapshot_epoch_no apart, without  *)
(* asking whether its source is fresh; what it could not read is null.     *)
(* Either source may be behind the ledger, and behind the other.           *)
(*                                                                         *)
(* A source serves the stake distribution of the epoch its db-sync has     *)
(* reached, so an amount is represented by the epoch it belongs to.        *)
(***************************************************************************)
EXTENDS Integers, FiniteSets

CONSTANTS
  Worker,     \* replicas of queue-backend able to run the stake sync
  Lister,     \* replicas able to run the governance sync
  DRep,       \* rows of the dreps table
  None,       \* no row, no snapshot
  ChunkSize,  \* snapshots per upsert: 500
  MaxEpoch,   \* bound: epochs
  MaxFaults   \* bound: failed calls and crashes

ASSUME BoundAssumption    == MaxEpoch \in Nat /\ MaxFaults \in Nat
ASSUME ChunkAssumption    == ChunkSize \in Nat \ {0}

Epoch == 0..MaxEpoch
ASSUME NoneAssumption == None \notin Epoch

VARIABLES
  tip,      \* the epoch of the ledger
  primary,  \* the epoch the primary serves
  fallback, \* the epoch the hosted fallback serves
  power,    \* epoch of the stake in dreps.voting_power_ada
  label,    \* dreps.snapshot_epoch_no
  stake,    \* drep_epoch_stake: by DRep and epoch, the epoch of the stake
  profile,  \* DReps whose metadata is stored
  job,      \* the local state of the run on each worker
  list,     \* the local state of the list sync on each lister
  mixed,    \* history: workers whose current run has overlapped with another
            \* or has gone ahead without learning the tip
  slow,     \* history: DReps whose row a list sync wrote last, from an answer
            \* older than what the primary served by then
  strayed,  \* history: DRep and epoch of a run that a fallback behind that
            \* epoch has answered
  faults    \* number of faults so far

sources == <<tip, primary, fallback>>
db      == <<power, label, stake, profile, slow, strayed>>
vars    == <<sources, db, job, list, mixed, faults>>

\* base is epochNo, todo the DReps left, drep and info the answer that is
\* about to be stored, snaps what is left of epochSnapshots.
Job == [pc : {"idle", "probe", "dreps", "update", "snapshot"}, base : Epoch,
        todo : SUBSET DRep, drep : DRep \cup {None}, info : Epoch,
        snaps : [DRep -> Epoch \cup {None}]]
NoSnaps == [d \in DRep |-> None]
Idle == [pc |-> "idle", base |-> 0, todo |-> {}, drep |-> None, info |-> 0,
         snaps |-> NoSnaps]

\* drep is the DRep that was asked about last, info the epoch of its stake, or
\* None if the details are missing, meta whether its metadata was read.
ListJob == [pc : {"idle", "ask", "meta", "save"}, todo : SUBSET DRep, drep : DRep \cup {None},
            info : Epoch \cup {None}, meta : BOOLEAN]
NoList  == [pc |-> "idle", todo |-> {}, drep |-> None, info |-> None, meta |-> FALSE]

Pending(w) == {d \in DRep : job[w].snaps[d] # None}

Init ==
  /\ tip = 0
  /\ primary = 0
  /\ fallback = 0
  /\ power = [d \in DRep |-> None]
  /\ label = [d \in DRep |-> None]
  /\ stake = [d \in DRep |-> [e \in Epoch |-> None]]
  /\ profile = DRep
  /\ job = [w \in Worker |-> Idle]
  /\ list = [l \in Lister |-> NoList]
  /\ mixed = {}
  /\ slow = {}
  /\ strayed = {}
  /\ faults = 0

(***************************************************************************)
(* The ledger and the two sources (external).                              *)
(***************************************************************************)
EpochBegins ==
  /\ tip < MaxEpoch
  /\ tip' = tip + 1
  /\ UNCHANGED <<primary, fallback, db, job, list, mixed, faults>>

PrimaryCatchesUp ==
  /\ primary < tip
  /\ primary' = primary + 1
  /\ UNCHANGED <<tip, fallback, db, job, list, mixed, faults>>

FallbackCatchesUp ==
  /\ fallback < tip
  /\ fallback' = fallback + 1
  /\ UNCHANGED <<tip, primary, db, job, list, mixed, faults>>

(***************************************************************************)
(* One run of process() by worker w.                                       *)
(***************************************************************************)

\* Slip: the epoch is asked of the fallback.
ProbeFallback(w) ==
  /\ job[w].pc = "idle"
  /\ job' = [job EXCEPT ![w].pc = "probe", ![w].base = fallback]
  /\ UNCHANGED <<sources, db, list, mixed, faults>>

\* assertGovernanceSourceFresh: the primary names its epoch ...
ProbePrimary(w) ==
  LET others == {u \in Worker \ {w} : job[u].pc # "idle"}
      alone  == others = {} /\ \A l \in Lister : list[l].pc = "idle"
  IN
  /\ job[w].pc = "idle"
  /\ job' = [job EXCEPT ![w].pc = "probe", ![w].base = primary]
  /\ mixed' = IF alone THEN mixed \ {w} ELSE mixed \cup others \cup {w}
  /\ UNCHANGED <<sources, db, list, faults>>

\* Slip: the epochs are not compared.
ProbeTipUnchecked(w) ==
  /\ job[w].pc = "probe"
  /\ job' = [job EXCEPT ![w].pc = "dreps", ![w].todo = DRep]
  /\ UNCHANGED <<sources, db, list, mixed, faults>>

\* ... and is not behind the epoch the fallback names, which is taken for the
\* tip; the fallback itself may be behind.
ProbeTip(w) ==
  /\ job[w].pc = "probe"
  /\ job[w].base >= fallback
  /\ job' = [job EXCEPT ![w].pc = "dreps", ![w].todo = DRep]
  /\ UNCHANGED <<sources, db, list, mixed, faults>>

\* The fallback does not tell the tip: proceed on the primary's epoch.
TipUnknown(w) ==
  /\ job[w].pc = "probe"
  /\ faults < MaxFaults
  /\ faults' = faults + 1
  /\ mixed' = mixed \cup {w}
  /\ job' = [job EXCEPT ![w].pc = "dreps", ![w].todo = DRep]
  /\ UNCHANGED <<sources, db, list>>

\* Slip: <= for <.
AbortEagerly(w) ==
  /\ job[w].pc = "probe"
  /\ job[w].base <= fallback
  /\ job' = [job EXCEPT ![w] = Idle]
  /\ UNCHANGED <<sources, db, list, mixed, faults>>

\* Aborting stake sync: the primary is behind.
Abort(w) ==
  /\ job[w].pc = "probe"
  /\ job[w].base < fallback
  /\ job' = [job EXCEPT ![w] = Idle]
  /\ UNCHANGED <<sources, db, list, mixed, faults>>

\* Slip: the DRep is not remembered.
AnsweredBlank(w, d, e) ==
  job' = [job EXCEPT ![w].pc = "update", ![w].info = e, ![w].todo = @ \ {d}]

\* The answer about d is the stake of epoch e.
Answered(w, d, e) ==
  job' = [job EXCEPT ![w].pc = "update", ![w].drep = d, ![w].info = e,
                     ![w].todo = @ \ {d}]

FetchPrimary(w, d) ==
  /\ job[w].pc = "dreps"
  /\ d \in job[w].todo
  /\ Answered(w, d, primary)
  /\ UNCHANGED <<sources, db, list, mixed, faults>>

\* The primary fails otherwise than with a 404 and the fallback answers, which
\* nobody has compared with the epoch of the run.
FetchFallback(w, d) ==
  /\ job[w].pc = "dreps"
  /\ d \in job[w].todo
  /\ faults < MaxFaults
  /\ faults' = faults + 1
  /\ Answered(w, d, fallback)
  /\ strayed' = strayed \cup {p \in {<<d, job[w].base>>} : fallback < p[2]}
  /\ UNCHANGED <<sources, power, label, stake, profile, slow, list, mixed>>

\* Both fail, or the amount is not a number: the DRep keeps its row.
SkipDRep(w, d) ==
  /\ job[w].pc = "dreps"
  /\ d \in job[w].todo
  /\ faults < MaxFaults
  /\ faults' = faults + 1
  /\ job' = [job EXCEPT ![w].todo = @ \ {d}]
  /\ UNCHANGED <<sources, db, list, mixed>>

UpdateDRep(w, d) ==
  /\ job[w].pc = "update"
  /\ d = job[w].drep
  /\ power' = [power EXCEPT ![d] = job[w].info]
  /\ label' = [label EXCEPT ![d] = job[w].base]
  /\ job' = [job EXCEPT ![w].pc = "dreps", ![w].drep = None, ![w].info = 0,
                        ![w].snaps = [@ EXCEPT ![d] = job[w].info]]
  /\ slow' = slow \ {d}
  /\ UNCHANGED <<sources, stake, profile, strayed, list, mixed, faults>>

\* The update fails inside the loop's catch.
UpdateFails(w) ==
  /\ job[w].pc = "update"
  /\ faults < MaxFaults
  /\ faults' = faults + 1
  /\ job' = [job EXCEPT ![w].pc = "dreps", ![w].drep = None, ![w].info = 0]
  /\ UNCHANGED <<sources, db, list, mixed>>

DRepsDone(w) ==
  /\ job[w].pc = "dreps"
  /\ job[w].todo = {}
  /\ job' = [job EXCEPT ![w].pc = "snapshot"]
  /\ UNCHANGED <<sources, db, list, mixed, faults>>

\* One chunk of the snapshots is upserted under (drep_id, epoch_no).
SaveSnapshots(w, C) ==
  /\ job[w].pc = "snapshot"
  /\ C \subseteq Pending(w)
  /\ C # {}
  /\ C = Pending(w) \/ Cardinality(C) = ChunkSize
  /\ Cardinality(C) <= ChunkSize
  /\ stake' = [d \in DRep |-> IF d \in C
                              THEN [stake[d] EXCEPT ![job[w].base] = job[w].snaps[d]]
                              ELSE stake[d]]
  /\ job' = [job EXCEPT ![w].snaps = [d \in DRep |-> IF d \in C THEN None ELSE @[d]]]
  /\ UNCHANGED <<sources, power, label, profile, slow, strayed, list, mixed, faults>>

FinishSync(w) ==
  /\ job[w].pc = "snapshot"
  /\ Pending(w) = {}
  /\ job' = [job EXCEPT ![w] = Idle]
  /\ UNCHANGED <<sources, db, list, mixed, faults>>

\* A call outside the loop's catch fails, or the process dies.
RunFails(w) ==
  /\ job[w].pc # "idle"
  /\ faults < MaxFaults
  /\ faults' = faults + 1
  /\ job' = [job EXCEPT ![w] = Idle]
  /\ UNCHANGED <<sources, db, list, mixed>>

-----------------------------------------------------------------------------
(***************************************************************************)
(* One run of syncDReps() by lister l.                                     *)
(***************************************************************************)
listFrame == <<sources, job>>

\* The pages of the list, which is as long as the table here.
StartList(l) ==
  /\ list[l].pc = "idle"
  /\ list' = [list EXCEPT ![l].pc = "ask", ![l].todo = DRep]
  /\ mixed' = mixed \cup {w \in Worker : job[w].pc # "idle"}
  /\ UNCHANGED <<listFrame, db, faults>>

\* The details of d are those of epoch e.
Detailed(l, d, e) ==
  list' = [list EXCEPT ![l].pc = "meta", ![l].drep = d, ![l].info = e, ![l].todo = @ \ {d}]

\* getDRepInfo
AskInfo(l, d) ==
  /\ list[l].pc = "ask"
  /\ d \in list[l].todo
  /\ Detailed(l, d, primary)
  /\ UNCHANGED <<listFrame, db, mixed, faults>>

\* The details come from the fallback, or not at all.
InfoFails(l, d) ==
  /\ list[l].pc = "ask"
  /\ d \in list[l].todo
  /\ faults < MaxFaults
  /\ faults' = faults + 1
  /\ Detailed(l, d, fallback) \/ Detailed(l, d, None)
  /\ UNCHANGED <<listFrame, db, mixed>>

\* getDRepMetadata
AskMetadata(l) ==
  /\ list[l].pc = "meta"
  /\ list' = [list EXCEPT ![l].pc = "save", ![l].meta = TRUE]
  /\ UNCHANGED <<listFrame, db, mixed, faults>>

MetadataFails(l) ==
  /\ list[l].pc = "meta"
  /\ faults < MaxFaults
  /\ faults' = faults + 1
  /\ list' = [list EXCEPT ![l].pc = "save"]
  /\ UNCHANGED <<listFrame, db, mixed>>

\* The upsert of the row: what is missing is overwritten with null.
SaveDRep(l, d) ==
  /\ list[l].pc = "save"
  /\ d = list[l].drep
  /\ power' = [power EXCEPT ![d] = list[l].info]
  /\ profile' = IF list[l].meta THEN profile \cup {d} ELSE profile \ {d}
  /\ slow' = IF list[l].info # None /\ list[l].info < primary THEN slow \cup {d} ELSE slow \ {d}
  /\ list' = [list EXCEPT ![l].pc = "ask", ![l].drep = None, ![l].info = None, ![l].meta = FALSE]
  /\ UNCHANGED <<listFrame, label, stake, strayed, mixed, faults>>

SaveFails(l) ==
  /\ list[l].pc = "save"
  /\ faults < MaxFaults
  /\ faults' = faults + 1
  /\ list' = [list EXCEPT ![l].pc = "ask", ![l].drep = None, ![l].info = None, ![l].meta = FALSE]
  /\ UNCHANGED <<listFrame, db, mixed>>

ListEnds(l) ==
  /\ list[l].pc = "ask"
  /\ list[l].todo = {}
  /\ list' = [list EXCEPT ![l] = NoList]
  /\ UNCHANGED <<listFrame, db, mixed, faults>>

\* A page of the list fails, or the process dies.
ListFails(l) ==
  /\ list[l].pc # "idle"
  /\ faults < MaxFaults
  /\ faults' = faults + 1
  /\ list' = [list EXCEPT ![l] = NoList]
  /\ UNCHANGED <<listFrame, db, mixed>>

ListStep(l) ==
  \/ StartList(l) \/ AskMetadata(l) \/ ListEnds(l)
  \/ \E d \in DRep : AskInfo(l, d) \/ SaveDRep(l, d)

ListFault(l) ==
  \/ MetadataFails(l) \/ SaveFails(l) \/ ListFails(l)
  \/ \E d \in DRep : InfoFails(l, d)

RunStep(w) ==
  \/ ProbePrimary(w) \/ ProbeTip(w) \/ Abort(w) \/ DRepsDone(w) \/ FinishSync(w)
  \/ \E d \in DRep : FetchPrimary(w, d) \/ UpdateDRep(w, d)
  \/ \E C \in SUBSET DRep : SaveSnapshots(w, C)

RunFault(w) ==
  \/ TipUnknown(w) \/ UpdateFails(w) \/ RunFails(w)
  \/ \E d \in DRep : FetchFallback(w, d) \/ SkipDRep(w, d)

Next ==
  \/ EpochBegins
  \/ PrimaryCatchesUp
  \/ FallbackCatchesUp
  \/ \E w \in Worker : RunStep(w) \/ RunFault(w)
  \/ \E l \in Lister : ListStep(l) \/ ListFault(l)

Spec == Init /\ [][Next]_vars

\* The scheduler starts the stake sync every hour and the governance sync at
\* midnight; a run whose probe meets a primary that is behind gives up, so
\* nothing more is assumed of the sources.
FairSpec ==
  /\ Spec
  /\ \A w \in Worker : WF_vars(RunStep(w))
  /\ \A l \in Lister : WF_vars(ListStep(l))
-----------------------------------------------------------------------------
TypeOK ==
  /\ tip \in Epoch
  /\ primary \in 0..tip
  /\ fallback \in 0..tip
  /\ power \in [DRep -> Epoch \cup {None}]
  /\ label \in [DRep -> Epoch \cup {None}]
  /\ stake \in [DRep -> [Epoch -> Epoch \cup {None}]]
  /\ profile \subseteq DRep
  /\ job \in [Worker -> Job]
  /\ \A w \in Worker : job[w].pc = "update" => job[w].drep \in DRep
  /\ list \in [Lister -> ListJob]
  /\ \A l \in Lister : list[l].pc \in {"meta", "save"} => list[l].drep \in DRep
  /\ mixed \subseteq Worker
  /\ slow \subseteq DRep
  /\ strayed \subseteq DRep \X Epoch
  /\ faults \in 0..MaxFaults

\* The snapshot of an epoch never holds the stake of an earlier epoch, and the
\* voting power of a DRep never is older than the epoch it is labelled with,
\* whatever lags, overlaps or rolls over in the middle of a run, and although
\* the list sync writes the power and leaves the label.  Two things break that:
\* a fallback behind the epoch of the run it answers for, and, for the power, a
\* list sync that stores less than the primary served by then.
SnapshotNotOlder ==
  /\ \A d \in DRep :
       power[d] # None /\ label[d] # None /\ d \notin slow /\ <<d, label[d]>> \notin strayed
       => label[d] <= power[d]
  /\ \A d \in DRep, e \in Epoch :
       stake[d][e] # None /\ <<d, e>> \notin strayed => e <= stake[d][e]

\* The comment on the freshness probe: no stake sync overwrites voting power
\* with stale stake.  True of a run that overlaps with no other, of the list
\* sync either, has compared its epoch with the fallback's, and stores no
\* answer of a fallback behind that epoch.  The list sync has no probe: what it
\* overwrites is lost when its answer is older than what a source serves when
\* the row is saved, and then only.
PowerNeverOlder ==
  [][\A d \in DRep :
       power[d] # None /\ power'[d] # None /\ power'[d] < power[d]
       => \/ \E w \in Worker : /\ job[w].pc = "update" /\ job[w].drep = d
                               /\ w \in mixed \/ job[w].info < job[w].base
          \/ \E l \in Lister : /\ list[l].pc = "save" /\ list[l].drep = d
                               /\ list[l].info < primary \/ list[l].info < fallback]_vars

\* The comment on the snapshots, "our drep_distr equivalent": the snapshot of
\* an epoch holds the stake of that epoch.
SnapshotExact ==
  \A d \in DRep, e \in Epoch : stake[d][e] # None => stake[d][e] = e

\* If the primary stays at the tip, every DRep ends up with its stake and its
\* metadata, although a list sync whose requests fail overwrites both with
\* null, and one that was slow, or was answered by a fallback that is behind,
\* brings back the stake of the epoch before.
RowsSettle ==
  <>[](primary = tip) =>
    <>[](\A d \in DRep : /\ power[d] = tip /\ label[d] = tip /\ stake[d][tip] = tip
                         /\ d \in profile)
=============================================================================
