---------------------------- MODULE MetadataSync ----------------------------
(***************************************************************************)
(* The proposal_metadata table of queue-backend and the two workers that   *)
(* fill it.  A run selects up to 500 proposals that have no metadata row   *)
(* or one with an error; the governance sync also selects those with a     *)
(* DRep vote whose voting power is unknown.  For each it asks Blockfrost   *)
(* for the metadata and, failing that, looks up the anchor in the timeline *)
(* and fetches and verifies the document itself.  The row it upserts holds *)
(* the document, or an error with or without the anchor.                   *)
(***************************************************************************)
EXTENDS Integers, FiniteSets

CONSTANTS
  Worker,      \* runs of either worker that may be active at a time
  Governance,  \* those of the governance sync
  Proposal,    \* rows of the proposals table
  None,        \* no row
  Limit,       \* proposals per run: 500
  MaxVotes,    \* bound: votes the DRep votes sync inserts
  MaxFaults    \* bound: failed calls and crashes

ASSUME GovernanceAssumption == Governance \subseteq Worker
ASSUME BoundAssumption == Limit \in Nat \ {0} /\ MaxVotes \in Nat /\ MaxFaults \in Nat

\* Where the document of a proposal is to be had: from Blockfrost, only at its
\* anchor, nowhere (the anchor is dead or the hash does not match; or no event
\* of the timeline has it), or there is no anchor at all.
Source == {"blockfrost", "anchor", "dead", "unlisted", "missing"}
Row == [json : BOOLEAN, url : BOOLEAN, error : BOOLEAN]
ASSUME NoneAssumption == None \notin Row \cup Proposal

VARIABLES
  source,    \* where the document of each proposal is (external)
  unpowered, \* proposals with a DRep vote that has no voting power
  stored,    \* number of votes the DRep votes sync inserted
  meta,      \* the proposal_metadata table
  job,       \* the local state of each run
  faults     \* number of faults so far

env  == <<source, unpowered, stored>>
vars == <<env, meta, job, faults>>

\* targets is what is left of the selection, cur the proposal at hand, got
\* what the run knows of it.
Job == [pc : {"idle", "next", "ask", "anchor", "fetch", "save", "votes"},
        targets : SUBSET Proposal, cur : Proposal \cup {None},
        got : [json : BOOLEAN, url : BOOLEAN]]
Nothing == [json |-> FALSE, url |-> FALSE]
Idle == [pc |-> "idle", targets |-> {}, cur |-> None, got |-> Nothing]

\* Slip: rows with an error are not selected.
LacksRow(i) == meta[i] = None

\* m.proposalId IS NULL OR m.error IS NOT NULL
NeedsMetadata(i) == meta[i] = None \/ meta[i].error

Selectable(w) ==
  {i \in Proposal : NeedsMetadata(i) \/ (w \in Governance /\ i \in unpowered)}

HasAnchor(i)  == source[i] # "missing"
InTimeline(i) == source[i] \notin {"unlisted", "missing"}

Init ==
  /\ source \in [Proposal -> Source]
  /\ unpowered = {}
  /\ stored = 0
  /\ meta = [i \in Proposal |-> None]
  /\ job = [w \in Worker |-> Idle]
  /\ faults = 0

\* limit(500) without an order: any selection of that size.
StartSync(w, T) ==
  /\ job[w].pc = "idle"
  /\ T \subseteq Selectable(w)
  /\ T = Selectable(w) \/ Cardinality(T) = Limit
  /\ Cardinality(T) <= Limit
  /\ job' = [job EXCEPT ![w] = [Idle EXCEPT !.pc = "next", !.targets = T]]
  /\ UNCHANGED <<env, meta, faults>>

NextTarget(w, i) ==
  /\ job[w].pc = "next"
  /\ i \in job[w].targets
  /\ job' = [job EXCEPT ![w].pc = "ask", ![w].cur = i, ![w].targets = @ \ {i}]
  /\ UNCHANGED <<env, meta, faults>>

\* getProposalMetadata: the answer may have the document, or the anchor only,
\* or be a 404, in which case nothing is known.
AskBlockfrost(w, url) ==
  LET found == source[job[w].cur] = "blockfrost" IN
  /\ job[w].pc = "ask"
  /\ found => url
  /\ url => HasAnchor(job[w].cur)
  /\ job' = [job EXCEPT ![w].pc  = IF found THEN "save" ELSE "anchor",
                        ![w].got = [json |-> found, url |-> url]]
  /\ UNCHANGED <<env, meta, faults>>

\* Blockfrost fails with neither a 404 nor a 429: as if there were none.
AskFails(w) ==
  /\ job[w].pc = "ask"
  /\ faults < MaxFaults
  /\ faults' = faults + 1
  /\ job' = [job EXCEPT ![w].pc = "anchor"]
  /\ UNCHANGED <<env, meta>>

\* A 429, or a failing upsert: the proposal is left for a later run.
TargetFails(w) ==
  /\ job[w].pc \in {"ask", "save"}
  /\ faults < MaxFaults
  /\ faults' = faults + 1
  /\ job' = [job EXCEPT ![w].pc = "next", ![w].cur = None, ![w].got = Nothing]
  /\ UNCHANGED <<env, meta>>

\* getAnchorFromTimeline.  Without an event the URL that Blockfrost gave is
\* stored, and nobody fetches from it.
FindAnchor(w) ==
  LET found == InTimeline(job[w].cur) IN
  /\ job[w].pc = "anchor"
  /\ job' = [job EXCEPT ![w].pc = IF found THEN "fetch" ELSE "save",
                        ![w].got.url = @ \/ found]
  /\ UNCHANGED <<env, meta, faults>>

\* ... whose own catch answers null when the lookup fails.
FindAnchorFails(w) ==
  /\ job[w].pc = "anchor"
  /\ faults < MaxFaults
  /\ faults' = faults + 1
  /\ job' = [job EXCEPT ![w].pc = "save"]
  /\ UNCHANGED <<env, meta>>

\* fetchMetadataManually: the document, if one with the right hash is there.
FetchManually(w) ==
  /\ job[w].pc = "fetch"
  /\ job' = [job EXCEPT ![w].pc = "save",
                        ![w].got.json = (source[job[w].cur] # "dead")]
  /\ UNCHANGED <<env, meta, faults>>

FetchFails(w) ==
  /\ job[w].pc = "fetch"
  /\ faults < MaxFaults
  /\ faults' = faults + 1
  /\ job' = [job EXCEPT ![w].pc = "save"]
  /\ UNCHANGED <<env, meta>>

\* Slip: the failing cases store no error.
SaveWithoutError(w) ==
  LET i == job[w].cur IN
  /\ job[w].pc = "save"
  /\ meta' = [meta EXCEPT ![i] = [json |-> job[w].got.json, url |-> job[w].got.url,
                                  error |-> FALSE]]
  /\ job' = [job EXCEPT ![w].pc = "next", ![w].cur = None, ![w].got = Nothing]
  /\ UNCHANGED <<env, faults>>

\* Slip: the failing cases null the document.
SaveOverDocument(w) ==
  LET i == job[w].cur IN
  /\ job[w].pc = "save"
  /\ meta' = [meta EXCEPT ![i] = [json |-> job[w].got.json, url |-> job[w].got.url,
                                  error |-> ~ job[w].got.json]]
  /\ job' = [job EXCEPT ![w].pc = "next", ![w].cur = None, ![w].got = Nothing]
  /\ UNCHANGED <<env, faults>>

\* The three upserts.  A column an upsert does not name keeps its value.
SaveMetadata(w) ==
  LET i   == job[w].cur
      got == job[w].got
      old == IF meta[i] = None THEN [json |-> FALSE, url |-> FALSE, error |-> FALSE]
             ELSE meta[i]
  IN
  /\ job[w].pc = "save"
  /\ meta' = [meta EXCEPT ![i] = [json  |-> got.json \/ old.json,
                                  url   |-> got.url \/ old.url,
                                  error |-> ~ got.json]]
  /\ job' = [job EXCEPT ![w].pc  = IF w \in Governance THEN "votes" ELSE "next",
                        ![w].cur = IF w \in Governance THEN i ELSE None,
                        ![w].got = Nothing]
  /\ UNCHANGED <<env, faults>>

FinishSync(w) ==
  /\ job[w].pc = "next"
  /\ job[w].targets = {}
  /\ job' = [job EXCEPT ![w] = Idle]
  /\ UNCHANGED <<env, meta, faults>>

\* The selection fails, or the process dies.
RunFails(w) ==
  /\ job[w].pc # "idle"
  /\ faults < MaxFaults
  /\ faults' = faults + 1
  /\ job' = [job EXCEPT ![w] = Idle]
  /\ UNCHANGED <<env, meta>>

\* votesRepository.upsert: Blockfrost gives the voting power of every vote on
\* the proposal, or (known = FALSE) of some of them does not.
SyncVotes(w, known) ==
  LET i == job[w].cur IN
  /\ job[w].pc = "votes"
  /\ unpowered' = IF known THEN unpowered \ {i} ELSE unpowered \cup {i}
  /\ job' = [job EXCEPT ![w].pc = "next", ![w].cur = None]
  /\ UNCHANGED <<source, stored, meta, faults>>

\* Votes sync failed: the loop goes on.
VotesFail(w) ==
  /\ job[w].pc = "votes"
  /\ faults < MaxFaults
  /\ faults' = faults + 1
  /\ job' = [job EXCEPT ![w].pc = "next", ![w].cur = None]
  /\ UNCHANGED <<env, meta>>

\* The DRep votes sync inserts a vote on i, without a voting power.
StoreDRepVote(i) ==
  /\ stored < MaxVotes
  /\ stored' = stored + 1
  /\ unpowered' = unpowered \cup {i}
  /\ UNCHANGED <<source, meta, job, faults>>

RunStep(w) ==
  \/ \E T \in SUBSET Proposal : StartSync(w, T)
  \/ \E i \in Proposal : NextTarget(w, i)
  \/ \E u \in BOOLEAN : AskBlockfrost(w, u) \/ SyncVotes(w, u)
  \/ FindAnchor(w) \/ FetchManually(w) \/ SaveMetadata(w) \/ FinishSync(w)

RunFault(w) ==
  \/ AskFails(w) \/ TargetFails(w) \/ FindAnchorFails(w) \/ FetchFails(w)
  \/ VotesFail(w) \/ RunFails(w)

Next ==
  \/ \E i \in Proposal : StoreDRepVote(i)
  \/ \E w \in Worker : RunStep(w) \/ RunFault(w)

Spec == Init /\ [][Next]_vars

\* The scheduler keeps starting both jobs.
FairSpec == Spec /\ \A w \in Worker : WF_vars(RunStep(w))
-----------------------------------------------------------------------------
TypeOK ==
  /\ source \in [Proposal -> Source]
  /\ unpowered \subseteq Proposal
  /\ stored \in 0..MaxVotes
  /\ meta \in [Proposal -> Row \cup {None}]
  /\ job \in [Worker -> Job]
  /\ \A w \in Worker : job[w].cur = None <=> job[w].pc \in {"idle", "next"}
  /\ faults \in 0..MaxFaults

Available(i) == source[i] \in {"blockfrost", "anchor"}

\* A document once stored survives later runs that fail to fetch it: their
\* upserts set the error and leave the document alone.
JsonKept ==
  [][\A i \in Proposal : meta[i] # None /\ meta[i].json => meta'[i].json]_vars

\* A row is free of an error exactly when its last run got the document, and
\* then it has the document and its anchor.
CleanRowsComplete ==
  \A i \in Proposal :
    meta[i] # None /\ ~ meta[i].error => meta[i].json /\ meta[i].url /\ Available(i)

\* Every document that is to be had ends up stored, without an error, after
\* whatever failures and overlapping runs; the selection limit must leave room
\* for the proposals whose document never arrives.
MetadataSettles ==
  <>[](\A i \in Proposal :
         Available(i) => meta[i] # None /\ meta[i].json /\ ~ meta[i].error)
=============================================================================
