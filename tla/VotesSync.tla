----------------------------- MODULE VotesSync -----------------------------
(***************************************************************************)
(* The votes table and its two writers: drep-votes-sync, which reads the   *)
(* ballots of every DRep from the newest on, and governance-sync, which    *)
(* reads those of a proposal from the oldest on.  Both upsert on the pair  *)
(* (proposal, voter), and neither knows of the other.                      *)
(*                                                                         *)
(* One worker of each runs.  Ballots are numbered as the chain orders      *)
(* them; Blockfrost lists replaced ballots too.                            *)
(***************************************************************************)
EXTENDS Naturals, Sequences, FiniteSets

CONSTANTS
  DRep,        \* DReps in the dreps table
  Other,       \* voters that are no DReps: pools and the committee
  Proposal,    \* proposals in the proposals table
  Eligible,    \* who may vote on what: pools vote on some proposals only
  Documented,  \* proposals whose metadata can be read
  Forcing,     \* values of forceRefresh that drep-votes-sync is started with
  PageSize,    \* entries of a page: 100
  Enough,      \* known votes of a page that end the walk: 80
  VotesLimit,  \* votes of a proposal that end its pages: 500
  MaxBallots,  \* bound: ballots cast
  MaxFaults    \* bound: failed requests and lookups, and crashes, together

ASSUME PageAssumption   == PageSize \in Nat \ {0} /\ Enough \in 0..(PageSize - 1)
ASSUME VoterAssumption  == DRep \cap Other = {}
ASSUME ProposalAssumption == IsFiniteSet(Proposal)
ASSUME ForcingAssumption == Forcing \subseteq BOOLEAN
ASSUME LimitAssumption  == VotesLimit \in Nat /\ MaxBallots \in Nat /\ MaxFaults \in Nat

Voter == DRep \cup Other
Pair  == Proposal \X Voter

ASSUME EligibleAssumption == Eligible \subseteq Pair /\ Documented \subseteq Proposal

VARIABLES
  ballots,   \* the chain: whose ballot on which proposal, in order
  rows,      \* proposal_votes: the ballot and the block time of a pair
  counts,    \* governance_vote_count of every DRep
  clean,     \* proposals whose metadata row is there, without an error
  walk,      \* the job drep-votes-sync
  sweep,     \* the votes of the job governance-sync
  hit,       \* history: DReps whose walk a fault cut short or led astray, or was outrun
  faults     \* number of faults so far

votesVars == <<ballots, rows, counts, clean, walk, sweep, hit, faults>>

\* Ballot 0 is none, time 0 the null block time.
Number == 0..MaxBallots
NoRow  == [ballot |-> 0, time |-> 0]

Of(S)      == {b \in 1..Len(ballots) : ballots[b] \in S}
Replaced   == {p \in Proposal : \E v \in Voter : Cardinality(Of({<<p, v>>})) > 1}
Mine(v)    == Of(Proposal \X {v})
RowsOf(v)  == {p \in Proposal : rows[<<p, v>>] # NoRow}

\* The ballots in S of a source that has not seen the k-th yet.
Before(S, k) == {b \in S : b < k}

\* One page of the ballots in S, as Blockfrost lists them when it is asked.
Places(n)    == ((n - 1) * PageSize)..(n * PageSize - 1)
Oldest(S, n) == {b \in S : Cardinality({c \in S : c < b}) \in Places(n)}
Newest(S, n) == {b \in S : Cardinality({c \in S : c > b}) \in Places(n)}

\* A job with nothing to do waits for the scheduler.  Field cast is history: how
\* many ballots the DRep has cast since the walk came to it.
NoWalk  == [at |-> "next", forced |-> FALSE, todo |-> {}, voter |-> "none", cast |-> 0,
            page |-> 1, list |-> {}, left |-> {}, known |-> 0, synced |-> 0]
NoSweep == [at |-> "next", todo |-> {}, proposal |-> "none", page |-> 1, list |-> {}, count |-> 0]

VotesInit ==
  /\ ballots = <<>>
  /\ rows = [pair \in Pair |-> NoRow]
  /\ counts = [d \in DRep |-> 0]
  /\ clean \in SUBSET Documented
  /\ walk = NoWalk
  /\ sweep = NoSweep
  /\ hit = {}
  /\ faults = 0

Fault == faults < MaxFaults /\ faults' = faults + 1

\* Every ballot moves the earlier ones of its DRep down the pages.  After more
\* than Enough of them, a walk under way may meet as many rows of its own, and
\* stop.
Reading(v)  == walk.at \in {"page", "vote"} /\ walk.voter = v
Counting(v) == Reading(v) /\ ~ walk.forced

CastBallot(pair) ==
  /\ Len(ballots) < MaxBallots
  /\ ballots' = Append(ballots, pair)
  /\ IF Counting(pair[2])
     THEN \/ walk.cast < Enough /\ walk' = [walk EXCEPT !.cast = @ + 1] /\ UNCHANGED hit
          \/ walk.cast = Enough /\ hit' = hit \cup {pair[2]} /\ UNCHANGED walk
     ELSE UNCHANGED <<walk, hit>>
  /\ UNCHANGED <<rows, counts, clean, sweep, faults>>

-----------------------------------------------------------------------------
(***************************************************************************)
(* drep-votes-sync.                                                        *)
(***************************************************************************)
walkFrame == <<ballots, clean, sweep>>

StartWalk ==
  /\ walk = NoWalk
  /\ \E force \in Forcing : walk' = [NoWalk EXCEPT !.todo = DRep, !.forced = force]
  /\ UNCHANGED <<walkFrame, rows, counts, hit, faults>>

\* The next DRep: they come by voting power, which is any order here.
NextDRep ==
  /\ walk.at = "next"
  /\ \E d \in walk.todo :
       walk' = [NoWalk EXCEPT !.at = "page", !.forced = walk.forced, !.todo = walk.todo \ {d},
                              !.voter = d]
  /\ UNCHANGED <<walkFrame, rows, counts, hit, faults>>

WalkRead == [walk EXCEPT !.at = "count", !.cast = 0, !.page = 1, !.list = {}, !.known = 0]

\* A page of ballots, the newest first.  An empty one ends the walk.
HearBallots(list) ==
  walk' = IF list = {} THEN WalkRead
          ELSE [walk EXCEPT !.at = "vote", !.list = list, !.left = list]

FetchBallots ==
  /\ walk.at = "page"
  /\ HearBallots(Newest(Mine(walk.voter), walk.page))
  /\ UNCHANGED <<walkFrame, rows, counts, hit, faults>>

\* The call is answered by a source behind the chain: its pages do not join
\* those of the other source.
BallotsBehind ==
  /\ walk.at = "page"
  /\ Fault
  /\ \E k \in 1..Len(ballots) : HearBallots(Newest(Before(Mine(walk.voter), k), walk.page))
  /\ hit' = hit \cup {walk.voter}
  /\ UNCHANGED <<walkFrame, rows, counts>>

\* A page that fails ends the walk of this DRep.
BallotsFail ==
  /\ walk.at = "page"
  /\ Fault
  /\ walk' = WalkRead
  /\ hit' = hit \cup {walk.voter}
  /\ UNCHANGED <<walkFrame, rows, counts>>

\* The next vote of the page, the newest of those left.  Its lookup, the query for
\* its transaction and its upsert are one action: what happens between them is what
\* happens before or after, as the sweep writes no block time and casts only add.
IsNext(b) == b \in walk.left /\ \A c \in walk.left : c <= b

\* One whose ballot has its row and its block time is known; the others are
\* upserted, with the time if the lookup finds it.
Known(b) == rows[ballots[b]].ballot = b /\ rows[ballots[b]].time # 0

\* Slip: only a new row is counted as written.
TakeVoteNewOnly ==
  /\ walk.at = "vote"
  /\ \E b \in walk.left :
       /\ IsNext(b)
       /\ IF Known(b)
          THEN /\ walk' = [walk EXCEPT !.left = @ \ {b}, !.known = @ + 1]
               /\ UNCHANGED rows
          ELSE /\ walk' = [walk EXCEPT !.left = @ \ {b},
                                      !.synced = IF rows[ballots[b]] = NoRow THEN @ + 1 ELSE @]
               /\ rows' = [rows EXCEPT ![ballots[b]] = [ballot |-> b, time |-> b]]
  /\ UNCHANGED <<walkFrame, counts, hit, faults>>

TakeVote ==
  /\ walk.at = "vote"
  /\ \E b \in walk.left :
       /\ IsNext(b)
       /\ IF Known(b)
          THEN /\ walk' = [walk EXCEPT !.left = @ \ {b}, !.known = @ + 1]
               /\ UNCHANGED rows
          ELSE /\ walk' = [walk EXCEPT !.left = @ \ {b}, !.synced = @ + 1]
               /\ rows' = [rows EXCEPT ![ballots[b]] = [ballot |-> b, time |-> b]]
  /\ UNCHANGED <<walkFrame, counts, hit, faults>>

\* The lookup of the transaction fails, or the upsert does.
VoteFails ==
  /\ walk.at = "vote"
  /\ Fault
  /\ \E b \in walk.left :
       /\ IsNext(b) /\ ~ Known(b)
       /\ \/ /\ rows' = [rows EXCEPT ![ballots[b]] = [ballot |-> b, time |-> 0]]
             /\ walk' = [walk EXCEPT !.left = @ \ {b}, !.synced = @ + 1]
          \/ /\ walk' = [walk EXCEPT !.left = @ \ {b}]
             /\ UNCHANGED rows
  /\ hit' = hit \cup {walk.voter}
  /\ UNCHANGED <<walkFrame, counts>>

\* Slip: as many known votes as may be rows of this walk end it.
LastPageEarly == \/ walk.known >= Enough /\ ~ walk.forced
                 \/ Cardinality(walk.list) < PageSize

LastPage == \/ walk.known > Enough /\ ~ walk.forced
            \/ Cardinality(walk.list) < PageSize

TurnPage ==
  /\ walk.at = "vote" /\ walk.left = {}
  /\ walk' = IF LastPage THEN WalkRead
             ELSE [walk EXCEPT !.at = "page", !.page = @ + 1, !.list = {}, !.known = 0]
  /\ UNCHANGED <<walkFrame, rows, counts, hit, faults>>

WalkedOne == [NoWalk EXCEPT !.todo = walk.todo, !.forced = walk.forced /\ walk.todo # {}]

\* Slip: the rows written are added to the count.
CountVotesAdding ==
  /\ walk.at = "count"
  /\ counts' = [counts EXCEPT ![walk.voter] = @ + walk.synced]
  /\ walk' = WalkedOne
  /\ UNCHANGED <<walkFrame, rows, hit, faults>>

\* The count is taken from the table, when a row was written.
CountVotes ==
  /\ walk.at = "count"
  /\ counts' = IF walk.synced = 0 THEN counts
               ELSE [counts EXCEPT ![walk.voter] = Cardinality(RowsOf(walk.voter))]
  /\ walk' = WalkedOne
  /\ UNCHANGED <<walkFrame, rows, hit, faults>>

\* The process stops; the job starts again from its first DRep.
WalkCrashes ==
  /\ walk # NoWalk
  /\ Fault
  /\ walk' = NoWalk
  /\ hit' = hit \cup ({walk.voter} \cap DRep)
  /\ UNCHANGED <<walkFrame, rows, counts>>

(***************************************************************************)
(* The votes of governance-sync.                                           *)
(***************************************************************************)
sweepFrame == <<ballots, counts, walk, hit>>

\* Proposals without clean metadata, and those with the row of a DRep whose
\* voting power is null: neither writer ever has one to store.
Targets == {p \in Proposal : p \notin clean \/ \E d \in DRep : rows[<<p, d>>] # NoRow}

\* Slip: a proposal with clean metadata is done with.
StartSweepUnclean ==
  /\ sweep = NoSweep
  /\ sweep' = [NoSweep EXCEPT !.todo = Proposal \ clean]
  /\ UNCHANGED <<sweepFrame, rows, clean, faults>>

StartSweep ==
  /\ sweep = NoSweep
  /\ sweep' = [NoSweep EXCEPT !.todo = Targets]
  /\ UNCHANGED <<sweepFrame, rows, clean, faults>>

\* The next proposal; its metadata row is written, clean if the document was
\* read, or is left as it is.  See MetadataSync.
NextProposal ==
  /\ sweep.at = "next"
  /\ \E p \in sweep.todo :
       /\ sweep' = [NoSweep EXCEPT !.at = "page", !.todo = sweep.todo \ {p}, !.proposal = p]
       /\ clean' \in {clean, clean \cup ({p} \cap Documented)}
  /\ UNCHANGED <<sweepFrame, rows, faults>>

SweptOne == [NoSweep EXCEPT !.todo = sweep.todo]

\* A page of votes, the oldest first.
HearVotes(list) ==
  sweep' = IF list = {} THEN SweptOne ELSE [sweep EXCEPT !.at = "write", !.list = list]

FetchVotes ==
  /\ sweep.at = "page"
  /\ HearVotes(Oldest(Of({sweep.proposal} \X Voter), sweep.page))
  /\ UNCHANGED <<sweepFrame, rows, clean, faults>>

\* ... or is answered by a source behind the chain.
VotesBehind ==
  /\ sweep.at = "page"
  /\ Fault
  /\ \E k \in 1..Len(ballots) :
       HearVotes(Oldest(Before(Of({sweep.proposal} \X Voter), k), sweep.page))
  /\ UNCHANGED <<sweepFrame, rows, clean>>

\* The request fails, or the metadata request was refused by the rate limit.
VotesFail ==
  /\ sweep.at = "page"
  /\ Fault
  /\ sweep' = SweptOne
  /\ UNCHANGED <<sweepFrame, rows, clean>>

Twice == \E b, c \in sweep.list : b # c /\ ballots[b] = ballots[c]

AfterPage ==
  LET total == sweep.count + Cardinality(sweep.list) IN
  IF Cardinality(sweep.list) < PageSize \/ total >= VotesLimit
  THEN SweptOne
  ELSE [sweep EXCEPT !.at = "page", !.list = {}, !.page = @ + 1, !.count = total]

\* One statement upserts the page, and leaves the block times as they are.
\* The database refuses it when the page has two ballots of one pair, and
\* the rest of the proposal is skipped.
WriteVotes ==
  /\ sweep.at = "write"
  /\ IF Twice
     THEN sweep' = SweptOne /\ UNCHANGED rows
     ELSE /\ sweep' = AfterPage
          /\ rows' = [pair \in Pair |->
                        IF Of({pair}) \cap sweep.list # {}
                        THEN [rows[pair] EXCEPT !.ballot = CHOOSE b \in Of({pair}) \cap sweep.list : TRUE]
                        ELSE rows[pair]]
  /\ UNCHANGED <<sweepFrame, clean, faults>>

SweepCrashes ==
  /\ sweep # NoSweep
  /\ Fault
  /\ sweep' = NoSweep
  /\ UNCHANGED <<sweepFrame, rows, clean>>

Walk  == StartWalk \/ NextDRep \/ FetchBallots \/ TakeVote \/ TurnPage \/ CountVotes
Sweep == StartSweep \/ NextProposal \/ FetchVotes \/ WriteVotes

VotesNext ==
  \/ \E pair \in Eligible : CastBallot(pair)
  \/ Walk \/ BallotsFail \/ BallotsBehind \/ VoteFails \/ WalkCrashes
  \/ Sweep \/ VotesFail \/ VotesBehind \/ SweepCrashes

VotesSpec == VotesInit /\ [][VotesNext]_votesVars

\* The scheduler starts both jobs again and again, and a worker goes on.
VotesFairSpec == VotesSpec /\ WF_votesVars(Walk) /\ WF_votesVars(Sweep)
-----------------------------------------------------------------------------
\* Every variable has its type; a row is made of ballots of its own pair, the
\* one it shows and the one its block time is from; only DReps get a time; and
\* a count is never above the number of proposals.
VotesTypeOK ==
  /\ ballots \in Seq(Pair) /\ Len(ballots) \in Number
  /\ DOMAIN rows = Pair
  /\ \A pair \in Pair :
       /\ {rows[pair].ballot, rows[pair].time} \subseteq Of({pair}) \cup {0}
       /\ rows[pair].time # 0 => rows[pair].ballot # 0 /\ pair[2] \in DRep
  /\ counts \in [DRep -> 0..Cardinality(Proposal)]
  /\ clean \subseteq Documented
  /\ walk.at \in {"next", "page", "vote", "count"} /\ walk.todo \subseteq DRep
  /\ sweep.at \in {"next", "page", "write"} /\ sweep.todo \subseteq Proposal
  /\ hit \subseteq DRep /\ faults \in 0..MaxFaults

Revoted(v) == \E p \in Proposal : Cardinality(Of({<<p, v>>})) > 1
Timed(v)   == {b \in Mine(v) : rows[ballots[b]].time # 0}

\* A walk stops at a page it knows, because it takes the earlier ballots for
\* known too.  They are: between walks, no ballot with its block time comes
\* after one without, although walks stop early, ballots are cast while they
\* read, and the sweep writes the same rows.  Not so for a DRep that replaced a
\* ballot (the new one may count as known for the time of the old), or whose
\* walk a fault cut short or a source behind the chain led astray, or that outran
\* one by more ballots than Enough.
NoneOvertaken ==
  \A d \in DRep \ hit :
    ~ Revoted(d) /\ ~ Reading(d) =>
      \A b \in Timed(d), c \in Mine(d) : c < b => c \in Timed(d)

\* Whoever votes is found in the table in the end.  Again and again all ballots
\* of a DRep are, by one of the two jobs, with the exceptions of NoneOvertaken;
\* one of any other voter is by the sweep, unless the proposal has clean metadata
\* and no DRep's row, one voter's two ballots stop the sweep on a page, or the
\* proposal has more votes than the sweep reads.
BallotsFound ==
  /\ \A d \in DRep :
       []<>(\/ d \in hit \/ Revoted(d)
            \/ \A p \in Proposal : Of({<<p, d>>}) # {} => rows[<<p, d>>] # NoRow)
  /\ \A pair \in Eligible \ (Proposal \X DRep) :
       LET p == pair[1]
       IN  Of({pair}) # {} ~> \/ rows[pair] # NoRow
                              \/ p \notin Targets \/ p \in Replaced
                              \/ Cardinality(Of({p} \X Voter)) > VotesLimit

\* The number of votes shown of a DRep comes to be the number of its rows,
\* although governance-sync adds rows and counts none, with the exceptions of
\* NoneOvertaken.
CountsFollow ==
  \A d \in DRep : <>[](counts[d] = Cardinality(RowsOf(d)) \/ d \in hit \/ Revoted(d))
=============================================================================
