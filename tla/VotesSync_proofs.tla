--------------------------- MODULE VotesSync_proofs ---------------------------
(***************************************************************************)
(* The types of the votes and of their two writers, and that a walk that   *)
(* stops early misses nothing, for any number of voters, proposals,        *)
(* ballots and faults, and any size of a page.                             *)
(***************************************************************************)
EXTENDS VotesSync, TLAPS, FiniteSetTheorems

USE LimitAssumption

\* Whoever is walked is a DRep, and what is left of a page are ballots of its.
Named ==
  /\ walk.at # "next" => walk.voter \in DRep
  /\ walk.left \subseteq Of(Proposal \X {walk.voter})

\* The records of the table and of the two jobs.
Walks  == [at : {"next", "page", "vote", "count"}, forced : BOOLEAN, todo : SUBSET DRep,
           voter : DRep \cup {"none"}, cast : Nat, page : Nat \ {0}, list : SUBSET (1..MaxBallots),
           left : SUBSET (1..MaxBallots), known : Nat, synced : Nat]
Sweeps == [at : {"next", "page", "write"}, todo : SUBSET Proposal, proposal : Proposal \cup {"none"},
           page : Nat, list : SUBSET (1..MaxBallots), count : Nat]

Records ==
  /\ rows \in [Pair -> [ballot : Number, time : Number]]
  /\ walk \in Walks
  /\ sweep \in Sweeps

\* Inductive: that a row is made of ballots of its own pair, and bears a time
\* for DReps only, depends on what the walk holds of a page read before.
VotesInv == VotesTypeOK /\ Records /\ Named

LEMMA VotesFirst == VotesInit => VotesInv
  <1> SUFFICES ASSUME VotesInit PROVE VotesInv
    OBVIOUS
  <1>1. /\ NoWalk \in Walks /\ NoSweep \in Sweeps
        /\ NoRow \in [ballot : Number, time : Number] /\ NoRow.ballot = 0 /\ NoRow.time = 0
    BY DEF NoWalk, NoSweep, NoRow, Number, Walks, Sweeps
  <1>2. Records
    BY <1>1 DEF VotesInit, Records
  <1>3. Named
    BY DEF VotesInit, Named, NoWalk
  <1>4. VotesTypeOK
    <2>1. ballots \in Seq(Pair) /\ Len(ballots) \in Number
      BY DEF VotesInit, Number
    <2>2. \A pair \in Pair : rows[pair].ballot = 0 /\ rows[pair].time = 0
      BY <1>1 DEF VotesInit
    <2>3. counts \in [DRep -> 0..Cardinality(Proposal)]
      BY ProposalAssumption, FS_CardinalityType DEF VotesInit
    <2>4. /\ DOMAIN rows = Pair /\ clean \subseteq Documented
          /\ walk.at \in {"next", "page", "vote", "count"} /\ walk.todo \subseteq DRep
          /\ sweep.at \in {"next", "page", "write"} /\ sweep.todo \subseteq Proposal
          /\ hit \subseteq DRep /\ faults \in 0..MaxFaults
      BY DEF VotesInit, NoWalk, NoSweep
    <2> QED BY <2>1, <2>2, <2>3, <2>4 DEF VotesTypeOK
  <1> QED BY <1>2, <1>3, <1>4 DEF VotesInv

-----------------------------------------------------------------------------
(***************************************************************************)
(* The walk over a DRep's votes.                                           *)
(***************************************************************************)
\* The records a step of the walk makes of another one.
LEMMA WalkRecords ==
  ASSUME NEW w \in Walks, NEW b
  PROVE  /\ [w EXCEPT !.cast = @ + 1] \in Walks
         /\ [w EXCEPT !.at = "count", !.cast = 0, !.page = 1, !.list = {}, !.known = 0] \in Walks
         /\ [w EXCEPT !.at = "page", !.page = @ + 1, !.list = {}, !.known = 0] \in Walks
         /\ [w EXCEPT !.left = @ \ {b}, !.known = @ + 1] \in Walks
         /\ [w EXCEPT !.left = @ \ {b}, !.synced = @ + 1] \in Walks
         /\ [w EXCEPT !.left = @ \ {b}] \in Walks
  <1>1. /\ w.page + 1 \in Nat \ {0} /\ w.known + 1 \in Nat /\ w.synced + 1 \in Nat
        /\ w.cast + 1 \in Nat /\ w.left \ {b} \in SUBSET (1..MaxBallots)
    BY DEF Walks
  <1>2. [w EXCEPT !.at = "count", !.cast = 0, !.page = 1, !.list = {}, !.known = 0] \in Walks
    <2>1. [w EXCEPT !.at = "count", !.cast = 0] \in Walks
      BY DEF Walks
    <2>2. PICK x \in Walks : x = [w EXCEPT !.at = "count", !.cast = 0]
      BY <2>1
    <2>3. 1 \in Nat \ {0} /\ {} \in SUBSET (1..MaxBallots)
      OBVIOUS
    <2>4. [x EXCEPT !.page = 1, !.list = {}, !.known = 0] \in Walks
      BY <2>3 DEF Walks
    <2> QED BY <2>2, <2>4
  <1>3. [w EXCEPT !.at = "page", !.page = @ + 1, !.list = {}, !.known = 0] \in Walks
    BY <1>1 DEF Walks
  <1>4. [w EXCEPT !.left = @ \ {b}] \in Walks
    BY <1>1 DEF Walks
  <1>5. [w EXCEPT !.left = @ \ {b}, !.known = @ + 1] \in Walks
    BY <1>1 DEF Walks
  <1>6. [w EXCEPT !.left = @ \ {b}, !.synced = @ + 1] \in Walks
    BY <1>1 DEF Walks
  <1>7. [w EXCEPT !.cast = @ + 1] \in Walks
    BY <1>1 DEF Walks
  <1> QED BY <1>2, <1>3, <1>4, <1>5, <1>6, <1>7

LEMMA FreshRecords ==
  /\ NoWalk \in Walks
  /\ \A todo \in SUBSET DRep, force \in BOOLEAN :
       /\ [NoWalk EXCEPT !.todo = todo, !.forced = force] \in Walks
       /\ \A d \in DRep :
            [NoWalk EXCEPT !.at = "page", !.forced = force, !.todo = todo, !.voter = d] \in Walks
  <1>1. 1 \in Nat \ {0} /\ {} \in SUBSET (1..MaxBallots) /\ FALSE \in BOOLEAN
    OBVIOUS
  <1>2. NoWalk \in Walks
    BY <1>1 DEF NoWalk, Walks
  <1>3. PICK w \in Walks : w = NoWalk
    BY <1>2
  <1>4. ASSUME NEW todo \in SUBSET DRep, NEW force \in BOOLEAN
        PROVE  /\ [w EXCEPT !.todo = todo, !.forced = force] \in Walks
               /\ \A d \in DRep :
                    [w EXCEPT !.at = "page", !.forced = force, !.todo = todo, !.voter = d] \in Walks
    BY <1>4 DEF Walks
  <1> QED BY <1>2, <1>3, <1>4

\* A ballot is cast: it joins those of its voter, and none leaves.
LEMMA CastKeeps ==
  ASSUME VotesInv, NEW p \in Eligible, CastBallot(p)
  PROVE  VotesInv'
  <1>1. /\ ballots \in Seq(Pair) /\ p \in Pair /\ Len(ballots) < MaxBallots
        /\ ballots' = Append(ballots, p)
        /\ UNCHANGED <<rows, counts, clean, sweep, faults>>
    BY EligibleAssumption DEF CastBallot, VotesInv, VotesTypeOK
  <1>2. ballots' \in Seq(Pair) /\ Len(ballots') \in Number
    BY <1>1 DEF Number
  <1>3. \A S : Of(S) \subseteq Of(S)'
    BY <1>1 DEF Of
  <1>4. PICK w \in Walks : w = walk
    BY DEF VotesInv, Records
  <1>5. /\ walk' = w \/ walk' = [w EXCEPT !.cast = @ + 1]
        /\ hit' = hit \/ (hit' = hit \cup {w.voter} /\ w.at # "next")
    <2>1. CASE Counting(p[2])
      <3>1. w.voter = p[2] /\ w.at # "next"
        BY <1>4, <2>1 DEF Counting, Reading
      <3> QED BY <1>4, <2>1, <3>1 DEF CastBallot
    <2>2. CASE ~ Counting(p[2])
      <3>1. UNCHANGED <<walk, hit>>
        BY <2>2, Zenon DEF CastBallot
      <3> QED BY <1>4, <3>1
    <2> QED BY <2>1, <2>2
  <1>6. walk' \in Walks
    BY <1>5, WalkRecords
  <1>7. walk'.at = w.at /\ walk'.voter = w.voter /\ walk'.left = w.left
    BY <1>5 DEF Walks
  <1>8. hit' \subseteq DRep
    BY <1>4, <1>5 DEF VotesInv, VotesTypeOK, Named
  <1>9. VotesTypeOK'
    <2>1. \A pair \in Pair : {rows'[pair].ballot, rows'[pair].time} \subseteq Of({pair})' \cup {0}
      BY <1>1, <1>3 DEF VotesInv, VotesTypeOK
    <2>2. walk'.at \in {"next", "page", "vote", "count"} /\ walk'.todo \subseteq DRep
      BY <1>6 DEF Walks
    <2> QED BY <1>1, <1>2, <1>8, <2>1, <2>2 DEF VotesInv, VotesTypeOK
  <1>10. Records' /\ Named'
    <2>1. walk.left \subseteq Of(Proposal \X {walk.voter})
      BY DEF VotesInv, Named
    <2>2. PICK v : v = walk.voter
      OBVIOUS
    <2>3. walk'.left \subseteq Of(Proposal \X {v})' /\ walk'.voter = v
      BY <1>3, <1>4, <1>7, <2>1, <2>2
    <2>4. walk'.at # "next" => walk'.voter \in DRep
      BY <1>4, <1>7 DEF VotesInv, Named
    <2> QED BY <1>1, <1>6, <2>3, <2>4 DEF VotesInv, Records, Named, Of
  <1> QED BY <1>9, <1>10 DEF VotesInv

\* A step of the walk that writes no row and no count.
LEMMA WalkMoves ==
  ASSUME VotesInv, UNCHANGED <<ballots, rows, counts, clean, sweep>>,
         walk' \in Walks, hit' \subseteq DRep, faults' \in 0..MaxFaults,
         walk'.at # "next" => walk'.voter \in DRep,
         walk'.left \subseteq Of(Proposal \X {walk'.voter})
  PROVE  VotesInv'
  <1>1. VotesTypeOK'
    BY DEF VotesInv, VotesTypeOK, Of, Walks
  <1>2. Records' /\ Named'
    BY DEF VotesInv, Records, Named, Of
  <1> QED BY <1>1, <1>2 DEF VotesInv

LEMMA WalkFacts ==
  ASSUME VotesInv
  PROVE  /\ walk \in Walks /\ walk.at \in {"next", "page", "vote", "count"}
         /\ walk.todo \subseteq DRep
         /\ walk.at # "next" => walk.voter \in DRep
         /\ walk.left \subseteq Of(Proposal \X {walk.voter})
         /\ hit \subseteq DRep /\ faults \in 0..MaxFaults
         /\ \A S : Of(S) \subseteq 1..MaxBallots
  <1>1. walk \in Walks
    BY DEF VotesInv, Records
  <1>2. ASSUME NEW S PROVE Of(S) \subseteq 1..MaxBallots
    <2>1. Len(ballots) \in 0..MaxBallots
      BY DEF VotesInv, VotesTypeOK, Number
    <2> QED BY <2>1 DEF Of
  <1> QED BY <1>1, <1>2 DEF VotesInv, Named, VotesTypeOK

LEMMA WalkKeeps ==
  ASSUME VotesInv,
         \/ StartWalk \/ NextDRep \/ FetchBallots \/ BallotsFail \/ BallotsBehind
         \/ TurnPage \/ WalkCrashes
  PROVE  VotesInv'
  <1>1. Fault => faults' \in 0..MaxFaults
    BY WalkFacts DEF Fault
  <1>2. CASE StartWalk
    <2>1. PICK force \in BOOLEAN : walk' = [NoWalk EXCEPT !.todo = DRep, !.forced = force]
      BY <1>2, ForcingAssumption DEF StartWalk
    <2>2. walk' \in Walks
      BY <2>1, FreshRecords
    <2>3. walk'.at = "next" /\ walk'.left = {}
      BY <2>1 DEF NoWalk
    <2> QED BY <1>2, <2>2, <2>3, WalkFacts, WalkMoves DEF StartWalk, walkFrame
  <1>3. CASE NextDRep
    <2>1. walk' \in Walks /\ walk'.voter \in DRep /\ walk'.left = {}
      <3>1. PICK d \in walk.todo :
              walk' = [NoWalk EXCEPT !.at = "page", !.forced = walk.forced,
                                     !.todo = walk.todo \ {d}, !.voter = d]
        BY <1>3 DEF NextDRep
      <3>2. walk.forced \in BOOLEAN
        BY WalkFacts DEF Walks
      <3>3. walk' \in Walks
        BY <3>1, <3>2, WalkFacts, FreshRecords
      <3>4. walk'.voter = d /\ walk'.left = {} /\ d \in DRep
        BY <3>1, WalkFacts DEF NoWalk
      <3> QED BY <3>3, <3>4
    <2> QED BY <1>3, <2>1, WalkFacts, WalkMoves DEF NextDRep, walkFrame
  <1> DEFINE S == Of(Proposal \X {walk.voter})
  <1>0. WalkRead \in Walks /\ WalkRead.voter = walk.voter /\ WalkRead.left = walk.left
    <2>1. PICK w \in Walks : w = walk
      BY WalkFacts
    <2>2. WalkRead = [w EXCEPT !.at = "count", !.cast = 0, !.page = 1, !.list = {}, !.known = 0]
      BY <2>1 DEF WalkRead
    <2>3. WalkRead \in Walks
      BY <2>1, <2>2, WalkRecords
    <2>4. WalkRead.voter = w.voter /\ WalkRead.left = w.left
      BY <2>2 DEF Walks
    <2> QED BY <2>1, <2>3, <2>4
  <1>4. CASE FetchBallots \/ BallotsBehind
    <2>1. PICK list : /\ list \subseteq S
                      /\ walk' = IF list = {} THEN WalkRead
                                 ELSE [walk EXCEPT !.at = "vote", !.list = list, !.left = list]
      <3>1. Newest(S, walk.page) \subseteq S
        BY DEF Newest
      <3>2. \A k : Newest(Before(S, k), walk.page) \subseteq S
        BY DEF Newest, Before
      <3>3. CASE FetchBallots
        BY <3>1, <3>3 DEF FetchBallots, HearBallots, Mine
      <3>4. CASE BallotsBehind
        BY <3>2, <3>4 DEF BallotsBehind, HearBallots, Mine
      <3> QED BY <1>4, <3>3, <3>4
    <2>2. S \subseteq 1..MaxBallots /\ walk.left \subseteq S
      BY WalkFacts
    <2> HIDE DEF S
    <2>3. walk' \in Walks /\ walk'.voter = walk.voter /\ walk'.left \subseteq S
      BY <1>0, <2>1, <2>2, WalkFacts DEF Walks
    <2>4. walk.at # "next" /\ walk.voter \in DRep
      BY <1>4, WalkFacts DEF FetchBallots, BallotsBehind
    <2>5. /\ UNCHANGED <<ballots, clean, sweep, rows, counts>>
          /\ faults' \in 0..MaxFaults /\ hit' \subseteq hit \cup {walk.voter}
      BY <1>1, <1>4, WalkFacts DEF FetchBallots, BallotsBehind, walkFrame
    <2> QED BY <2>3, <2>4, <2>5, WalkFacts, WalkMoves DEF S
  <1>5. CASE BallotsFail
    <2>1. walk.voter \in DRep /\ walk' = WalkRead
      BY <1>5, WalkFacts DEF BallotsFail
    <2> QED BY <1>0, <1>1, <1>5, <2>1, WalkFacts, WalkMoves DEF BallotsFail, walkFrame
  <1>6. CASE TurnPage
    <2>1. walk' \in Walks /\ walk'.voter = walk.voter /\ walk'.left = {}
      <3>1. PICK w \in Walks : w = walk
        BY WalkFacts
      <3>2. \/ walk' = WalkRead
            \/ walk' = [w EXCEPT !.at = "page", !.page = @ + 1, !.list = {}, !.known = 0]
        BY <1>6, <3>1 DEF TurnPage
      <3>3. w.left = {}
        BY <1>6, <3>1 DEF TurnPage
      <3>4. CASE walk' = WalkRead
        BY <1>0, <3>1, <3>3, <3>4
      <3>5. CASE walk' = [w EXCEPT !.at = "page", !.page = @ + 1, !.list = {}, !.known = 0]
        <4>1. walk' \in Walks
          BY <3>5, WalkRecords
        <4>2. walk'.voter = w.voter /\ walk'.left = w.left
          BY <3>5 DEF Walks
        <4> QED BY <3>1, <3>3, <4>1, <4>2
      <3> QED BY <3>2, <3>4, <3>5
    <2>2. walk.voter \in DRep
      BY <1>6, WalkFacts DEF TurnPage
    <2> QED BY <1>6, <2>1, <2>2, WalkFacts, WalkMoves DEF TurnPage, walkFrame
  <1>7. CASE WalkCrashes
    <2>1. walk' \in Walks /\ walk'.at = "next" /\ walk'.left = {}
      BY <1>7 DEF WalkCrashes, NoWalk, Walks
    <2> QED BY <1>1, <1>7, <2>1, WalkFacts, WalkMoves DEF WalkCrashes, walkFrame
  <1> QED BY <1>2, <1>3, <1>4, <1>5, <1>6, <1>7

\* A vote of the page: its row is made of its own ballot, and bears a time
\* because its voter is a DRep.
LEMMA VoteKeeps ==
  ASSUME VotesInv, TakeVote \/ VoteFails
  PROVE  VotesInv'
  <1>1. /\ UNCHANGED <<ballots, counts, clean, sweep>>
        /\ walk.at = "vote" /\ faults' \in 0..MaxFaults
        /\ hit' = hit \/ hit' = hit \cup {walk.voter}
    <2>1. CASE TakeVote
      BY <2>1, WalkFacts DEF TakeVote, walkFrame
    <2>2. CASE VoteFails
      <3>1. faults' \in 0..MaxFaults
        <4>1. faults' = faults + 1 /\ faults < MaxFaults /\ faults \in 0..MaxFaults
          BY <2>2, WalkFacts DEF VoteFails, Fault
        <4> QED BY <4>1
      <3> QED BY <2>2, <3>1 DEF VoteFails, walkFrame
    <2> QED BY <2>1, <2>2
  <1>2. PICK b \in walk.left :
          /\ \/ UNCHANGED rows
             \/ \E t \in {0, b} : rows' = [rows EXCEPT ![ballots[b]] = [ballot |-> b, time |-> t]]
          /\ \/ walk' = [walk EXCEPT !.left = @ \ {b}, !.known = @ + 1]
             \/ walk' = [walk EXCEPT !.left = @ \ {b}, !.synced = @ + 1]
             \/ walk' = [walk EXCEPT !.left = @ \ {b}]
    BY DEF TakeVote, VoteFails
  <1>3. /\ walk.voter \in DRep /\ hit' \subseteq DRep
        /\ b \in Of(Proposal \X {walk.voter})
    BY <1>1, WalkFacts
  <1>4. /\ b \in 1..Len(ballots) /\ b # 0 /\ b \in Number
        /\ ballots[b] \in Pair /\ ballots[b][2] \in DRep
        /\ b \in Of({ballots[b]})
    <2>1. b \in 1..Len(ballots) /\ ballots[b] \in Proposal \X {walk.voter}
      BY <1>3 DEF Of
    <2>2. Len(ballots) \in 0..MaxBallots /\ ballots \in Seq(Pair)
      BY DEF VotesInv, VotesTypeOK, Number
    <2>3. b \in Number /\ b # 0
      BY <2>1, <2>2 DEF Number
    <2>4. ballots[b] \in Pair /\ ballots[b][2] \in DRep
      BY <1>3, <2>1, <2>2
    <2> QED BY <2>1, <2>3, <2>4 DEF Of
  <1>5. /\ walk' \in Walks /\ walk'.voter = walk.voter /\ walk'.at = walk.at
        /\ walk'.left \subseteq walk.left
    <2>1. walk' \in Walks
      <3>1. PICK w \in Walks : w = walk
        BY WalkFacts
      <3>2. \/ walk' = [w EXCEPT !.left = @ \ {b}, !.known = @ + 1]
            \/ walk' = [w EXCEPT !.left = @ \ {b}, !.synced = @ + 1]
            \/ walk' = [w EXCEPT !.left = @ \ {b}]
        BY <1>2, <3>1
      <3>3. /\ [w EXCEPT !.left = @ \ {b}, !.known = @ + 1] \in Walks
            /\ [w EXCEPT !.left = @ \ {b}, !.synced = @ + 1] \in Walks
            /\ [w EXCEPT !.left = @ \ {b}] \in Walks
        BY WalkRecords, Zenon
      <3> QED BY <3>2, <3>3, Zenon
    <2>2. walk'.voter = walk.voter /\ walk'.at = walk.at /\ walk'.left = walk.left \ {b}
      BY <1>2, WalkFacts DEF Walks
    <2> QED BY <2>1, <2>2
  <1>6. rows' \in [Pair -> [ballot : Number, time : Number]]
    <2>1. \A t \in {0, b} : [ballot |-> b, time |-> t] \in [ballot : Number, time : Number]
      BY <1>4 DEF Number
    <2> QED BY <1>2, <1>4, <2>1 DEF VotesInv, Records
  <1>7. ASSUME NEW pair \in Pair
        PROVE  /\ {rows'[pair].ballot, rows'[pair].time} \subseteq Of({pair}) \cup {0}
               /\ rows'[pair].time # 0 => rows'[pair].ballot # 0 /\ pair[2] \in DRep
    <2>1. CASE rows'[pair] = rows[pair]
      BY <2>1 DEF VotesInv, VotesTypeOK
    <2>2. CASE rows'[pair] # rows[pair]
      <3>1. /\ pair = ballots[b]
            /\ rows'[pair].ballot = b /\ rows'[pair].time \in {0, b}
        BY <1>2, <1>4, <2>2 DEF VotesInv, Records
      <3> QED BY <1>4, <3>1
    <2> QED BY <2>1, <2>2
  <1>8. VotesTypeOK'
    <2>1. \A pair \in Pair : Of({pair})' = Of({pair})
      BY <1>1 DEF Of
    <2>2. DOMAIN rows' = Pair
      BY <1>6
    <2>3. \A pair \in Pair :
            /\ {rows'[pair].ballot, rows'[pair].time} \subseteq Of({pair})' \cup {0}
            /\ rows'[pair].time # 0 => rows'[pair].ballot # 0 /\ pair[2] \in DRep
      BY <1>7, <2>1
    <2>4. walk'.at \in {"next", "page", "vote", "count"} /\ walk'.todo \subseteq DRep
      BY <1>5 DEF Walks
    <2> QED BY <1>1, <1>3, <2>2, <2>3, <2>4 DEF VotesInv, VotesTypeOK
  <1>9. Records' /\ Named'
    BY <1>1, <1>3, <1>5, <1>6, WalkFacts DEF VotesInv, Records, Named, Of
  <1> QED BY <1>8, <1>9 DEF VotesInv

\* The rows of a DRep are counted: there is one for a proposal at most.
LEMMA CountKeeps ==
  ASSUME VotesInv, CountVotes
  PROVE  VotesInv'
  <1>1. /\ UNCHANGED <<ballots, rows, clean, sweep, hit, faults>>
        /\ walk' = WalkedOne
        /\ walk.at = "count"
    BY DEF CountVotes, walkFrame
  <1>2. walk' \in Walks /\ walk'.at = "next" /\ walk'.left = {}
    <2>1. (walk.forced /\ walk.todo # {}) \in BOOLEAN
      OBVIOUS
    <2>2. walk' \in Walks
      BY <1>1, <2>1, WalkFacts, FreshRecords DEF WalkedOne
    <2>3. walk'.at = "next" /\ walk'.left = {}
      BY <1>1 DEF WalkedOne, NoWalk
    <2> QED BY <2>2, <2>3
  <1>3. counts' \in [DRep -> 0..Cardinality(Proposal)]
    <2>1. Cardinality(RowsOf(walk.voter)) \in 0..Cardinality(Proposal)
      <3>1. RowsOf(walk.voter) \in SUBSET Proposal
        BY DEF RowsOf
      <3>2. /\ IsFiniteSet(RowsOf(walk.voter))
            /\ Cardinality(RowsOf(walk.voter)) <= Cardinality(Proposal)
        BY <3>1, ProposalAssumption, FS_Subset
      <3> QED BY <3>2, ProposalAssumption, FS_CardinalityType
    <2>2. counts \in [DRep -> 0..Cardinality(Proposal)]
      BY DEF VotesInv, VotesTypeOK
    <2> QED BY <2>1, <2>2 DEF CountVotes
  <1>4. VotesTypeOK'
    BY <1>1, <1>2, <1>3 DEF VotesInv, VotesTypeOK, Of, Walks
  <1>5. Records' /\ Named'
    BY <1>1, <1>2 DEF VotesInv, Records, Named, Of
  <1> QED BY <1>4, <1>5 DEF VotesInv

-----------------------------------------------------------------------------
(***************************************************************************)
(* The sweep over a proposal's votes.                                      *)
(***************************************************************************)
\* The job's next state is of its type, whatever step it makes.
LEMMA SweepTyped ==
  ASSUME VotesInv, Sweep \/ VotesFail \/ VotesBehind \/ SweepCrashes
  PROVE  sweep' \in Sweeps /\ UNCHANGED <<ballots, counts, walk, hit>> /\ faults' \in 0..MaxFaults
  <1>0. /\ sweep \in Sweeps /\ faults \in 0..MaxFaults
        /\ \A S : Of(S) \subseteq 1..MaxBallots
    BY WalkFacts DEF VotesInv, Records
  <1>1. UNCHANGED <<ballots, counts, walk, hit>> /\ faults' \in 0..MaxFaults
    <2>1. CASE Sweep
      BY <1>0, <2>1 DEF Sweep, StartSweep, NextProposal, FetchVotes, WriteVotes, sweepFrame
    <2>2. CASE VotesFail \/ VotesBehind \/ SweepCrashes
      BY <1>0, <2>2 DEF VotesFail, VotesBehind, SweepCrashes, Fault, sweepFrame
    <2> QED BY <2>1, <2>2
  <1> SUFFICES sweep' \in Sweeps
    BY <1>1
  <1>2. NoSweep \in Sweeps /\ SweptOne \in Sweeps
    BY <1>0 DEF NoSweep, SweptOne, Sweeps
  <1>3. CASE StartSweep
    <2>1. Targets \subseteq Proposal
      BY DEF Targets
    <2> QED BY <1>3, <2>1 DEF StartSweep, NoSweep, Sweeps
  <1>4. CASE NextProposal
    <2>1. PICK p \in sweep.todo :
            sweep' = [NoSweep EXCEPT !.at = "page", !.todo = sweep.todo \ {p}, !.proposal = p]
      BY <1>4 DEF NextProposal
    <2> QED BY <1>0, <2>1 DEF NoSweep, Sweeps
  <1>5. CASE FetchVotes \/ VotesBehind
    <2>1. PICK list : /\ list \subseteq Of({sweep.proposal} \X Voter)
                      /\ sweep' = IF list = {} THEN SweptOne
                                  ELSE [sweep EXCEPT !.at = "write", !.list = list]
      <3>1. CASE FetchVotes
        BY <3>1 DEF FetchVotes, HearVotes, Oldest
      <3>2. CASE VotesBehind
        BY <3>2 DEF VotesBehind, HearVotes, Oldest, Before
      <3> QED BY <1>5, <3>1, <3>2
    <2>2. list \subseteq 1..MaxBallots
      BY <1>0, <2>1
    <2> QED BY <1>0, <1>2, <2>1, <2>2 DEF Sweeps
  <1>6. CASE WriteVotes
    <2>1. sweep' = SweptOne \/ sweep' = AfterPage
      BY <1>6 DEF WriteVotes
    <2>2. Cardinality(sweep.list) \in Nat
      <3>1. sweep.list \in SUBSET (1..MaxBallots)
        BY <1>0 DEF Sweeps
      <3>2. IsFiniteSet(1..MaxBallots)
        BY FS_Interval
      <3> QED BY <3>1, <3>2, FS_Subset, FS_CardinalityType
    <2>3. AfterPage \in Sweeps
      <3>1. PICK total \in Nat : total = sweep.count + Cardinality(sweep.list)
        BY <1>0, <2>2 DEF Sweeps
      <3>2. PICK q \in Sweeps : q = sweep
        BY <1>0
      <3>3. PICK page \in Nat : page = q.page + 1
        BY DEF Sweeps
      <3>4. [q EXCEPT !.at = "page", !.list = {}, !.page = page, !.count = total] \in Sweeps
        BY DEF Sweeps
      <3>5. [sweep EXCEPT !.at = "page", !.list = {}, !.page = @ + 1, !.count = total]
              = [q EXCEPT !.at = "page", !.list = {}, !.page = page, !.count = total]
        BY <3>2, <3>3
      <3> QED BY <1>2, <3>1, <3>4, <3>5 DEF AfterPage
    <2> QED BY <1>2, <2>1, <2>3
  <1>7. CASE VotesFail \/ SweepCrashes
    BY <1>2, <1>7 DEF VotesFail, SweepCrashes
  <1> QED BY <1>3, <1>4, <1>5, <1>6, <1>7 DEF Sweep

\* A page is upserted: each pair of it gets one of its own ballots.
LEMMA SweepKeeps ==
  ASSUME VotesInv, Sweep \/ VotesFail \/ VotesBehind \/ SweepCrashes
  PROVE  VotesInv'
  <1>1. sweep' \in Sweeps /\ UNCHANGED <<ballots, counts, walk, hit>> /\ faults' \in 0..MaxFaults
    BY SweepTyped
  <1>2. clean' \subseteq Documented
    BY DEF Sweep, StartSweep, NextProposal, FetchVotes, WriteVotes, VotesFail, VotesBehind, HearVotes, SweepCrashes,
           VotesInv, VotesTypeOK
  <1>3. ASSUME NEW pair \in Pair
        PROVE  \/ rows'[pair] = rows[pair]
               \/ \E b \in Of({pair}) : rows'[pair] = [rows[pair] EXCEPT !.ballot = b]
    <2>1. CASE UNCHANGED rows
      BY <2>1
    <2>2. CASE ~ UNCHANGED rows
      <3> DEFINE own == Of({pair}) \cap sweep.list
      <3>1. rows'[pair] = IF own # {} THEN [rows[pair] EXCEPT !.ballot = CHOOSE b \in own : TRUE]
                          ELSE rows[pair]
        BY <2>2 DEF Sweep, StartSweep, NextProposal, FetchVotes, WriteVotes, VotesFail, VotesBehind, HearVotes, SweepCrashes
      <3>2. own # {} => (CHOOSE b \in own : TRUE) \in Of({pair})
        OBVIOUS
      <3> QED BY <3>1, <3>2
    <2> QED BY <2>1, <2>2
  <1>4. DOMAIN rows' = Pair
    BY DEF Sweep, StartSweep, NextProposal, FetchVotes, WriteVotes, VotesFail, VotesBehind, HearVotes, SweepCrashes,
           VotesInv, VotesTypeOK
  <1>5. ASSUME NEW pair \in Pair
        PROVE  /\ rows'[pair] \in [ballot : Number, time : Number]
               /\ {rows'[pair].ballot, rows'[pair].time} \subseteq Of({pair}) \cup {0}
               /\ rows'[pair].time # 0 => rows'[pair].ballot # 0 /\ pair[2] \in DRep
    <2>1. /\ rows[pair] \in [ballot : Number, time : Number]
          /\ {rows[pair].ballot, rows[pair].time} \subseteq Of({pair}) \cup {0}
          /\ rows[pair].time # 0 => rows[pair].ballot # 0 /\ pair[2] \in DRep
      BY DEF VotesInv, VotesTypeOK, Records
    <2>2. \A b \in Of({pair}) : b \in Number /\ b # 0
      BY WalkFacts DEF Number
    <2>3. CASE rows'[pair] = rows[pair]
      BY <2>1, <2>3
    <2>4. CASE \E b \in Of({pair}) : rows'[pair] = [rows[pair] EXCEPT !.ballot = b]
      BY <2>1, <2>2, <2>4
    <2> QED BY <1>3, <2>3, <2>4
  <1>6. rows' \in [Pair -> [ballot : Number, time : Number]]
    <2>1. rows' = [pair \in Pair |-> rows'[pair]]
      BY <1>4 DEF Sweep, StartSweep, NextProposal, FetchVotes, WriteVotes, VotesFail, VotesBehind, HearVotes, SweepCrashes,
                  VotesInv, Records
    <2> QED BY <1>5, <2>1
  <1>7. VotesTypeOK'
    <2>1. \A pair \in Pair : Of({pair})' = Of({pair})
      BY <1>1 DEF Of
    <2>2. \A pair \in Pair :
            /\ {rows'[pair].ballot, rows'[pair].time} \subseteq Of({pair})' \cup {0}
            /\ rows'[pair].time # 0 => rows'[pair].ballot # 0 /\ pair[2] \in DRep
      BY <1>5, <2>1
    <2>3. sweep'.at \in {"next", "page", "write"} /\ sweep'.todo \subseteq Proposal
      BY <1>1 DEF Sweeps
    <2> QED BY <1>1, <1>2, <1>4, <2>2, <2>3 DEF VotesInv, VotesTypeOK
  <1>8. Records' /\ Named'
    BY <1>1, <1>6 DEF VotesInv, Records, Named, Of
  <1> QED BY <1>7, <1>8 DEF VotesInv

LEMMA VotesStep == VotesInv /\ [VotesNext]_votesVars => VotesInv'
  <1> SUFFICES ASSUME VotesInv, [VotesNext]_votesVars PROVE VotesInv'
    OBVIOUS
  <1>1. CASE UNCHANGED votesVars
    BY <1>1 DEF votesVars, VotesInv, VotesTypeOK, Records, Named, Of
  <1>2. CASE VotesNext
    BY <1>2, CastKeeps, WalkKeeps, VoteKeeps, CountKeeps, SweepKeeps DEF VotesNext, Walk
  <1> QED BY <1>1, <1>2

LEMMA VotesAlways == VotesSpec => []VotesInv
  BY VotesFirst, VotesStep, PTL DEF VotesSpec

\* A row of the votes table is made of ballots of its own proposal and voter,
\* whichever of the two workers wrote it and however late; only DReps get a
\* block time; and no DRep is credited with more votes than there are proposals.
THEOREM VotesTyped == VotesSpec => []VotesTypeOK
  <1>1. VotesInv => VotesTypeOK
    BY DEF VotesInv
  <1> QED BY <1>1, VotesAlways, PTL
-----------------------------------------------------------------------------
(***************************************************************************)
(* Places in the list of a DRep's ballots, which the newest one heads.     *)
(***************************************************************************)
\* How many of the ballots in S were cast after b: its place in the list.
After(S, b) == Cardinality({c \in S : c > b})

LEMMA PlacesFall ==
  ASSUME NEW S \in SUBSET Nat, IsFiniteSet(S)
  PROVE  /\ \A b \in S : After(S, b) \in 0..(Cardinality(S) - 1)
         /\ \A b, c \in S : b < c => After(S, c) < After(S, b)
         /\ \A b, c \in S : After(S, b) = After(S, c) => b = c
  <1> DEFINE Over(a) == {c \in S : c > a}
  <1>0. Cardinality(S) \in Nat /\ \A a \in S : a \in Nat
    BY FS_CardinalityType
  <1>1. \A a \in S : /\ Over(a) \in SUBSET (S \ {a})
                     /\ \A b \in S : a > b => Over(a) \in SUBSET (Over(b) \ {a}) /\ a \in Over(b)
    <2>1. \A a, b, x \in S : a > b /\ x > a => x > b
      BY <1>0
    <2>2. \A a \in S : ~ (a > a)
      BY <1>0
    <2> QED BY <2>1, <2>2, Zenon
  <1>2. \A a \in S : After(S, a) = Cardinality(Over(a))
    BY DEF After
  <1> HIDE DEF Over
  <1>3. \A a \in S : IsFiniteSet(Over(a)) /\ After(S, a) \in Nat /\ After(S, a) < Cardinality(S)
    <2> TAKE a \in S
    <2>1. IsFiniteSet(S \ {a}) /\ Cardinality(S \ {a}) = Cardinality(S) - 1
      BY FS_RemoveElement
    <2>2. IsFiniteSet(Over(a)) /\ Cardinality(Over(a)) <= Cardinality(S) - 1
      BY <1>1, <2>1, FS_Subset
    <2>3. Cardinality(Over(a)) \in Nat
      BY <2>2, FS_CardinalityType
    <2> QED BY <1>0, <1>2, <2>2, <2>3
  <1>4. \A b, c \in S : b < c => After(S, c) < After(S, b)
    <2> SUFFICES ASSUME NEW b \in S, NEW c \in S, c > b PROVE After(S, c) < After(S, b)
      BY <1>0
    <2>1. IsFiniteSet(Over(b) \ {c}) /\ Cardinality(Over(b) \ {c}) = Cardinality(Over(b)) - 1
      BY <1>1, <1>3, FS_RemoveElement
    <2>2. Cardinality(Over(c)) <= Cardinality(Over(b)) - 1
      BY <1>1, <2>1, FS_Subset
    <2> QED BY <1>2, <1>3, <2>2
  <1>5. ASSUME NEW b \in S, NEW c \in S, After(S, b) = After(S, c) PROVE b = c
    <2>1. ~ (b < c) /\ ~ (c < b)
      BY <1>3, <1>4, <1>5
    <2> QED BY <1>0, <2>1
  <1>6. \A b \in S : After(S, b) \in 0..(Cardinality(S) - 1)
    BY <1>0, <1>3
  <1> QED BY <1>4, <1>5, <1>6

LEMMA PlacesNat ==
  ASSUME NEW S \in SUBSET Nat, IsFiniteSet(S)
  PROVE  Cardinality(S) \in Nat /\ \A b \in S : After(S, b) \in Nat /\ b \in Nat
  <1>1. Cardinality(S) \in Nat
    BY FS_CardinalityType
  <1>2. ASSUME NEW b \in S PROVE After(S, b) \in Nat
    <2>1. After(S, b) \in 0..(Cardinality(S) - 1)
      BY PlacesFall
    <2> QED BY <1>1, <2>1
  <1>3. \A b \in S : b \in Nat
    OBVIOUS
  <1> QED BY <1>1, <1>2, <1>3

\* A page above some ballot is full.
LEMMA PlacesFilled ==
  ASSUME NEW S \in SUBSET Nat, IsFiniteSet(S), NEW m \in Nat, NEW e \in S,
         After(S, e) >= m + PageSize
  PROVE  Cardinality({b \in S : After(S, b) \in m..(m + PageSize - 1)}) = PageSize
  <1> DEFINE n == Cardinality(S)
             f == [b \in S |-> After(S, b)]
             W == {b \in S : After(S, b) \in m..(m + PageSize - 1)}
             g == [b \in W |-> After(S, b)]
  <1>0. PageSize \in Nat /\ PageSize > 0
    BY PageAssumption
  <1>1. n \in Nat /\ After(S, e) \in 0..(n - 1)
    BY PlacesFall, PlacesNat
  <1>2. f \in Injection(S, 0..(n - 1))
    BY PlacesFall DEF Injection, IsInjective
  <1>3. IsFiniteSet(0..(n - 1)) /\ Cardinality(0..(n - 1)) = n
    <2>1. 0 \in Int /\ n - 1 \in Int /\ (0 > n - 1 => n = 0)
      BY <1>1
    <2> HIDE DEF n
    <2>2. /\ IsFiniteSet(0..(n - 1))
          /\ Cardinality(0..(n - 1)) = IF 0 > n - 1 THEN 0 ELSE (n - 1) - 0 + 1
      BY <2>1, FS_Interval
    <2> QED BY <1>1, <2>1, <2>2
  <1>4. f \in Surjection(S, 0..(n - 1))
    BY <1>2, <1>3, FS_Injection
  <1>5. \A k \in m..(m + PageSize - 1) : \E b \in W : After(S, b) = k
    <2> TAKE k \in m..(m + PageSize - 1)
    <2>1. k \in 0..(n - 1)
      BY <1>0, <1>1
    <2>2. PICK b \in S : f[b] = k
      BY <1>4, <2>1 DEF Surjection
    <2>3. After(S, b) = k /\ b \in W
      BY <2>2
    <2> QED BY <2>3
  <1>6. g \in Injection(W, m..(m + PageSize - 1))
    BY PlacesFall DEF Injection, IsInjective
  <1>7. g \in Surjection(W, m..(m + PageSize - 1))
    BY <1>5, <1>6 DEF Surjection, Injection
  <1>8. /\ IsFiniteSet(m..(m + PageSize - 1))
        /\ Cardinality(m..(m + PageSize - 1)) = PageSize
    BY <1>0, FS_Interval
  <1> HIDE DEF W, g
  <1>9. Cardinality(W) = PageSize
    BY <1>6, <1>7, <1>8, FS_Injection
  <1> QED BY <1>9 DEF W

LEMMA PageStarts ==
  ASSUME NEW n \in Nat \ {0}
  PROVE  \E m \in Nat : m = (n - 1) * PageSize /\ Places(n) = m..(m + PageSize - 1)
  <1>0. PageSize \in Nat
    BY PageAssumption
  <1>1. PICK m \in Nat : m = (n - 1) * PageSize
    BY <1>0
  <1>2. PICK k \in Nat : k = n * PageSize
    BY <1>0
  <1>3. k = m + PageSize
    BY <1>0, <1>1, <1>2
  <1>4. k - 1 = m + PageSize - 1
    BY <1>0, <1>3
  <1> QED BY <1>1, <1>2, <1>4 DEF Places

\* What Blockfrost answers when it is asked for page n, and for one that is
\* too far, or not full.
LEMMA PageOfPlaces ==
  ASSUME NEW S \in SUBSET Nat, IsFiniteSet(S), NEW n \in Nat \ {0}
  PROVE  LET m == (n - 1) * PageSize IN
         /\ m \in Nat
         /\ Newest(S, n) = {b \in S : m <= After(S, b) /\ After(S, b) < m + PageSize}
         /\ Newest(S, n) = {} => \A e \in S : After(S, e) < m
         /\ Cardinality(Newest(S, n)) < PageSize => \A e \in S : After(S, e) < m + PageSize
  <1> DEFINE m == (n - 1) * PageSize
             W == {b \in S : After(S, b) \in m..(m + PageSize - 1)}
  <1>0. PageSize \in Nat /\ PageSize > 0
    BY PageAssumption
  <1>1. m \in Nat /\ Places(n) = m..(m + PageSize - 1)
    BY PageStarts
  <1> HIDE DEF m
  <1>2. Newest(S, n) = W
    BY <1>1 DEF Newest, After
  <1>3. \A b \in S : After(S, b) \in Nat
    BY PlacesNat
  <1>4. W = {b \in S : m <= After(S, b) /\ After(S, b) < m + PageSize}
    <2>1. \A x \in Nat : x \in m..(m + PageSize - 1) <=> m <= x /\ x < m + PageSize
      BY <1>0, <1>1
    <2> QED BY <1>3, <2>1
  <1>5. ASSUME Cardinality(W) < PageSize, NEW e \in S PROVE After(S, e) < m + PageSize
    <2>1. ~ (After(S, e) >= m + PageSize)
      BY <1>0, <1>1, <1>5, PlacesFilled
    <2> QED BY <1>0, <1>1, <1>3, <2>1
  <1>6. ASSUME W = {}, NEW e \in S PROVE After(S, e) < m
    <2>1. Cardinality(W) < PageSize
      BY <1>0, <1>6, FS_EmptySet
    <2>2. After(S, e) < m + PageSize
      BY <1>5, <2>1
    <2> QED BY <1>1, <1>3, <1>4, <1>6, <2>2
  <1> HIDE DEF W
  <1> QED BY <1>1, <1>2, <1>4, <1>5, <1>6 DEF m

\* So many places hold no more ballots.
LEMMA PlacesFew ==
  ASSUME NEW S \in SUBSET Nat, IsFiniteSet(S), NEW m \in Nat, NEW k \in Nat,
         NEW W \in SUBSET {b \in S : m <= After(S, b) /\ After(S, b) < m + k}
  PROVE  IsFiniteSet(W) /\ Cardinality(W) <= k
  <1> DEFINE g == [b \in W |-> After(S, b)]
  <1>1. \A b \in S : After(S, b) \in Nat
    BY PlacesNat
  <1>2. g \in Injection(W, m..(m + k - 1))
    BY <1>1, PlacesFall DEF Injection, IsInjective
  <1>3. IsFiniteSet(m..(m + k - 1)) /\ Cardinality(m..(m + k - 1)) = k
    BY FS_Interval
  <1> HIDE DEF g
  <1> QED BY <1>2, <1>3, FS_Injection

\* A ballot that is cast takes the first place, and moves the others by one.
LEMMA PlacesMove ==
  ASSUME NEW S \in SUBSET Nat, IsFiniteSet(S), NEW k \in Nat, \A b \in S : b < k
  PROVE  /\ After(S \cup {k}, k) = 0
         /\ \A b \in S : After(S \cup {k}, b) = After(S, b) + 1
  <1>1. {c \in S \cup {k} : c > k} = {}
    <2>1. \A c \in S \cup {k} : ~ (c > k)
      OBVIOUS
    <2> QED BY <2>1
  <1>2. ASSUME NEW b \in S PROVE After(S \cup {k}, b) = After(S, b) + 1
    <2> DEFINE O == {c \in S : c > b}
    <2>1. {c \in S \cup {k} : c > b} = O \cup {k} /\ k \notin O
      OBVIOUS
    <2>2. O \in SUBSET S
      OBVIOUS
    <2> HIDE DEF O
    <2>3. IsFiniteSet(O)
      BY <2>2, FS_Subset
    <2>4. Cardinality(O \cup {k}) = Cardinality(O) + 1
      BY <2>1, <2>3, FS_AddElement
    <2> QED BY <2>1, <2>4 DEF After, O
  <1> QED BY <1>1, <1>2, FS_EmptySet DEF After

-----------------------------------------------------------------------------
(***************************************************************************)
(* The walk, as it looks to the ballots S of its DRep, of which those in T *)
(* have a block time.                                                      *)
(***************************************************************************)
\* Ballots with a time are followed, down the list, by ballots with a time.
Down(S, T) == \A b \in T, c \in S : c < b => c \in T

\* The first place of the walk's page; and the places that an own row of the
\* walk may have been moved to.
Start(w)     == (w.page - 1) * PageSize
Own(S, w, b) == After(S, b) < Start(w) + w.cast
Gone(w)      == w.list \ w.left

\* Before a page is read: the pages above it are done, and a row that is not of
\* this walk is one of an earlier walk, which left none out below it.
PageOK(S, T, w) ==
  /\ w.list = {} /\ w.left = {} /\ w.known = 0
  /\ \A b \in T, c \in S : c < b /\ After(S, c) < Start(w) => c \in T
  /\ ~ w.forced => /\ w.cast <= Enough
                   /\ \A b \in T, c \in S : c < b /\ ~ Own(S, w, b) => c \in T

\* What the page in hand is of the list, however far that has moved on since.
ListOK(S, w) ==
  /\ w.list \subseteq S /\ w.list # {} /\ w.left \subseteq w.list
  /\ \A b \in w.list, c \in S : c < b /\ After(S, c) < Start(w) + PageSize => c \in w.list
  /\ \A b, c \in w.list, e \in S : b < e /\ e < c => e \in w.list
  /\ Cardinality(w.list) < PageSize => \A b \in w.list, c \in S : c < b => c \in w.list
  /\ \A b \in Gone(w), c \in w.left : c < b
  /\ ~ w.forced => /\ \A b \in w.list : After(S, b) < Start(w) + PageSize + w.cast
                   /\ Cardinality({b \in w.list : Own(S, w, b)}) <= w.cast
                   /\ w.cast <= Enough

\* While a page is worked through: what is gone of it has its time; and if more
\* of it is known than the walk may have written itself, an earlier walk was here.
VoteOK(S, T, w) ==
  /\ ListOK(S, w)
  /\ Gone(w) \subseteq T
  /\ \A b \in T, c \in S :
       c < b /\ c \notin w.left /\ (After(S, c) < Start(w) + PageSize \/ \E e \in w.list : e < c)
         => c \in T
  /\ ~ w.forced =>
       /\ \A b \in T, c \in S : c < b /\ ~ Own(S, w, b) /\ b \notin Gone(w) => c \in T
       /\ \/ w.known <= Cardinality({b \in Gone(w) : Own(S, w, b)})
          \/ \E b \in Gone(w) : \A c \in S : c <= b => c \in T

WalkOK(S, T, w) == (w.at = "page" => PageOK(S, T, w)) /\ (w.at = "vote" => VoteOK(S, T, w))

\* Inductive: NoneOvertaken says nothing of a walk in progress.
Gapless ==
  \A d \in DRep \ hit :
    ~ Revoted(d) => IF Reading(d) THEN WalkOK(Mine(d), Timed(d), walk)
                    ELSE Down(Mine(d), Timed(d))

\* The page that is asked for next goes on where the last one ended.
LEMMA PageRead ==
  ASSUME NEW S \in SUBSET Nat, IsFiniteSet(S), NEW T \in SUBSET S,
         NEW w \in Walks, PageOK(S, T, w), NEW x,
         x.list = Newest(S, w.page), x.left = x.list,
         x.page = w.page, x.cast = w.cast, x.forced = w.forced, x.known = w.known
  PROVE  IF x.list = {} THEN Down(S, T) ELSE VoteOK(S, T, x)
  <1>m. PICK m \in Nat : m = Start(w)
    <2>1. w.page \in Nat \ {0}
      BY DEF Walks
    <2> QED BY <2>1, PageOfPlaces DEF Start
  <1>0. /\ PageSize \in Nat /\ w.cast \in Nat /\ m \in Nat /\ Start(x) = m
        /\ \A b \in S : After(S, b) \in Nat /\ b \in Nat
        /\ \A b, c \in S : b < c => After(S, c) < After(S, b)
    <2>1. w.cast \in Nat
      BY DEF Walks
    <2>2. PageSize \in Nat
      BY PageAssumption
    <2>3. Start(x) = m
      BY <1>m DEF Start
    <2>4. \A b \in S : After(S, b) \in Nat /\ b \in Nat
      BY PlacesNat
    <2>5. \A b, c \in S : b < c => After(S, c) < After(S, b)
      BY PlacesFall
    <2> QED BY <2>1, <2>2, <2>3, <2>4, <2>5
  <1>1. /\ \A b : b \in x.list <=> b \in S /\ m <= After(S, b) /\ After(S, b) < m + PageSize
        /\ x.list = {} => \A e \in S : After(S, e) < m
        /\ Cardinality(x.list) < PageSize => \A e \in S : After(S, e) < m + PageSize
    <2>1. w.page \in Nat \ {0}
      BY DEF Walks
    <2> QED BY <1>m, <2>1, PageOfPlaces DEF Start
  <1>2. /\ \A b \in T, c \in S : c < b /\ After(S, c) < m => c \in T
        /\ w.known = 0
        /\ ~ w.forced => /\ w.cast <= Enough
                         /\ \A b \in T, c \in S : c < b /\ ~ Own(S, w, b) => c \in T
    BY <1>m DEF PageOK
  <1>3. \A b : Own(S, x, b) <=> Own(S, w, b)
    BY <1>0, <1>m DEF Own
  <1>4. Gone(x) = {}
    BY DEF Gone
  <1>5. ASSUME x.list # {} PROVE ListOK(S, x)
    <2>1. /\ x.list \subseteq S /\ x.list # {} /\ x.left \subseteq x.list
          /\ \A b \in Gone(x), c \in x.left : c < b
      BY <1>1, <1>4, <1>5
    <2>2. ASSUME NEW b \in x.list, NEW c \in S, c < b, After(S, c) < m + PageSize PROVE c \in x.list
      <3>1. b \in S /\ m <= After(S, b)
        BY <1>1
      <3>2. After(S, b) < After(S, c) /\ After(S, b) \in Nat /\ After(S, c) \in Nat
        BY <1>0, <2>2, <3>1
      <3>3. m <= After(S, c)
        BY <3>1, <3>2
      <3> QED BY <1>1, <2>2, <3>3
    <2>3. ASSUME NEW b \in x.list, NEW c \in x.list, NEW e \in S, b < e, e < c PROVE e \in x.list
      <3>1. b \in S /\ c \in S /\ After(S, b) < m + PageSize /\ m <= After(S, c)
        BY <1>1
      <3>2. /\ After(S, c) < After(S, e) /\ After(S, e) < After(S, b)
            /\ After(S, b) \in Nat /\ After(S, c) \in Nat /\ After(S, e) \in Nat
        BY <1>0, <2>3, <3>1
      <3>3. m <= After(S, e) /\ After(S, e) < m + PageSize
        BY <1>0, <3>1, <3>2
      <3> QED BY <1>1, <3>3
    <2>4. Cardinality(x.list) < PageSize => \A b \in x.list, c \in S : c < b => c \in x.list
      BY <1>1, <2>2
    <2>5. ASSUME NEW b \in x.list PROVE After(S, b) < m + PageSize + w.cast
      <3>1. After(S, b) \in Nat /\ After(S, b) < m + PageSize
        BY <1>0, <1>1
      <3> QED BY <1>0, <3>1
    <2>6. Cardinality({b \in x.list : Own(S, x, b)}) <= w.cast
      <3> DEFINE W == {b \in x.list : Own(S, x, b)}
      <3>1. W \in SUBSET {b \in S : m <= After(S, b) /\ After(S, b) < m + w.cast}
        BY <1>0, <1>1 DEF Own
      <3> HIDE DEF W
      <3>2. Cardinality(W) <= w.cast
        BY <1>0, <3>1, PlacesFew
      <3> QED BY <3>2 DEF W
    <2>7. w.cast <= Enough \/ w.forced
      BY <1>2
    <2> QED BY <1>0, <2>1, <2>2, <2>3, <2>4, <2>5, <2>6, <2>7 DEF ListOK
  <1>6. ASSUME x.list # {} PROVE VoteOK(S, T, x)
    <2>1. \A b \in T, c \in S :
            c < b /\ c \notin x.left /\ (After(S, c) < m + PageSize \/ \E e \in x.list : e < c)
              => c \in T
      <3> SUFFICES ASSUME NEW b \in T, NEW c \in S, c < b, c \notin x.left,
                          After(S, c) < m + PageSize \/ (\E e \in x.list : e < c)
                   PROVE  c \in T
        OBVIOUS
      <3>1. After(S, c) < m + PageSize
        <4>1. ASSUME NEW e \in x.list, e < c PROVE After(S, c) < m + PageSize
          BY <1>0, <1>1, <4>1
        <4> QED BY <4>1
      <3>2. After(S, c) < m
        BY <1>0, <1>1, <3>1
      <3> QED BY <1>2, <3>2
    <2>2. x.known <= Cardinality({b \in Gone(x) : Own(S, x, b)})
      <3>1. {b \in Gone(x) : Own(S, x, b)} = {}
        BY <1>4
      <3>2. Cardinality({b \in Gone(x) : Own(S, x, b)}) = 0
        BY <3>1, FS_EmptySet
      <3>3. x.known = 0
        BY <1>2
      <3> QED BY <3>2, <3>3
    <2>3. ~ x.forced => \A b \in T, c \in S : c < b /\ ~ Own(S, x, b) /\ b \notin Gone(x) => c \in T
      BY <1>2, <1>3
    <2>4. Gone(x) \subseteq T /\ ListOK(S, x)
      BY <1>4, <1>5, <1>6
    <2> QED BY <1>0, <2>1, <2>2, <2>3, <2>4 DEF VoteOK
  <1>7. x.list = {} => Down(S, T)
    BY <1>1, <1>2 DEF Down
  <1> QED BY <1>6, <1>7

\* A ballot is cast under the walk: the others are moved down by a place, and
\* the walk's own rows with them.
LEMMA WalkOutrun ==
  ASSUME NEW S \in SUBSET Nat, IsFiniteSet(S), NEW T \in SUBSET S, NEW w \in Walks, NEW x,
         x.list = w.list, x.left = w.left, x.page = w.page, x.known = w.known,
         x.forced = w.forced, ~ w.forced => w.cast < Enough /\ x.cast = w.cast + 1,
         NEW k \in Nat, \A b \in S : b < k
  PROVE  /\ PageOK(S, T, w) => PageOK(S \cup {k}, T, x)
         /\ VoteOK(S, T, w) => VoteOK(S \cup {k}, T, x)
  <1>m. PICK m \in Nat : m = Start(w)
    <2>1. w.page \in Nat \ {0}
      BY DEF Walks
    <2> QED BY <2>1, PageOfPlaces DEF Start
  <1>0. /\ PageSize \in Nat /\ Enough \in Nat /\ w.cast \in Nat /\ Start(x) = m
        /\ \A b \in S : After(S, b) \in Nat /\ b \in Nat
    <2>1. w.cast \in Nat
      BY DEF Walks
    <2>2. PageSize \in Nat /\ Enough \in Nat
      BY PageAssumption
    <2>3. Start(x) = m
      BY <1>m DEF Start
    <2>4. \A b \in S : After(S, b) \in Nat /\ b \in Nat
      BY PlacesNat
    <2> QED BY <2>1, <2>2, <2>3, <2>4
  <1> DEFINE Z == S \cup {k}
  <1>1. \A b \in S : After(Z, b) = After(S, b) + 1
    BY PlacesMove
  <1>2. S \subseteq Z /\ \A b \in S, c \in Z : c < b => c \in S
    BY <1>0
  <1> HIDE DEF Z
  <1>3. \A b \in S : \A n \in Nat : After(Z, b) < n => After(S, b) < n
    BY <1>0, <1>1
  <1>4. ~ w.forced => \A b \in S : Own(Z, x, b) <=> Own(S, w, b)
    BY <1>0, <1>1, <1>m DEF Own
  <1>5. Gone(x) = Gone(w)
    BY DEF Gone
  <1>6. ASSUME PageOK(S, T, w) PROVE PageOK(Z, T, x)
    <2>1. /\ w.list = {} /\ w.left = {} /\ w.known = 0
          /\ \A b \in T, c \in S : c < b /\ After(S, c) < m => c \in T
          /\ ~ w.forced => \A b \in T, c \in S : c < b /\ ~ Own(S, w, b) => c \in T
      BY <1>6, <1>m DEF PageOK
    <2>2. \A b \in T, c \in Z : c < b /\ After(Z, c) < m => c \in T
      BY <1>2, <1>3, <2>1
    <2>3. ~ w.forced => \A b \in T, c \in Z : c < b /\ ~ Own(Z, x, b) => c \in T
      BY <1>2, <1>4, <2>1
    <2>4. ~ w.forced => x.cast <= Enough
      BY <1>0
    <2> QED BY <1>0, <2>1, <2>2, <2>3, <2>4 DEF PageOK
  <1>7. ASSUME VoteOK(S, T, w) PROVE VoteOK(Z, T, x)
    <2>1. /\ w.list \subseteq S /\ w.list # {} /\ w.left \subseteq w.list
          /\ \A b \in w.list, c \in S : c < b /\ After(S, c) < m + PageSize => c \in w.list
          /\ \A b, c \in w.list, e \in S : b < e /\ e < c => e \in w.list
          /\ Cardinality(w.list) < PageSize => \A b \in w.list, c \in S : c < b => c \in w.list
          /\ \A b \in Gone(w), c \in w.left : c < b
      BY <1>7, <1>m DEF VoteOK, ListOK
    <2>2. ~ w.forced => /\ \A b \in w.list : After(S, b) < m + PageSize + w.cast
                        /\ Cardinality({b \in w.list : Own(S, w, b)}) <= w.cast
      BY <1>7, <1>m DEF VoteOK, ListOK
    <2>3. /\ Gone(w) \subseteq T
          /\ \A b \in T, c \in S :
               c < b /\ c \notin w.left /\ (After(S, c) < m + PageSize \/ \E e \in w.list : e < c)
                 => c \in T
          /\ ~ w.forced =>
               /\ \A b \in T, c \in S : c < b /\ ~ Own(S, w, b) /\ b \notin Gone(w) => c \in T
               /\ \/ w.known <= Cardinality({b \in Gone(w) : Own(S, w, b)})
                  \/ \E b \in Gone(w) : \A c \in S : c <= b => c \in T
      BY <1>7, <1>m DEF VoteOK
    <2>4. m + PageSize \in Nat
      BY <1>0
    <2>5. \A b, c \in w.list, e \in Z : b < e /\ e < c => e \in w.list
      BY <1>2, <2>1
    <2>6. \A b \in w.list, c \in Z : c < b /\ After(Z, c) < m + PageSize => c \in w.list
      BY <1>2, <1>3, <2>1, <2>4
    <2>7. ASSUME ~ w.forced PROVE \A b \in w.list : After(Z, b) < m + PageSize + x.cast
      <3> SUFFICES ASSUME NEW b \in w.list PROVE After(Z, b) < m + PageSize + x.cast
        OBVIOUS
      <3>1. /\ After(S, b) \in Nat /\ After(Z, b) = After(S, b) + 1
            /\ After(S, b) < m + PageSize + w.cast
        BY <1>0, <1>1, <2>1, <2>2, <2>7
      <3>2. x.cast = w.cast + 1
        BY <2>7
      <3> QED BY <1>0, <2>4, <3>1, <3>2
    <2>8. ~ w.forced => {b \in w.list : Own(Z, x, b)} = {b \in w.list : Own(S, w, b)}
      BY <1>4, <2>1
    <2>9. ASSUME ~ w.forced PROVE Cardinality({b \in w.list : Own(Z, x, b)}) <= x.cast /\ x.cast <= Enough
      <3>1. PICK n \in Nat : n = Cardinality({b \in w.list : Own(S, w, b)})
        <4>1. {b \in w.list : Own(S, w, b)} \in SUBSET S
          BY <2>1
        <4> QED BY <4>1, FS_Subset, FS_CardinalityType
      <3> QED BY <1>0, <2>2, <2>8, <2>9, <3>1
    <2>10. ListOK(Z, x)
      <3>1. Cardinality(x.list) < PageSize => \A b \in x.list, c \in Z : c < b => c \in x.list
        BY <1>2, <2>1
      <3>2. /\ x.list \subseteq Z /\ x.list # {} /\ x.left \subseteq x.list
            /\ \A b \in Gone(x), c \in x.left : c < b
        BY <1>2, <1>5, <2>1
      <3> QED BY <1>0, <2>5, <2>6, <2>7, <2>9, <3>1, <3>2 DEF ListOK
    <2>11. \A b \in T, c \in Z :
             c < b /\ c \notin w.left /\ (After(Z, c) < m + PageSize \/ \E e \in w.list : e < c)
               => c \in T
      BY <1>2, <1>3, <2>3, <2>4
    <2>12. ASSUME ~ w.forced
           PROVE  /\ \A b \in T, c \in Z : c < b /\ ~ Own(Z, x, b) /\ b \notin Gone(x) => c \in T
                  /\ \/ x.known <= Cardinality({b \in Gone(x) : Own(Z, x, b)})
                     \/ \E b \in Gone(x) : \A c \in Z : c <= b => c \in T
      <3>1. \A b \in T, c \in Z : c < b /\ ~ Own(Z, x, b) /\ b \notin Gone(x) => c \in T
        BY <1>2, <1>4, <1>5, <2>3, <2>12
      <3>2. {b \in Gone(x) : Own(Z, x, b)} = {b \in Gone(w) : Own(S, w, b)}
        BY <1>4, <1>5, <2>1, <2>12 DEF Gone
      <3>3. ASSUME NEW b \in Gone(w), \A c \in S : c <= b => c \in T
            PROVE  \A c \in Z : c <= b => c \in T
        <4>1. b \in S /\ b \in Nat
          BY <1>0, <2>1 DEF Gone
        <4>2. \A c \in Z : c <= b => c \in S
          BY <1>2, <4>1, <1>0
        <4> QED BY <3>3, <4>2
      <3> QED BY <1>5, <2>3, <2>12, <3>1, <3>2, <3>3
    <2>13. Gone(x) \subseteq T
      BY <1>5, <2>3
    <2> QED BY <1>0, <2>10, <2>11, <2>12, <2>13 DEF VoteOK
  <1> QED BY <1>6, <1>7 DEF Z

\* A vote of the page gets its time, or has it already.
LEMMA VoteGone ==
  ASSUME NEW S \in SUBSET Nat, IsFiniteSet(S), NEW T \in SUBSET S, NEW w \in Walks,
         VoteOK(S, T, w), NEW v \in w.left, \A c \in w.left : c <= v, NEW x,
         x.list = w.list, x.left = w.left \ {v}, x.page = w.page, x.cast = w.cast,
         x.forced = w.forced, x.known = w.known \/ (x.known = w.known + 1 /\ v \in T)
  PROVE  VoteOK(S, T \cup {v}, x)
  <1>m. PICK m \in Nat : m = Start(w)
    <2>1. w.page \in Nat \ {0}
      BY DEF Walks
    <2> QED BY <2>1, PageOfPlaces DEF Start
  <1>0. /\ PageSize \in Nat /\ w.cast \in Nat /\ w.known \in Nat /\ Start(x) = m
        /\ \A b \in S : b \in Nat
    <2>1. w.cast \in Nat /\ w.known \in Nat
      BY DEF Walks
    <2>2. Start(x) = m
      BY <1>m DEF Start
    <2> QED BY <2>1, <2>2, PageAssumption
  <1>1. /\ w.list \subseteq S /\ w.list # {} /\ w.left \subseteq w.list
        /\ \A b \in w.list, c \in S : c < b /\ After(S, c) < m + PageSize => c \in w.list
        /\ \A b, c \in w.list, e \in S : b < e /\ e < c => e \in w.list
        /\ Cardinality(w.list) < PageSize => \A b \in w.list, c \in S : c < b => c \in w.list
        /\ \A b \in Gone(w), c \in w.left : c < b
    BY <1>m DEF VoteOK, ListOK
  <1>2. ~ w.forced => /\ \A b \in w.list : After(S, b) < m + PageSize + w.cast
                      /\ Cardinality({b \in w.list : Own(S, w, b)}) <= w.cast
                      /\ w.cast <= Enough
    BY <1>m DEF VoteOK, ListOK
  <1>3. /\ Gone(w) \subseteq T
        /\ \A b \in T, c \in S :
             c < b /\ c \notin w.left /\ (After(S, c) < m + PageSize \/ \E e \in w.list : e < c)
               => c \in T
        /\ ~ w.forced =>
             /\ \A b \in T, c \in S : c < b /\ ~ Own(S, w, b) /\ b \notin Gone(w) => c \in T
             /\ \/ w.known <= Cardinality({b \in Gone(w) : Own(S, w, b)})
                \/ \E b \in Gone(w) : \A c \in S : c <= b => c \in T
    BY <1>m DEF VoteOK
  <1>4. /\ v \in w.list /\ v \in S /\ v \in Nat /\ v \notin Gone(w)
        /\ \A b : b \in Gone(x) <=> b \in Gone(w) \/ b = v
    BY <1>0, <1>1 DEF Gone
  <1>5. \A b : Own(S, x, b) <=> Own(S, w, b)
    BY <1>0, <1>m DEF Own
  <1>6. ListOK(S, x)
    <2>1. ASSUME NEW b \in Gone(x), NEW c \in x.left PROVE c < b
      <3>1. c \in w.left /\ c # v /\ c <= v /\ c \in Nat
        BY <1>0, <1>1
      <3> QED BY <1>1, <1>4, <3>1
    <2>2. {b \in w.list : Own(S, x, b)} = {b \in w.list : Own(S, w, b)}
      BY <1>5
    <2>3. x.left \subseteq w.list
      BY <1>1
    <2> QED BY <1>0, <1>1, <1>2, <2>1, <2>2, <2>3 DEF ListOK
  <1>7. Gone(x) \subseteq T \cup {v}
    BY <1>3, <1>4
  <1>8. ASSUME NEW b \in T \cup {v}, NEW c \in S, c < b, c \notin x.left,
               After(S, c) < m + PageSize \/ (\E e \in w.list : e < c)
        PROVE  c \in T \cup {v}
    <2>1. CASE c = v
      BY <2>1
    <2>2. CASE c # v /\ b \in T
      BY <1>3, <1>8, <2>2
    <2>3. CASE c # v /\ b = v
      <3>1. c \in w.list
        <4>1. CASE After(S, c) < m + PageSize
          BY <1>1, <1>4, <1>8, <2>3, <4>1
        <4>2. ASSUME NEW e \in w.list, e < c PROVE c \in w.list
          BY <1>1, <1>4, <1>8, <2>3, <4>2
        <4> QED BY <1>8, <4>1, <4>2
      <3>2. c \in Gone(w)
        BY <1>8, <2>3, <3>1 DEF Gone
      <3> QED BY <1>3, <3>2
    <2> QED BY <1>8, <2>1, <2>2, <2>3
  <1>9. ASSUME ~ w.forced
        PROVE  /\ \A b \in T \cup {v}, c \in S :
                    c < b /\ ~ Own(S, x, b) /\ b \notin Gone(x) => c \in T \cup {v}
               /\ \/ x.known <= Cardinality({b \in Gone(x) : Own(S, x, b)})
                  \/ \E b \in Gone(x) : \A c \in S : c <= b => c \in T \cup {v}
    <2>1. \A b \in T \cup {v}, c \in S :
            c < b /\ ~ Own(S, x, b) /\ b \notin Gone(x) => c \in T \cup {v}
      BY <1>3, <1>4, <1>5, <1>9
    <2> DEFINE W == {b \in Gone(w) : Own(S, w, b)}
               X == {b \in Gone(x) : Own(S, x, b)}
    <2>2. IsFiniteSet(W) /\ Cardinality(W) \in Nat
      <3>1. W \in SUBSET S
        BY <1>1 DEF Gone
      <3> QED BY <3>1, FS_Subset, FS_CardinalityType
    <2>3. CASE \E b \in Gone(w) : \A c \in S : c <= b => c \in T
      BY <1>4, <2>1, <2>3
    <2>4. CASE w.known <= Cardinality(W) /\ Own(S, w, v)
      <3>1. X = W \cup {v} /\ v \notin W
        BY <1>4, <1>5, <2>4
      <3> HIDE DEF W, X
      <3>2. Cardinality(X) = Cardinality(W) + 1
        BY <2>2, <3>1, FS_AddElement
      <3>3. x.known <= Cardinality(X)
        BY <1>0, <2>2, <2>4, <3>2
      <3> QED BY <2>1, <3>3 DEF X
    <2>5. CASE w.known <= Cardinality(W) /\ ~ Own(S, w, v)
      <3>1. X = W
        BY <1>4, <1>5, <2>5
      <3>2. CASE x.known = w.known
        BY <2>1, <2>5, <3>1, <3>2
      <3>3. CASE v \in T
        <4>1. \A c \in S : c < v => c \in T
          BY <1>3, <1>4, <1>9, <2>5, <3>3
        <4>2. \A c \in S : c <= v => c \in T
          BY <1>0, <1>4, <3>3, <4>1
        <4> QED BY <1>4, <2>1, <4>2
      <3> QED BY <3>2, <3>3
    <2> QED BY <1>3, <1>9, <2>3, <2>4, <2>5
  <1> QED BY <1>0, <1>6, <1>7, <1>8, <1>9 DEF VoteOK

\* A page is done: the walk stops where all that follows has its time, and goes
\* on with the next page otherwise.
LEMMA PageTurned ==
  ASSUME NEW S \in SUBSET Nat, IsFiniteSet(S), NEW T \in SUBSET S, NEW w \in Walks,
         VoteOK(S, T, w), w.left = {}
  PROVE  /\ (w.known > Enough /\ ~ w.forced) \/ Cardinality(w.list) < PageSize => Down(S, T)
         /\ \A x : x.list = {} /\ x.left = {} /\ x.known = 0 /\ x.page = w.page + 1
                     /\ x.cast = w.cast /\ x.forced = w.forced
                       => PageOK(S, T, x)
  <1>m. PICK m \in Nat : m = Start(w)
    <2>1. w.page \in Nat \ {0}
      BY DEF Walks
    <2> QED BY <2>1, PageOfPlaces DEF Start
  <1>0. /\ PageSize \in Nat /\ Enough \in Nat /\ w.cast \in Nat /\ w.known \in Nat
        /\ \A b \in S : After(S, b) \in Nat /\ b \in Nat
    <2>1. w.cast \in Nat /\ w.known \in Nat
      BY DEF Walks
    <2>2. PageSize \in Nat /\ Enough \in Nat
      BY PageAssumption
    <2>3. \A b \in S : After(S, b) \in Nat /\ b \in Nat
      BY PlacesNat
    <2> QED BY <2>1, <2>2, <2>3
  <1>1. /\ w.list \subseteq S /\ w.list # {}
        /\ Cardinality(w.list) < PageSize => \A b \in w.list, c \in S : c < b => c \in w.list
        /\ ~ w.forced => /\ \A b \in w.list : After(S, b) < m + PageSize + w.cast
                         /\ Cardinality({b \in w.list : Own(S, w, b)}) <= w.cast
                         /\ w.cast <= Enough
    BY <1>m DEF VoteOK, ListOK
  <1>2. /\ w.list \subseteq T
        /\ \A b \in T, c \in S :
             c < b /\ (After(S, c) < m + PageSize \/ \E e \in w.list : e < c) => c \in T
        /\ ~ w.forced =>
             /\ \A b \in T, c \in S : c < b /\ ~ Own(S, w, b) /\ b \notin w.list => c \in T
             /\ \/ w.known <= Cardinality({b \in w.list : Own(S, w, b)})
                \/ \E b \in w.list : \A c \in S : c <= b => c \in T
    <2>1. Gone(w) = w.list
      BY DEF Gone
    <2> QED BY <1>m, <2>1 DEF VoteOK
  <1>3. ASSUME NEW e \in w.list, \A c \in S : c <= e => c \in T PROVE Down(S, T)
    <2>1. ASSUME NEW b \in T, NEW c \in S, c < b PROVE c \in T
      <3>1. e \in Nat /\ c \in Nat
        BY <1>0, <1>1
      <3>2. c <= e \/ e < c
        BY <3>1
      <3> QED BY <1>2, <1>3, <2>1, <3>2
    <2> QED BY <2>1 DEF Down
  <1>4. ASSUME Cardinality(w.list) < PageSize PROVE Down(S, T)
    <2>1. PICK e \in w.list : TRUE
      BY <1>1
    <2>2. ASSUME NEW c \in S, c <= e PROVE c \in T
      <3>1. e \in Nat /\ c \in Nat
        BY <1>0, <1>1
      <3>2. c = e \/ c < e
        BY <2>2, <3>1
      <3> QED BY <1>1, <1>2, <1>4, <3>2
    <2> QED BY <1>3, <2>2
  <1>5. ASSUME w.known > Enough, ~ w.forced PROVE Down(S, T)
    <2>1. PICK n \in Nat : n = Cardinality({b \in w.list : Own(S, w, b)})
      <3>1. {b \in w.list : Own(S, w, b)} \in SUBSET S
        BY <1>1
      <3> QED BY <3>1, FS_Subset, FS_CardinalityType
    <2>2. n <= w.cast /\ w.cast <= Enough
      BY <1>1, <1>5, <2>1
    <2>3. ~ (w.known <= n)
      BY <1>0, <1>5, <2>2
    <2> QED BY <1>2, <1>3, <1>5, <2>1, <2>3
  <1>6. ASSUME NEW x, x.list = {}, x.left = {}, x.known = 0, x.page = w.page + 1,
               x.cast = w.cast, x.forced = w.forced
        PROVE  PageOK(S, T, x)
    <2>1. Start(x) = m + PageSize
      <3>1. PICK n \in Nat \ {0} : n = w.page
        BY DEF Walks
      <3>2. n + 1 \in Nat \ {0} /\ (n + 1) - 1 = n
        OBVIOUS
      <3>3. n * PageSize = (n - 1) * PageSize + PageSize
        BY <1>0
      <3>4. x.page - 1 = n
        BY <3>1, <3>2, <1>6
      <3> QED BY <1>m, <3>1, <3>3, <3>4 DEF Start
    <2>2. \A b \in T, c \in S : c < b /\ After(S, c) < m + PageSize => c \in T
      BY <1>2
    <2>3. ASSUME ~ w.forced, NEW b \in T, NEW c \in S, c < b, ~ Own(S, x, b) PROVE c \in T
      <3>1. ~ (After(S, b) < m + PageSize + w.cast) /\ After(S, b) \in Nat
        BY <1>0, <1>6, <2>1, <2>3 DEF Own
      <3>2. b \notin w.list
        BY <1>1, <2>3, <3>1
      <3>3. ~ Own(S, w, b)
        BY <1>0, <1>m, <3>1 DEF Own
      <3> QED BY <1>2, <2>3, <3>2, <3>3
    <2> QED BY <1>1, <1>6, <2>1, <2>2, <2>3 DEF PageOK
  <1> QED BY <1>3, <1>4, <1>5, <1>6

\* A walk comes to its DRep.
LEMMA WalkBegun ==
  ASSUME NEW S \in SUBSET Nat, IsFiniteSet(S), NEW T \in SUBSET S, Down(S, T), NEW x,
         x.list = {}, x.left = {}, x.known = 0, x.page = 1, x.cast = 0
  PROVE  PageOK(S, T, x)
  <1>1. 0 <= Enough
    BY PageAssumption
  <1> QED BY <1>1 DEF PageOK, Down

-----------------------------------------------------------------------------
(***************************************************************************)
(* No ballot with its block time comes after one without.                  *)
(***************************************************************************)
LEMMA MineFacts ==
  ASSUME VotesInv, NEW v
  PROVE  /\ Mine(v) \in SUBSET Nat /\ IsFiniteSet(Mine(v)) /\ Timed(v) \in SUBSET Mine(v)
         /\ \A b \in Mine(v) : /\ b \in 1..Len(ballots) /\ ballots[b][1] \in Proposal
                               /\ ballots[b] = <<ballots[b][1], v>>
  <1>1. Len(ballots) \in Nat
    BY DEF VotesInv, VotesTypeOK, Number
  <1>2. IsFiniteSet(1..Len(ballots)) /\ Mine(v) \in SUBSET (1..Len(ballots))
    BY <1>1, FS_Interval DEF Mine, Of
  <1>3. IsFiniteSet(Mine(v)) /\ Mine(v) \in SUBSET Nat
    BY <1>1, <1>2, FS_Subset
  <1>4. ASSUME NEW b \in Mine(v)
        PROVE  ballots[b][1] \in Proposal /\ ballots[b] = <<ballots[b][1], v>>
    <2>1. ballots[b] \in Proposal \X {v}
      BY DEF Mine, Of
    <2> QED BY <2>1
  <1> QED BY <1>2, <1>3, <1>4 DEF Timed

\* A DRep that replaced no ballot has one for a proposal.
LEMMA CastOnce ==
  ASSUME VotesInv, NEW v, ~ Revoted(v), NEW b \in Mine(v), NEW c \in Mine(v),
         ballots[b] = ballots[c]
  PROVE  b = c
  <1> SUFFICES ASSUME b # c PROVE FALSE
    OBVIOUS
  <1> DEFINE p == ballots[b][1]
             own == Of({<<p, v>>})
  <1>1. p \in Proposal /\ {b, c} \in SUBSET own /\ own \in SUBSET Mine(v)
    <2>1. /\ p \in Proposal /\ ballots[b] = <<p, v>> /\ ballots[c] = <<p, v>>
          /\ b \in 1..Len(ballots) /\ c \in 1..Len(ballots)
      BY MineFacts
    <2> QED BY <2>1 DEF Mine, Of
  <1>2. ~ (Cardinality(own) > 1)
    BY <1>1 DEF Revoted
  <1> HIDE DEF own
  <1>3. IsFiniteSet(own) /\ Cardinality(own) \in Nat
    BY <1>1, MineFacts, FS_Subset, FS_CardinalityType
  <1>4. Cardinality({b, c}) = 2
    <2>1. Cardinality({b}) = 1 /\ IsFiniteSet({b})
      BY FS_Singleton
    <2>2. {b, c} = {b} \cup {c} /\ c \notin {b}
      OBVIOUS
    <2> QED BY <2>1, <2>2, FS_AddElement
  <1>5. Cardinality({b, c}) <= Cardinality(own)
    BY <1>1, <1>3, FS_Subset
  <1> QED BY <1>2, <1>3, <1>4, <1>5

\* What the walk and the sweep do to one voter's rows is nothing to another's.
LEMMA TimesStand ==
  ASSUME VotesInv, UNCHANGED ballots, NEW v,
         \A b \in Mine(v) : rows'[ballots[b]].time = rows[ballots[b]].time
  PROVE  Mine(v)' = Mine(v) /\ Timed(v)' = Timed(v) /\ (Revoted(v)' <=> Revoted(v))
  BY DEF Mine, Timed, Revoted, Of

\* A step that leaves the times, and takes the walk to where it may be.
LEMMA GaplessMoves ==
  ASSUME VotesInv, Gapless, UNCHANGED <<ballots, rows>>,
         \A d \in DRep \ hit' :
           ~ Revoted(d) => IF walk'.at \in {"page", "vote"} /\ walk'.voter = d
                           THEN WalkOK(Mine(d), Timed(d), walk')
                           ELSE Down(Mine(d), Timed(d))
  PROVE  Gapless'
  <1>1. ASSUME NEW d \in DRep \ hit', ~ Revoted(d)'
        PROVE  IF Reading(d)' THEN WalkOK(Mine(d)', Timed(d)', walk')
               ELSE Down(Mine(d)', Timed(d)')
    <2>1. Mine(d)' = Mine(d) /\ Timed(d)' = Timed(d) /\ ~ Revoted(d)
      BY <1>1, TimesStand
    <2> QED BY <2>1 DEF Reading
  <1> QED BY <1>1, Zenon DEF Gapless, WalkOK, PageOK, VoteOK, ListOK, Down, Own, Start, Gone, After

LEMMA GaplessSweeps ==
  ASSUME VotesInv, Gapless, Sweep \/ VotesFail \/ VotesBehind \/ SweepCrashes \/ UNCHANGED votesVars
  PROVE  Gapless'
  <1>1. UNCHANGED <<ballots, walk, hit>>
    BY DEF Sweep, StartSweep, NextProposal, FetchVotes, WriteVotes, VotesFail, VotesBehind, HearVotes, SweepCrashes,
           sweepFrame, votesVars
  <1>2. ASSUME NEW pair \in Pair PROVE rows'[pair].time = rows[pair].time
    <2>1. rows[pair] \in [ballot : Number, time : Number]
      BY DEF VotesInv, Records
    <2>2. \/ rows' = rows
          \/ \E b : rows'[pair] = [rows[pair] EXCEPT !.ballot = b]
          \/ rows'[pair] = rows[pair]
      BY DEF Sweep, StartSweep, NextProposal, FetchVotes, WriteVotes, VotesFail, VotesBehind, HearVotes, SweepCrashes,
             votesVars
    <2> QED BY <2>1, <2>2
  <1>3. ASSUME NEW d \in DRep
        PROVE  Mine(d)' = Mine(d) /\ Timed(d)' = Timed(d) /\ (Revoted(d)' <=> Revoted(d))
    <2>1. ASSUME NEW b \in Mine(d) PROVE ballots[b] \in Pair
      <3>1. PICK p \in Proposal : ballots[b] = <<p, d>>
        BY MineFacts
      <3> QED BY <3>1 DEF Pair, Voter
    <2> QED BY <1>1, <1>2, <2>1, TimesStand
  <1> QED BY <1>1, <1>3 DEF Gapless, Reading

\* A step of the walk over one DRep's pages: what it leaves says how it goes on.
LEMMA GaplessWalks ==
  ASSUME VotesInv, Gapless,
         \/ StartWalk \/ NextDRep \/ FetchBallots \/ BallotsFail \/ BallotsBehind
         \/ TurnPage \/ CountVotes \/ WalkCrashes
  PROVE  Gapless'
  <1>0. walk \in Walks /\ (walk.at # "next" => walk.voter \in DRep)
    BY WalkFacts
  <1>w. PICK w \in Walks : w = walk
    BY <1>0
  <1>v. PICK v : v = w.voter
    OBVIOUS
  <1>1. ASSUME NEW d \in DRep
        PROVE  /\ Mine(d) \in SUBSET Nat /\ IsFiniteSet(Mine(d)) /\ Timed(d) \in SUBSET Mine(d)
    BY MineFacts
  <1>2. ASSUME NEW d \in DRep \ hit, ~ Revoted(d)
        PROVE  /\ w.at = "page" /\ d = v => PageOK(Mine(d), Timed(d), w)
               /\ w.at = "vote" /\ d = v => VoteOK(Mine(d), Timed(d), w)
               /\ w.at \notin {"page", "vote"} \/ d # v => Down(Mine(d), Timed(d))
    BY <1>2, <1>w, <1>v DEF Gapless, Reading, WalkOK
  <1>3. WalkRead.at = "count"
    BY <1>0 DEF WalkRead, Walks
  <1>4. CASE StartWalk
    <2>1. w.at = "next" /\ walk'.at = "next" /\ UNCHANGED <<ballots, rows, hit>>
      BY <1>4, <1>w DEF StartWalk, NoWalk, walkFrame
    <2> QED BY <1>2, <2>1, GaplessMoves
  <1>5. CASE NextDRep
    <2>1. /\ w.at = "next" /\ UNCHANGED <<ballots, rows, hit>>
          /\ walk'.at = "page" /\ walk'.list = {} /\ walk'.left = {} /\ walk'.known = 0
          /\ walk'.page = 1 /\ walk'.cast = 0
      BY <1>5, <1>w DEF NextDRep, NoWalk, walkFrame
    <2>2. ASSUME NEW d \in DRep \ hit', ~ Revoted(d)
          PROVE  IF walk'.at \in {"page", "vote"} /\ walk'.voter = d
                 THEN WalkOK(Mine(d), Timed(d), walk')
                 ELSE Down(Mine(d), Timed(d))
      <3>1. Down(Mine(d), Timed(d))
        BY <1>2, <2>1, <2>2
      <3>2. PageOK(Mine(d), Timed(d), walk')
        BY <1>1, <2>1, <3>1, WalkBegun
      <3> QED BY <2>1, <3>1, <3>2 DEF WalkOK
    <2> QED BY <2>1, <2>2, GaplessMoves
  <1>6. CASE FetchBallots
    <2>1. /\ w.at = "page" /\ UNCHANGED <<ballots, rows, hit>>
          /\ walk' = IF Newest(Mine(v), w.page) = {} THEN WalkRead
                     ELSE [w EXCEPT !.at = "vote", !.list = Newest(Mine(v), w.page),
                                    !.left = Newest(Mine(v), w.page)]
      BY <1>6, <1>w, <1>v DEF FetchBallots, HearBallots, walkFrame
    <2>2. ASSUME NEW d \in DRep \ hit', ~ Revoted(d)
          PROVE  IF walk'.at \in {"page", "vote"} /\ walk'.voter = d
                 THEN WalkOK(Mine(d), Timed(d), walk')
                 ELSE Down(Mine(d), Timed(d))
      <3>1. PICK list : list = Newest(Mine(v), w.page)
        OBVIOUS
      <3>2. PICK x : x = [w EXCEPT !.at = "vote", !.list = list, !.left = list]
        OBVIOUS
      <3>3. /\ x.at = "vote" /\ x.list = list /\ x.left = list /\ x.page = w.page
            /\ x.cast = w.cast /\ x.forced = w.forced /\ x.known = w.known /\ x.voter = v
        BY <1>v, <3>2 DEF Walks
      <3>4. CASE d # v
        <4>1. Down(Mine(d), Timed(d))
          BY <1>2, <2>1, <2>2, <3>4
        <4>2. walk'.voter = v \/ walk'.at = "count"
          BY <1>3, <2>1, <3>1, <3>2, <3>3
        <4> QED BY <3>4, <4>1, <4>2
      <3>5. CASE d = v
        <4>1. PageOK(Mine(d), Timed(d), w)
          BY <1>2, <2>1, <2>2, <3>5
        <4>2. IF x.list = {} THEN Down(Mine(d), Timed(d)) ELSE VoteOK(Mine(d), Timed(d), x)
          BY <1>1, <3>1, <3>3, <3>5, <4>1, PageRead
        <4>3. CASE list = {}
          BY <1>3, <2>1, <3>1, <3>3, <4>2, <4>3
        <4>4. CASE list # {}
          <5>1. walk' = x
            BY <2>1, <3>1, <3>2, <4>4
          <5> QED BY <3>3, <3>5, <4>2, <4>4, <5>1 DEF WalkOK
        <4> QED BY <4>3, <4>4
      <3> QED BY <3>4, <3>5
    <2> QED BY <2>1, <2>2, GaplessMoves
  <1>7. CASE BallotsFail
    <2>1. /\ UNCHANGED <<ballots, rows>> /\ hit' = hit \cup {v} /\ walk'.at = "count"
      BY <1>3, <1>7, <1>w, <1>v DEF BallotsFail, walkFrame
    <2>2. \A d \in DRep \ hit' : d \in DRep \ hit /\ d # v
      BY <2>1
    <2> QED BY <1>2, <2>1, <2>2, GaplessMoves
  <1>8. CASE TurnPage
    <2>1. /\ w.at = "vote" /\ w.left = {} /\ UNCHANGED <<ballots, rows, hit>>
          /\ walk' = IF LastPage THEN WalkRead
                     ELSE [w EXCEPT !.at = "page", !.page = @ + 1, !.list = {}, !.known = 0]
          /\ LastPage <=> (w.known > Enough /\ ~ w.forced) \/ Cardinality(w.list) < PageSize
      BY <1>8, <1>w DEF TurnPage, LastPage, walkFrame
    <2>2. ASSUME NEW d \in DRep \ hit', ~ Revoted(d)
          PROVE  IF walk'.at \in {"page", "vote"} /\ walk'.voter = d
                 THEN WalkOK(Mine(d), Timed(d), walk')
                 ELSE Down(Mine(d), Timed(d))
      <3>2. PICK x : x = [w EXCEPT !.at = "page", !.page = @ + 1, !.list = {}, !.known = 0]
        OBVIOUS
      <3>3. /\ x.at = "page" /\ x.list = {} /\ x.left = {} /\ x.page = w.page + 1
            /\ x.cast = w.cast /\ x.forced = w.forced /\ x.known = 0 /\ x.voter = v
        BY <1>v, <2>1, <3>2 DEF Walks
      <3>4. CASE d # v
        <4>1. Down(Mine(d), Timed(d))
          BY <1>2, <2>1, <2>2, <3>4
        <4>2. walk'.voter = v \/ walk'.at = "count"
          BY <1>3, <2>1, <3>2, <3>3
        <4> QED BY <3>4, <4>1, <4>2
      <3>5. CASE d = v
        <4>1. VoteOK(Mine(d), Timed(d), w)
          BY <1>2, <2>1, <2>2, <3>5
        <4>2. /\ LastPage => Down(Mine(d), Timed(d))
              /\ PageOK(Mine(d), Timed(d), x)
          BY <1>1, <2>1, <3>3, <4>1, PageTurned
        <4> QED BY <1>3, <2>1, <3>2, <3>3, <3>5, <4>2 DEF WalkOK
      <3> QED BY <3>4, <3>5
    <2> QED BY <2>1, <2>2, GaplessMoves
  <1>9. CASE CountVotes
    <2>1. w.at = "count" /\ UNCHANGED <<ballots, rows, hit>> /\ walk'.at = "next"
      BY <1>9, <1>w DEF CountVotes, walkFrame, WalkedOne, NoWalk
    <2> QED BY <1>2, <2>1, GaplessMoves
  <1>10. CASE WalkCrashes
    <2>1. /\ UNCHANGED <<ballots, rows>> /\ hit' = hit \cup ({v} \cap DRep) /\ walk'.at = "next"
      BY <1>10, <1>w, <1>v DEF WalkCrashes, walkFrame, NoWalk
    <2>2. \A d \in DRep \ hit' : d \in DRep \ hit /\ d # v
      BY <2>1
    <2> QED BY <1>2, <2>1, <2>2, GaplessMoves
  <1>11. CASE BallotsBehind
    <2>1. /\ UNCHANGED <<ballots, rows>> /\ hit' = hit \cup {v}
          /\ \/ walk' = WalkRead
             \/ \E list : walk' = [w EXCEPT !.at = "vote", !.list = list, !.left = list]
      BY <1>11, <1>w, <1>v DEF BallotsBehind, HearBallots, walkFrame
    <2>2. walk'.at = "count" \/ walk'.voter = v
      BY <1>3, <1>v, <2>1 DEF Walks
    <2>3. ASSUME NEW d \in DRep \ hit', ~ Revoted(d)
          PROVE  /\ ~ (walk'.at \in {"page", "vote"} /\ walk'.voter = d)
                 /\ Down(Mine(d), Timed(d))
      BY <1>2, <2>1, <2>2, <2>3
    <2> QED BY <2>1, <2>3, GaplessMoves
  <1> QED BY <1>4, <1>5, <1>6, <1>7, <1>8, <1>9, <1>10, <1>11

\* A vote is taken: its ballot has its block time from then on.
LEMMA GaplessVotes ==
  ASSUME VotesInv, Gapless, TakeVote \/ VoteFails
  PROVE  Gapless'
  <1>0. walk \in Walks /\ walk.left \subseteq Mine(walk.voter)
    BY WalkFacts DEF Mine
  <1>w. PICK w \in Walks : w = walk
    BY <1>0
  <1>v. PICK v : v = w.voter
    OBVIOUS
  <1>1. PICK k \in w.left :
          /\ \A c \in w.left : c <= k
          /\ \/ /\ Known(k) /\ UNCHANGED <<rows, hit>>
                /\ walk' = [w EXCEPT !.left = @ \ {k}, !.known = @ + 1]
             \/ /\ rows' = [rows EXCEPT ![ballots[k]] = [ballot |-> k, time |-> k]]
                /\ walk' = [w EXCEPT !.left = @ \ {k}, !.synced = @ + 1] /\ UNCHANGED hit
             \/ /\ \E r : rows' = [rows EXCEPT ![ballots[k]] = r]
                /\ hit' = hit \cup {v}
                /\ walk' = [w EXCEPT !.left = @ \ {k}, !.synced = @ + 1]
                     \/ walk' = [w EXCEPT !.left = @ \ {k}]
    <2>1. CASE TakeVote
      BY <2>1, <1>w DEF TakeVote, IsNext
    <2>2. CASE VoteFails
      <3>1. PICK b \in w.left :
              /\ IsNext(b)
              /\ \/ /\ rows' = [rows EXCEPT ![ballots[b]] = [ballot |-> b, time |-> 0]]
                    /\ walk' = [w EXCEPT !.left = @ \ {b}, !.synced = @ + 1]
                 \/ walk' = [w EXCEPT !.left = @ \ {b}] /\ UNCHANGED rows
        BY <2>2, <1>w DEF VoteFails
      <3>2. rows = [rows EXCEPT ![ballots[b]] = rows[ballots[b]]]
        BY DEF VotesInv, Records
      <3>3. hit' = hit \cup {v}
        BY <2>2, <1>w, <1>v DEF VoteFails
      <3>4. \A c \in w.left : c <= b
        BY <1>w, <3>1 DEF IsNext
      <3> QED BY <3>1, <3>2, <3>3, <3>4
    <2> QED BY <2>1, <2>2
  <1>2. /\ UNCHANGED ballots /\ w.at = "vote"
        /\ k \in Mine(v) /\ ballots[k] \in Pair /\ ballots[k][2] = v /\ k # 0
    <2>1. UNCHANGED ballots /\ w.at = "vote"
      BY <1>w DEF TakeVote, VoteFails, walkFrame
    <2>2. k \in Mine(v) /\ v \in DRep
      BY <1>0, <1>w, <1>v, <2>1, WalkFacts
    <2>3. k \in 1..Len(ballots) /\ ballots[k][1] \in Proposal /\ ballots[k] = <<ballots[k][1], v>>
      BY <2>2, MineFacts
    <2>4. ballots[k] \in Pair
      <3>1. PICK p \in Proposal : ballots[k] = <<p, v>>
        BY <2>3
      <3> QED BY <2>2, <3>1 DEF Pair, Voter
    <2>5. ballots[k][2] = v /\ k # 0
      <3>1. PICK p : ballots[k] = <<p, v>>
        BY <2>3
      <3>2. Len(ballots) \in Nat
        BY DEF VotesInv, VotesTypeOK, Number
      <3> QED BY <2>3, <3>1, <3>2
    <2> QED BY <2>1, <2>2, <2>4, <2>5
  <1>3. walk'.at = "vote" /\ walk'.voter = v
    BY <1>1, <1>2, <1>v DEF Walks
  <1>4. rows \in [Pair -> [ballot : Number, time : Number]]
    BY DEF VotesInv, Records
  <1>5. ASSUME NEW d \in DRep \ hit', ~ Revoted(d)', d # v
        PROVE  ~ Reading(d)' /\ Down(Mine(d)', Timed(d)')
    <2>1. \A b \in Mine(d) : rows'[ballots[b]].time = rows[ballots[b]].time
      <3> TAKE b \in Mine(d)
      <3>1. PICK p \in Proposal : ballots[b] = <<p, d>>
        BY MineFacts
      <3>2. ballots[b] # ballots[k] /\ ballots[b] \in Pair
        BY <1>2, <1>5, <3>1 DEF Pair, Voter
      <3> QED BY <1>1, <1>4, <3>2
    <2>2. Mine(d)' = Mine(d) /\ Timed(d)' = Timed(d) /\ ~ Revoted(d)
      BY <1>2, <1>5, <2>1, TimesStand
    <2>3. d \in DRep \ hit /\ ~ Reading(d)
      BY <1>1, <1>5, <1>w, <1>v DEF Reading
    <2>4. Down(Mine(d), Timed(d))
      BY <2>2, <2>3 DEF Gapless
    <2>5. ~ Reading(d)'
      BY <1>3, <1>5 DEF Reading
    <2> QED BY <2>2, <2>4, <2>5
  <1>6. ASSUME NEW d \in DRep \ hit', ~ Revoted(d)', d = v
        PROVE  Reading(d)' /\ WalkOK(Mine(d)', Timed(d)', walk')
    <2>1. d \notin hit /\ d \in DRep
      BY <1>1, <1>6
    <2>2. ~ Revoted(d) /\ Mine(d)' = Mine(d)
      BY <1>2, <1>6 DEF Revoted, Mine, Of
    <2>3. VoteOK(Mine(d), Timed(d), w)
      BY <1>2, <1>6, <1>w, <1>v, <2>1, <2>2 DEF Gapless, Reading, WalkOK
    <2>4. \/ Known(k) /\ UNCHANGED rows /\ walk' = [w EXCEPT !.left = @ \ {k}, !.known = @ + 1]
          \/ /\ rows' = [rows EXCEPT ![ballots[k]] = [ballot |-> k, time |-> k]]
             /\ walk' = [w EXCEPT !.left = @ \ {k}, !.synced = @ + 1]
      BY <1>1, <1>6
    <2>5. Timed(d)' = Timed(d) \cup {k} /\ (Known(k) => k \in Timed(d))
      <3>1. Known(k) => k \in Timed(d)
        BY <1>2, <1>6 DEF Known, Timed
      <3>2. CASE UNCHANGED rows /\ Known(k)
        <4>1. Timed(d)' = Timed(d)
          BY <1>2, <3>2 DEF Timed, Mine, Of
        <4> QED BY <3>1, <3>2, <4>1
      <3>3. CASE rows' = [rows EXCEPT ![ballots[k]] = [ballot |-> k, time |-> k]]
        <4>1. rows'[ballots[k]].time # 0
          BY <1>2, <1>4, <3>3
        <4>2. ASSUME NEW b \in Mine(d), b # k
              PROVE  rows'[ballots[b]].time = rows[ballots[b]].time
          <5>1. ballots[b] # ballots[k]
            BY <1>2, <1>6, <2>2, <4>2, CastOnce
          <5> QED BY <3>3, <1>4, <5>1
        <4>3. \A b : b \in Timed(d)' <=> b \in Mine(d) /\ rows'[ballots[b]].time # 0
          BY <1>2, <2>2 DEF Timed
        <4>4. \A b : b \in Timed(d)' <=> b \in Timed(d) \/ b = k
          BY <1>2, <1>6, <4>1, <4>2, <4>3 DEF Timed
        <4> QED BY <3>1, <4>4
      <3> QED BY <2>4, <3>2, <3>3
    <2>6. /\ walk'.list = w.list /\ walk'.left = w.left \ {k} /\ walk'.page = w.page
          /\ walk'.cast = w.cast /\ walk'.forced = w.forced
          /\ walk'.known = w.known \/ (walk'.known = w.known + 1 /\ Known(k))
      BY <2>4 DEF Walks
    <2>7. VoteOK(Mine(d), Timed(d) \cup {k}, walk')
      <3>1. Mine(d) \in SUBSET Nat /\ IsFiniteSet(Mine(d)) /\ Timed(d) \in SUBSET Mine(d)
        BY MineFacts
      <3>2. walk'.known = w.known \/ (walk'.known = w.known + 1 /\ k \in Timed(d))
        BY <2>5, <2>6
      <3> QED BY <1>1, <2>3, <2>6, <3>1, <3>2, VoteGone
    <2>8. Reading(d)'
      BY <1>3, <1>6 DEF Reading
    <2> QED BY <1>3, <2>2, <2>5, <2>7, <2>8 DEF WalkOK
  <1>7. ASSUME NEW d \in DRep \ hit', ~ Revoted(d)'
        PROVE  IF Reading(d)' THEN WalkOK(Mine(d)', Timed(d)', walk')
               ELSE Down(Mine(d)', Timed(d)')
    BY <1>5, <1>6, <1>7
  <1> QED BY <1>7, Zenon DEF Gapless, WalkOK, PageOK, VoteOK, ListOK, Down, Own, Start, Gone, After

\* A ballot is cast: it heads the list of its voter, without a time.
LEMMA GaplessCasts ==
  ASSUME VotesInv, Gapless, NEW pair \in Eligible, CastBallot(pair)
  PROVE  Gapless'
  <1>0. /\ pair \in Pair /\ pair = <<pair[1], pair[2]>> /\ pair[1] \in Proposal
        /\ ballots \in Seq(Pair) /\ Len(ballots) \in Nat
        /\ ballots' = Append(ballots, pair) /\ UNCHANGED rows
    <2>1. pair \in Pair /\ ballots' = Append(ballots, pair) /\ UNCHANGED rows
      BY EligibleAssumption DEF CastBallot
    <2>2. ballots \in Seq(Pair) /\ Len(ballots) \in Nat
      BY DEF VotesInv, VotesTypeOK, Number
    <2> QED BY <2>1, <2>2 DEF Pair
  <1>f. \A S : IsFiniteSet(Of(S))
    <2>1. IsFiniteSet(1..MaxBallots)
      BY FS_Interval
    <2> QED BY <2>1, WalkFacts, FS_Subset
  <1>k. PICK k \in Nat : k = Len(ballots) + 1
    BY <1>0
  <1>w. PICK w \in Walks : w = walk
    BY WalkFacts
  <1>1. /\ \A b : b \in 1..Len(ballots') <=> b \in 1..Len(ballots) \/ b = k
        /\ \A b \in 1..Len(ballots) : ballots'[b] = ballots[b] /\ b < k
        /\ ballots'[k] = pair /\ k \notin 1..Len(ballots)
    BY <1>0, <1>k
  <1>2. \A S : /\ pair \in S => Of(S)' = Of(S) \cup {k}
               /\ pair \notin S => Of(S)' = Of(S)
    BY <1>1 DEF Of
  <1>3. ASSUME NEW d \in DRep, ~ Revoted(d)' PROVE ~ Revoted(d)
    <2> SUFFICES ASSUME NEW p \in Proposal, Cardinality(Of({<<p, d>>})) > 1 PROVE FALSE
      BY DEF Revoted
    <2> DEFINE old == Of({<<p, d>>})
               new == Of({<<p, d>>})'
    <2>1. ~ (Cardinality(new) > 1)
      BY <1>3 DEF Revoted
    <2>2. IsFiniteSet(old) /\ old \in SUBSET new /\ (new = old \/ new = old \cup {k})
      BY <1>2, <1>f
    <2> HIDE DEF old, new
    <2>4. IsFiniteSet(old) /\ IsFiniteSet(new)
      BY <2>2, FS_AddElement
    <2>5. Cardinality(old) <= Cardinality(new) /\ Cardinality(old) \in Nat /\ Cardinality(new) \in Nat
      BY <2>2, <2>4, FS_Subset, FS_CardinalityType
    <2>6. Cardinality(old) > 1
      BY DEF old
    <2> QED BY <2>1, <2>5, <2>6
  <1>4. \/ Counting(pair[2]) /\ w.cast < Enough /\ walk' = [w EXCEPT !.cast = @ + 1] /\ hit' = hit
        \/ Counting(pair[2]) /\ hit' = hit \cup {pair[2]} /\ walk' = w
        \/ ~ Counting(pair[2]) /\ hit' = hit /\ walk' = w
    <2>1. CASE Counting(pair[2])
      BY <1>w, <2>1 DEF CastBallot
    <2>2. CASE ~ Counting(pair[2])
      <3>1. UNCHANGED <<walk, hit>>
        BY <2>2, Zenon DEF CastBallot
      <3> QED BY <1>w, <2>2, <3>1
    <2> QED BY <2>1, <2>2
  <1>5. walk'.at = w.at /\ walk'.voter = w.voter
    BY <1>4 DEF Walks
  <1>6. ASSUME NEW d \in DRep \ hit', ~ Revoted(d)', d # pair[2]
        PROVE  IF Reading(d)' THEN WalkOK(Mine(d)', Timed(d)', walk')
               ELSE Down(Mine(d)', Timed(d)')
    <2>1. d \in DRep \ hit /\ ~ Revoted(d)
      BY <1>3, <1>4, <1>6
    <2>2. pair \notin Proposal \X {d}
      BY <1>0, <1>6
    <2>3. Mine(d)' = Mine(d)
      BY <1>2, <2>2 DEF Mine
    <2>4. Timed(d)' = Timed(d)
      <3>1. \A b \in Mine(d) : ballots'[b] = ballots[b]
        BY <1>1, MineFacts
      <3> QED BY <1>0, <2>3, <3>1 DEF Timed
    <2>5. CASE Reading(d)
      <3>1. ~ Counting(pair[2]) /\ walk' = walk
        BY <1>4, <1>6, <1>w, <2>5 DEF Counting, Reading
      <3> QED BY <2>1, <2>3, <2>4, <2>5, <3>1 DEF Gapless, Reading
    <2>6. CASE ~ Reading(d)
      <3>1. ~ Reading(d)'
        BY <1>5, <1>w, <2>6 DEF Reading
      <3> QED BY <2>1, <2>3, <2>4, <2>6, <3>1 DEF Gapless
    <2> QED BY <2>5, <2>6
  <1>7. ASSUME NEW d \in DRep \ hit', ~ Revoted(d)', d = pair[2]
        PROVE  IF Reading(d)' THEN WalkOK(Mine(d)', Timed(d)', walk')
               ELSE Down(Mine(d)', Timed(d)')
    <2>1. d \in DRep \ hit /\ ~ Revoted(d) /\ ~ (Counting(d) /\ walk' = w /\ hit' = hit \cup {d})
      BY <1>3, <1>4, <1>7
    <2>2. Mine(d)' = Mine(d) \cup {k}
      BY <1>0, <1>2, <1>7 DEF Mine
    <2>3. rows[pair].time = 0
      <3>1. Of({pair}) = {}
        <4> SUFFICES ASSUME NEW b \in Of({pair}) PROVE FALSE
          OBVIOUS
        <4>1. Of({pair})' = Of({pair}) \cup {k} /\ k \notin Of({pair})
          BY <1>1, <1>2 DEF Of
        <4>2. IsFiniteSet(Of({pair}))
          BY <1>f
        <4>3. Cardinality(Of({pair}) \cup {k}) = Cardinality(Of({pair})) + 1
          BY <4>1, <4>2, FS_AddElement
        <4>4. Cardinality(Of({pair})) \in Nat /\ Cardinality(Of({pair})) # 0
          BY <4>2, FS_CardinalityType, FS_EmptySet
        <4>5. Cardinality(Of({pair})') > 1
          <5>1. PICK n \in Nat : n = Cardinality(Of({pair}))
            BY <4>4
          <5>2. n # 0 /\ Cardinality(Of({pair}) \cup {k}) = n + 1
            BY <4>3, <4>4, <5>1
          <5> QED BY <4>1, <5>2
        <4>6. <<pair[1], d>> = pair
          BY <1>0, <1>7
        <4> QED BY <1>0, <1>7, <4>5, <4>6 DEF Revoted
      <3> QED BY <1>0, <3>1 DEF VotesInv, VotesTypeOK
    <2>4. Timed(d)' = Timed(d)
      <3>1. \A b \in Mine(d) : ballots'[b] = ballots[b]
        BY <1>1, MineFacts
      <3>2. \A b : b \in Timed(d)' <=> b \in Mine(d) \cup {k} /\ rows[ballots'[b]].time # 0
        BY <1>0, <2>2 DEF Timed
      <3>3. \A b : b \in Timed(d)' <=> b \in Timed(d)
        BY <1>1, <2>3, <3>1, <3>2 DEF Timed
      <3> QED BY <3>3
    <2>5. /\ Mine(d) \in SUBSET Nat /\ IsFiniteSet(Mine(d)) /\ Timed(d) \in SUBSET Mine(d)
          /\ \A b \in Mine(d) : b < k
      BY <1>1, MineFacts
    <2>6. CASE Reading(d)
      <3>1. WalkOK(Mine(d), Timed(d), w)
        BY <1>w, <2>1, <2>6 DEF Gapless
      <3>2. /\ walk'.list = w.list /\ walk'.left = w.left /\ walk'.page = w.page
            /\ walk'.known = w.known /\ walk'.forced = w.forced
            /\ ~ w.forced => w.cast < Enough /\ walk'.cast = w.cast + 1
        BY <1>4, <1>7, <1>w, <2>1, <2>6 DEF Counting, Walks
      <3>3. /\ PageOK(Mine(d), Timed(d), w) => PageOK(Mine(d) \cup {k}, Timed(d), walk')
            /\ VoteOK(Mine(d), Timed(d), w) => VoteOK(Mine(d) \cup {k}, Timed(d), walk')
        BY <2>5, <3>2, WalkOutrun
      <3>4. Reading(d)'
        BY <1>5, <1>w, <2>6 DEF Reading
      <3> QED BY <1>5, <2>2, <2>4, <3>1, <3>3, <3>4 DEF WalkOK
    <2>7. CASE ~ Reading(d)
      <3>1. ~ Reading(d)'
        BY <1>5, <1>w, <2>7 DEF Reading
      <3>2. Down(Mine(d), Timed(d))
        BY <2>1, <2>7 DEF Gapless
      <3>3. \A b \in Timed(d) : b < k /\ b \in Nat
        BY <2>5
      <3>4. Down(Mine(d) \cup {k}, Timed(d))
        BY <3>2, <3>3 DEF Down
      <3> QED BY <2>2, <2>4, <3>1, <3>4
    <2> QED BY <2>6, <2>7
  <1>8. ASSUME NEW d \in DRep \ hit', ~ Revoted(d)'
        PROVE  IF Reading(d)' THEN WalkOK(Mine(d)', Timed(d)', walk')
               ELSE Down(Mine(d)', Timed(d)')
    BY <1>6, <1>7, <1>8
  <1> QED BY <1>8, Zenon DEF Gapless, WalkOK, PageOK, VoteOK, ListOK, Down, Own, Start, Gone, After

LEMMA GaplessFirst == VotesInit => Gapless
  <1> SUFFICES ASSUME VotesInit, NEW d \in DRep PROVE ~ Reading(d) /\ Down(Mine(d), Timed(d))
    BY DEF Gapless
  <1>1. Mine(d) = {} /\ Timed(d) = {}
    BY DEF VotesInit, Mine, Timed, Of
  <1>2. ~ Reading(d)
    BY DEF VotesInit, Reading, NoWalk
  <1> QED BY <1>1, <1>2 DEF Down

LEMMA GaplessAlways == VotesSpec => []Gapless
  <1>1. VotesInv /\ Gapless /\ [VotesNext]_votesVars => Gapless'
    <2> SUFFICES ASSUME VotesInv, Gapless, [VotesNext]_votesVars PROVE Gapless'
      OBVIOUS
    <2>1. CASE UNCHANGED votesVars
      BY <2>1, GaplessSweeps
    <2>2. CASE VotesNext
      BY <2>2, GaplessCasts, GaplessWalks, GaplessVotes, GaplessSweeps DEF VotesNext, Walk
    <2> QED BY <2>1, <2>2
  <1> QED BY <1>1, GaplessFirst, VotesAlways, PTL DEF VotesSpec

\* A walk that stops at a page it knows misses nothing: of a DRep that replaced
\* no ballot, that no fault hit and that outran no walk, no ballot with its block
\* time comes after one without, between the walks, whatever the size of a page
\* and the number of ballots cast while they read.
THEOREM WalksOvertakeNone == VotesSpec => []NoneOvertaken
  <1>1. Gapless => NoneOvertaken
    BY DEF Gapless, NoneOvertaken, Down
  <1> QED BY <1>1, GaplessAlways, PTL

=============================================================================
