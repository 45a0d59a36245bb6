---------------------------- MODULE MCVotesSync ----------------------------
(***************************************************************************)
(* VotesSync for TLC.  A behaviour has both jobs, and a few ballots that    *)
(* may replace each other; or the walk alone, forced or not, on ballots    *)
(* that fill three pages.                                                  *)
(***************************************************************************)
EXTENDS VotesSync

CONSTANTS d1, s1, p1, p2, p3, p4, p5

VARIABLE alone      \* no sweep in this behaviour

MCVars == <<votesVars, alone>>

\* With both jobs the DRep may vote on two proposals, the pool on one; alone, a
\* DRep votes on all, in one order: the walk does not tell proposals apart.
Everyone == {<<p1, d1>>, <<p2, d1>>, <<p3, d1>>, <<p4, d1>>, <<p5, d1>>, <<p1, s1>>}
Together == {<<p1, d1>>, <<p2, d1>>, <<p1, s1>>}
InOrder  == <<<<p1, d1>>, <<p2, d1>>, <<p3, d1>>, <<p4, d1>>, <<p5, d1>>>>

\* Nobody votes on p3, p4 and p5 where the sweep runs; it has no reason to visit them.
MCInit ==
  /\ VotesInit
  /\ alone \in BOOLEAN
  /\ IF alone THEN clean = Documented ELSE {p3, p4, p5} \subseteq clean

MCCast ==
  \E pair \in Eligible :
    /\ \/ alone /\ Len(ballots) < Len(InOrder) /\ pair = InOrder[Len(ballots) + 1]
       \/ ~ alone /\ Len(ballots) < 3 /\ pair \in Together
    /\ CastBallot(pair)
    /\ UNCHANGED alone

MCWalk  == Walk /\ (alone \/ ~ walk'.forced) /\ UNCHANGED alone
MCSweep == ~ alone /\ Sweep /\ UNCHANGED alone

MCNext ==
  \/ MCCast \/ MCWalk \/ MCSweep
  \/ (BallotsFail \/ BallotsBehind \/ VoteFails \/ WalkCrashes) /\ UNCHANGED alone
  \/ (VotesFail \/ VotesBehind \/ SweepCrashes) /\ UNCHANGED alone

\* The fairness of VotesFairSpec, for the jobs there are.
MCSpec ==
  /\ MCInit /\ [][MCNext]_MCVars
  /\ WF_MCVars(MCWalk) /\ WF_MCVars(MCSweep)
=============================================================================
