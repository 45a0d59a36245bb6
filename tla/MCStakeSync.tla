----------------------------- MODULE MCStakeSync -----------------------------
(***************************************************************************)
(* StakeSync for TLC.  Two runs overlap in a behaviour: two of the stake   *)
(* sync, or one of it and one of the list sync.                            *)
(***************************************************************************)
EXTENDS StakeSync

VARIABLE able      \* who can run in this behaviour

MCVars == <<vars, able>>

MCInit ==
  /\ Init
  /\ able \in {Worker, {CHOOSE w \in Worker : TRUE} \cup Lister}

RunMoves(w)  == w \in able /\ RunStep(w) /\ UNCHANGED able
ListMoves(l) == l \in able /\ ListStep(l) /\ UNCHANGED able

MCNext ==
  \/ (EpochBegins \/ PrimaryCatchesUp \/ FallbackCatchesUp) /\ UNCHANGED able
  \/ \E w \in Worker : RunMoves(w)  \/ (w \in able /\ RunFault(w)  /\ UNCHANGED able)
  \/ \E l \in Lister : ListMoves(l) \/ (l \in able /\ ListFault(l) /\ UNCHANGED able)

\* The fairness of FairSpec, for those who can run.
MCSpec ==
  /\ MCInit /\ [][MCNext]_MCVars
  /\ \A w \in Worker : WF_MCVars(RunMoves(w))
  /\ \A l \in Lister : WF_MCVars(ListMoves(l))
=============================================================================
