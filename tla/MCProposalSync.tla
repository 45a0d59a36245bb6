---------------------------- MODULE MCProposalSync ----------------------------
(***************************************************************************)
(* Instances of ProposalSync for TLC.                                      *)
(***************************************************************************)
EXTENDS ProposalSync

(***************************************************************************)
(* Three bounds at once, each an instance of its own: overlapping runs     *)
(* over two pages on a primary that lags, one run at a time whose calls    *)
(* fail over between sources at different heights, and overlapping runs    *)
(* with a failure.  shape is the instance a behaviour belongs to.          *)
(***************************************************************************)
VARIABLE shape

Shape == {[runs |-> 2, proposals |-> 2, faults |-> 0],
          [runs |-> 1, proposals |-> 2, faults |-> 2],
          [runs |-> 2, proposals |-> 1, faults |-> 1]}

Within ==
  /\ Cardinality({w \in Worker : job[w].pc # "idle"}) <= shape.runs
  /\ Tip.count <= shape.proposals
  /\ faults <= shape.faults

InShape(A) == A /\ UNCHANGED shape /\ Within'

MCInit == Init /\ shape \in Shape
MCNext == InShape(Next)
MCVars == <<vars, shape>>

MCSpec ==
  /\ MCInit /\ [][MCNext]_MCVars
  /\ \A w \in Worker : WF_MCVars(InShape(RunStep(w)))
=============================================================================
