-------------------------- MODULE MCTimelineWatcher --------------------------
(***************************************************************************)
(* Instances of TimelineWatcher for TLC.  The model values of DRep are     *)
(* interchangeable, as are those of Worker.                                *)
(***************************************************************************)
EXTENDS TimelineWatcher, TLC

\* Sound for the safety runs only: TLC must not combine it with liveness.
WatcherSymmetry == Permutations(Worker) \cup Permutations(DRep)
=============================================================================
