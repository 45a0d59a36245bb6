------------------------------ MODULE Blockfrost ------------------------------
(***************************************************************************)
(* What the workers of queue-backend read from Blockfrost.  Every call     *)
(* goes to the primary source; when that fails, other than with 404, the   *)
(* same call goes to the fallback.  The two are instances of their own,    *)
(* each at its own height of the one chain, so two calls of a run may be   *)
(* answered from different heights, in either order.  Rollbacks are left   *)
(* out: a source only moves forward.                                       *)
(***************************************************************************)
EXTENDS Integers, Sequences

CONSTANT MaxFaults  \* bound: failed calls and crashes

ASSUME FaultAssumption == MaxFaults \in Nat

Source == {"primary", "fallback"}

VARIABLES
  past,   \* every state the chain has been in, the newest last
  at,     \* the position in past of the state each source shows
  faults  \* number of faults so far

Tip == past[Len(past)]
Shown(s) == past[at[s]]

\* A source has taken in one more state of the chain (external).
CatchUp(s) ==
  /\ at[s] < Len(past)
  /\ at' = [at EXCEPT ![s] = @ + 1]
  /\ UNCHANGED <<past, faults>>

\* Source s answers a call of executeWithFallback: the fallback does when the
\* primary has failed.
Answers(s) ==
  \/ s = "primary" /\ UNCHANGED faults
  \/ s = "fallback" /\ faults < MaxFaults /\ faults' = faults + 1

\* The primary stays in step with the chain from some time on.
PrimaryCurrent == <>[](at["primary"] = Len(past))
=============================================================================
