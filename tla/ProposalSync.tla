----------------------------- MODULE ProposalSync -----------------------------
(***************************************************************************)
(* The proposals table of queue-backend and the two workers that refresh   *)
(* it with the same loop: the proposals sync (every six hours) and the     *)
(* governance sync (at midnight, so together with it).  A run lists the    *)
(* proposals newest first, page by page, and for each one that is not      *)
(* closed in the table reads the row, fetches the proposal and, when the   *)
(* row has no block time, its transaction, and upserts the row.            *)
(*                                                                         *)
(* Every database or Blockfrost call is a step of its own; the chain moves *)
(* on, Blockfrost's sources catch up, and other runs write, between any    *)
(* two of them.                                                            *)
(***************************************************************************)
EXTENDS Blockfrost, FiniteSets

CONSTANTS
  Worker,        \* runs of either worker that may be active at a time
  None,          \* no row
  PageSize,      \* proposals per page: 100
  MaxProposals   \* bound: proposals ever submitted

ASSUME PageAssumption  == PageSize \in Nat \ {0}
ASSUME BoundAssumption == MaxProposals \in Nat

\* closed: enacted, expired or dropped; open: none of these, ratified or not.
Status == {"open", "closed"}

Proposal == 1..MaxProposals     \* in the order of their submission
Row == [status : Status, timed : BOOLEAN]
ASSUME NoneAssumption == None \notin Row

\* A state of the chain: how many proposals there are, and which are closed.
Ledger == [count : 0..MaxProposals, closed : SUBSET Proposal]

VARIABLES
  table,      \* the proposals table
  job         \* the local state of each run

chain == <<past, at>>
vars  == <<chain, table, job, faults>>

\* items is what is left of the page, last whether the page was not full, old
\* is `existing', new the row about to be upserted.  History: seen is how many
\* proposals the source of the last page knew, goal the proposals the source
\* of the first page knew, done those the run has taken, clean that no call of
\* it has failed and no page came from a source that knew fewer proposals than
\* the source of the page before.
Job == [pc : {"idle", "list", "item", "detail", "time", "save"},
        page : Nat, items : SUBSET Proposal, last : BOOLEAN,
        old : Row \cup {None}, new : Row \cup {None}, seen : 0..MaxProposals,
        goal : SUBSET Proposal, done : SUBSET Proposal, clean : BOOLEAN]
Idle == [pc |-> "idle", page |-> 0, items |-> {}, last |-> FALSE, old |-> None,
         new |-> None, seen |-> 0, goal |-> {}, done |-> {}, clean |-> TRUE]

StatusIn(l, i) == IF i \in l.closed THEN "closed" ELSE "open"

\* /governance/proposals?page={p}&count=PageSize&order=desc, where there are n.
Page(n, p) == {i \in 1..n : n - i \in ((p - 1) * PageSize)..(p * PageSize - 1)}

Current(w, i) == i \in job[w].items /\ \A j \in job[w].items : j <= i

\* Slip: every stored proposal is skipped.
Known(i) == table[i] # None

Closed(i) == table[i] # None /\ table[i].status = "closed"

Init ==
  /\ past = <<[count |-> 0, closed |-> {}]>>
  /\ at = [s \in Source |-> 1]
  /\ table = [i \in Proposal |-> None]
  /\ job = [w \in Worker |-> Idle]
  /\ faults = 0

(***************************************************************************)
(* The chain (external).                                                   *)
(***************************************************************************)
Submit ==
  /\ Tip.count < MaxProposals
  /\ past' = Append(past, [Tip EXCEPT !.count = @ + 1])
  /\ UNCHANGED <<at, table, job, faults>>

Close(i) ==
  /\ i <= Tip.count
  /\ i \notin Tip.closed
  /\ past' = Append(past, [Tip EXCEPT !.closed = @ \cup {i}])
  /\ UNCHANGED <<at, table, job, faults>>

SourceCatchesUp(s) == CatchUp(s) /\ UNCHANGED <<table, job>>

(***************************************************************************)
(* One run of syncProposals() by worker w.                                 *)
(***************************************************************************)
StartSync(w) ==
  /\ job[w].pc = "idle"
  /\ job' = [job EXCEPT ![w] = [Idle EXCEPT !.pc = "list", !.page = 1]]
  /\ UNCHANGED <<chain, table, faults>>

\* The run goes through `page' as source s shows it.
Listed(j, s, page, last) ==
  LET n == Shown(s).count IN
  [j EXCEPT !.pc = "item", !.items = page, !.last = last, !.seen = n,
            !.goal  = IF j.page = 1 THEN 1..n ELSE @,
            !.clean = @ /\ j.seen <= n]

\* Slip: a full page is taken for the last one.
FetchListOnce(w, s) ==
  /\ job[w].pc = "list"
  /\ Answers(s)
  /\ job' = [job EXCEPT ![w] = Listed(@, s, Page(Shown(s).count, @.page), TRUE)]
  /\ UNCHANGED <<chain, table>>

FetchList(w, s) ==
  LET page == Page(Shown(s).count, job[w].page) IN
  /\ job[w].pc = "list"
  /\ Answers(s)
  /\ job' = [job EXCEPT ![w] = Listed(@, s, page, Cardinality(page) < PageSize)]
  /\ UNCHANGED <<chain, table>>

\* Skip only terminal states.
SkipClosed(w, i) ==
  /\ job[w].pc = "item"
  /\ Current(w, i)
  /\ Closed(i)
  /\ job' = [job EXCEPT ![w].items = @ \ {i}, ![w].done = @ \cup {i}]
  /\ UNCHANGED <<chain, table, faults>>

ReadExisting(w, i) ==
  /\ job[w].pc = "item"
  /\ Current(w, i)
  /\ ~ Closed(i)
  /\ job' = [job EXCEPT ![w].pc = "detail", ![w].old = table[i]]
  /\ UNCHANGED <<chain, table, faults>>

\* Source s, which answers, knows proposal i.
Served(s, i) == Answers(s) /\ i <= Shown(s).count

\* Slip: the row is not built.
FetchNothing(w, s, i) ==
  /\ job[w].pc = "detail"
  /\ Current(w, i)
  /\ Served(s, i)
  /\ job' = [job EXCEPT ![w].pc = "time"]
  /\ UNCHANGED <<chain, table>>

\* Slip: the block time starts out as null.
FetchUntimed(w, s, i) ==
  /\ job[w].pc = "detail"
  /\ Current(w, i)
  /\ Served(s, i)
  /\ job' = [job EXCEPT ![w].pc  = "time",
                        ![w].new = [status |-> StatusIn(Shown(s), i), timed |-> FALSE]]
  /\ UNCHANGED <<chain, table>>

\* blockTime = existing?.blockTime ?? null
FetchProposal(w, s, i) ==
  LET timed == job[w].old # None /\ job[w].old.timed IN
  /\ job[w].pc = "detail"
  /\ Current(w, i)
  /\ Served(s, i)
  /\ job' = [job EXCEPT ![w].pc  = IF timed THEN "save" ELSE "time",
                        ![w].new = [status |-> StatusIn(Shown(s), i), timed |-> timed]]
  /\ UNCHANGED <<chain, table>>

\* The next proposal is taken without this one.
Skipped(j, i) ==
  [j EXCEPT !.pc = "item", !.items = @ \ {i}, !.old = None, !.new = None, !.clean = FALSE]

\* The source that answers is behind the one of the list: 404, which is caught.
NotServed(w, s, i) ==
  /\ job[w].pc = "detail"
  /\ Current(w, i)
  /\ Answers(s)
  /\ i > Shown(s).count
  /\ job' = [job EXCEPT ![w] = Skipped(@, i)]
  /\ UNCHANGED <<chain, table>>

\* A source that does not know the transaction answers 404, which is caught:
\* the row is saved without a block time.
FetchTime(w, s, i) ==
  /\ job[w].pc = "time"
  /\ Current(w, i)
  /\ Answers(s)
  /\ job' = [job EXCEPT ![w].pc = "save", ![w].new.timed = i <= Shown(s).count]
  /\ UNCHANGED <<chain, table>>

\* Neither source answers; this too is caught.
FetchTimeFails(w) ==
  /\ job[w].pc = "time"
  /\ faults < MaxFaults
  /\ faults' = faults + 1
  /\ job' = [job EXCEPT ![w].pc = "save"]
  /\ UNCHANGED <<chain, table>>

SaveProposal(w, i) ==
  /\ job[w].pc = "save"
  /\ Current(w, i)
  /\ table' = [table EXCEPT ![i] = job[w].new]
  /\ job' = [job EXCEPT ![w].pc = "item", ![w].items = @ \ {i}, ![w].old = None,
                        ![w].new = None, ![w].done = @ \cup {i}]
  /\ UNCHANGED <<chain, faults>>

\* A failure inside the loop over the page: the next proposal is taken.
ItemFails(w, i) ==
  /\ job[w].pc \in {"item", "detail", "save"}
  /\ Current(w, i)
  /\ faults < MaxFaults
  /\ faults' = faults + 1
  /\ job' = [job EXCEPT ![w] = Skipped(@, i)]
  /\ UNCHANGED <<chain, table>>

NextPage(w) ==
  /\ job[w].pc = "item"
  /\ job[w].items = {}
  /\ ~ job[w].last
  /\ job' = [job EXCEPT ![w].pc = "list", ![w].page = @ + 1]
  /\ UNCHANGED <<chain, table, faults>>

FinishSync(w) ==
  /\ job[w].pc = "item"
  /\ job[w].items = {}
  /\ job[w].last
  /\ job' = [job EXCEPT ![w] = Idle]
  /\ UNCHANGED <<chain, table, faults>>

\* The list cannot be fetched, or the process dies: the run ends.
RunFails(w) ==
  /\ job[w].pc # "idle"
  /\ faults < MaxFaults
  /\ faults' = faults + 1
  /\ job' = [job EXCEPT ![w] = Idle]
  /\ UNCHANGED <<chain, table>>

RunStep(w) ==
  \/ StartSync(w) \/ NextPage(w) \/ FinishSync(w)
  \/ \E s \in Source : FetchList(w, s)
  \/ \E i \in Proposal : SkipClosed(w, i) \/ ReadExisting(w, i) \/ SaveProposal(w, i)
  \/ \E s \in Source, i \in Proposal :
       FetchProposal(w, s, i) \/ NotServed(w, s, i) \/ FetchTime(w, s, i)

RunFault(w) ==
  \/ FetchTimeFails(w) \/ RunFails(w) \/ \E i \in Proposal : ItemFails(w, i)

Next ==
  \/ Submit
  \/ \E i \in Proposal : Close(i)
  \/ \E s \in Source : SourceCatchesUp(s)
  \/ \E w \in Worker : RunStep(w) \/ RunFault(w)

Spec == Init /\ [][Next]_vars

\* The scheduler keeps starting both jobs; nothing makes the chain or
\* a source move.
FairSpec == Spec /\ \A w \in Worker : WF_vars(RunStep(w))
-----------------------------------------------------------------------------
TypeOK ==
  /\ past \in Seq(Ledger)
  /\ at \in [Source -> 1..Len(past)]
  /\ table \in [Proposal -> Row \cup {None}]
  /\ job \in [Worker -> Job]
  /\ \A w \in Worker : /\ job[w].pc \in {"time", "save"} => job[w].new \in Row
                       /\ job[w].pc \in {"detail", "time", "save"} => job[w].items # {}
  /\ faults \in 0..MaxFaults

\* A run takes every proposal the source of its first page knew, although new
\* ones push the others to later pages meanwhile, unless a call failed or a
\* page came from a source that knew fewer proposals than the source of the
\* page before (which pulls unread ones to pages the run has behind it).
RunTakesAll ==
  [][\A w \in Worker :
       job[w].pc = "item" /\ job'[w].pc = "idle" /\ job[w].clean /\ faults' = faults
       => job[w].goal \subseteq job[w].done]_vars

\* A block time once stored is never lost to a failed transaction lookup.
BlockTimeKept ==
  [][\A i \in Proposal :
       table[i] # None /\ table[i].timed => table'[i].timed]_vars

\* A run that is about to overwrite a row that changed since it read it.
Stale(w, i) == job[w].pc = "save" /\ Current(w, i) /\ job[w].old # table[i]

\* A stored block time is lost, or a proposal stored as enacted, expired or
\* dropped reopened, only by a run that had read the row before another run
\* wrote it: a run on its own does neither, whatever lookups fail.
RowsNeverRegress ==
  [][\A i \in Proposal :
       (\/ table[i] # None /\ table[i].timed /\ ~ table'[i].timed
        \/ Closed(i) /\ table'[i].status # "closed")
         => \E w \in Worker : Stale(w, i)]_vars

\* If the primary stays in step with the chain, the table catches up with it
\* and stays there, even after overlapping runs, or runs answered by sources
\* at different heights, have written what was no longer true.
StatusSettles ==
  PrimaryCurrent =>
    <>[](\A i \in 1..Tip.count :
           table[i] # None /\ table[i].status = StatusIn(Tip, i))

\* ... and every proposal that is not closed ends up with a block time,
\* whatever lookups failed before.
OpenTimed ==
  PrimaryCurrent =>
    <>[](\A i \in 1..Tip.count \ Tip.closed : table[i] # None /\ table[i].timed)
=============================================================================
