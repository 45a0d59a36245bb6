-------------------------- MODULE ProposalSync_proofs --------------------------
(***************************************************************************)
(* The proposal sync's safety for any number of runs, proposals, page      *)
(* size and faults, and any heights of Blockfrost's two sources.           *)
(***************************************************************************)
EXTENDS ProposalSync, FiniteSetTheorems, TLAPS

USE NoneAssumption, PageAssumption, BoundAssumption, FaultAssumption

\* What the type invariant says of one run.
JobOK(j) ==
  /\ j \in Job
  /\ j.pc \in {"time", "save"} => j.new \in Row
  /\ j.pc \in {"detail", "time", "save"} => j.items # {}

\* A run works on a proposal only if the row it read was not closed, asks for
\* a block time only if that row had none, and saves the one it had.
Keeps(j) ==
  /\ j.pc \in {"detail", "time", "save"} => j.old = None \/ j.old.status # "closed"
  /\ j.pc = "time" => j.old = None \/ ~ j.old.timed
  /\ j.pc = "save" => (j.old # None /\ j.old.timed => j.new.timed)

\* Inductive: RowsNeverRegress speaks of what SaveProposal writes, which was
\* settled several steps before.
RowInv == TypeOK /\ \A w \in Worker : Keeps(job[w])

\* Initially no proposal is submitted and no run is active.
LEMMA RowInit == Init => RowInv
  <1> SUFFICES ASSUME Init PROVE RowInv
    OBVIOUS
  <1>1. [count |-> 0, closed |-> {}] \in Ledger
    BY DEF Ledger
  <1>2. past \in Seq(Ledger) /\ Len(past) = 1
    BY <1>1 DEF Init
  <1> QED BY <1>2 DEF Init, RowInv, TypeOK, Keeps, Idle, Job

\* Every source shows a state of the chain.
LEMMA ShownLedger ==
  ASSUME RowInv, NEW s \in Source
  PROVE  /\ Shown(s).count \in 0..MaxProposals /\ Shown(s).closed \subseteq Proposal
         /\ Shown(s) \in Ledger
  <1>1. past \in Seq(Ledger) /\ at[s] \in 1..Len(past)
    BY DEF RowInv, TypeOK
  <1>2. Shown(s) \in Ledger
    BY <1>1 DEF Shown
  <1> QED BY <1>2 DEF Ledger

\* The newest state is one of the chain's.
LEMMA TipLedger ==
  ASSUME RowInv
  PROVE  Tip \in Ledger /\ Tip.count \in 0..MaxProposals /\ Tip.closed \subseteq Proposal
  <1>1. past \in Seq(Ledger) /\ at["primary"] \in 1..Len(past)
    BY DEF RowInv, TypeOK, Source
  <1>2. Len(past) \in Nat /\ Len(past) >= 1
    BY <1>1
  <1>3. Tip \in Ledger
    BY <1>1, <1>2 DEF Tip
  <1> QED BY <1>3 DEF Ledger

\* The chain moves on: the sources still show what they showed.
LEMMA ChainGrows ==
  ASSUME RowInv, NEW l \in Ledger, past' = Append(past, l), UNCHANGED <<at, table, job, faults>>
  PROVE  RowInv'
  <1>1. past \in Seq(Ledger) /\ at \in [Source -> 1..Len(past)]
    BY DEF RowInv, TypeOK
  <1>2. past' \in Seq(Ledger) /\ Len(past') = Len(past) + 1 /\ Len(past) \in Nat
    BY <1>1
  <1>3. at' \in [Source -> 1..Len(past')]
    BY <1>1, <1>2
  <1> QED BY <1>2, <1>3 DEF RowInv, TypeOK

\* An answer costs at most one fault.
LEMMA AnswerFaults ==
  ASSUME RowInv, NEW s, Answers(s)
  PROVE  faults' = faults \/ (faults < MaxFaults /\ faults' = faults + 1)
  BY DEF Answers

\* A step of one run that leaves chain and table alone keeps the invariant if
\* the run's new state does.
LEMMA RunKeeps ==
  ASSUME RowInv, NEW w \in Worker, NEW j, JobOK(j), Keeps(j),
         job' = [job EXCEPT ![w] = j], UNCHANGED <<chain, table>>,
         faults' = faults \/ (faults < MaxFaults /\ faults' = faults + 1)
  PROVE  RowInv'
  <1>1. past' = past /\ at' = at /\ table' = table
    BY DEF chain
  <1>2. /\ job' \in [Worker -> Job] /\ job'[w] = j
        /\ \A u \in Worker \ {w} : job'[u] = job[u]
    BY DEF RowInv, TypeOK, JobOK
  <1>3. faults' \in 0..MaxFaults
    BY DEF RowInv, TypeOK
  <1>4. TypeOK'
    BY <1>1, <1>2, <1>3 DEF RowInv, TypeOK, JobOK
  <1>5. \A u \in Worker : Keeps(job'[u])
    BY <1>2 DEF RowInv
  <1> QED BY <1>4, <1>5 DEF RowInv

\* A run that ends is in order.
LEMMA IdleOK == JobOK(Idle) /\ Keeps(Idle)
  BY DEF JobOK, Keeps, Idle, Job

\* A page lists proposals the source knows.
LEMMA PageOnChain == ASSUME NEW n, NEW p PROVE Page(n, p) \subseteq 1..n
  BY DEF Page

\* The run state after a page.
LEMMA ListedOK ==
  ASSUME RowInv, NEW s \in Source, NEW j, JobOK(j), NEW p, NEW last \in BOOLEAN,
         p \subseteq 1..Shown(s).count
  PROVE  JobOK(Listed(j, s, p, last)) /\ Keeps(Listed(j, s, p, last))
  <1> DEFINE n == Shown(s).count
             goal == IF j.page = 1 THEN 1..n ELSE j.goal
             clean == j.clean /\ j.seen <= n
             v == [j EXCEPT !.pc = "item", !.items = p, !.last = last, !.seen = n,
                            !.goal = goal, !.clean = clean]
  <1>1. /\ j \in Job /\ n \in 0..MaxProposals /\ 1..n \subseteq Proposal
        /\ p \subseteq Proposal /\ goal \in SUBSET Proposal /\ clean \in BOOLEAN
    <2>1. j \in Job /\ n \in 0..MaxProposals
      BY ShownLedger DEF JobOK
    <2>2. 1..n \subseteq Proposal
      BY <2>1 DEF Proposal
    <2>3. j.goal \in SUBSET Proposal
      BY <2>1 DEF Job
    <2> QED BY <2>1, <2>2, <2>3
  <1>2. Listed(j, s, p, last) = v
    BY <1>1 DEF Listed, Job
  <1> HIDE DEF n, goal, clean
  <1>3. v \in Job /\ v.pc = "item"
    BY <1>1 DEF Job
  <1> HIDE DEF v
  <1>4. JobOK(v) /\ Keeps(v)
    BY <1>3 DEF JobOK, Keeps
  <1> QED BY <1>2, <1>4

\* A run that goes on to the next proposal is in order, and no longer clean.
LEMMA SkippedOK ==
  ASSUME NEW j, JobOK(j), NEW i
  PROVE  JobOK(Skipped(j, i)) /\ Keeps(Skipped(j, i)) /\ Skipped(j, i).clean = FALSE
  <1> DEFINE v == [j EXCEPT !.pc = "item", !.items = @ \ {i}, !.old = None, !.new = None,
                            !.clean = FALSE]
  <1>1. v \in Job /\ v.pc = "item" /\ v.clean = FALSE
    BY DEF JobOK, Job
  <1>2. Skipped(j, i) = v
    BY DEF Skipped
  <1> HIDE DEF v
  <1> QED BY <1>1, <1>2 DEF JobOK, Keeps

\* Every step keeps the invariant.
LEMMA RowNext == RowInv /\ [Next]_vars => RowInv'
  <1> SUFFICES ASSUME RowInv, [Next]_vars PROVE RowInv'
    OBVIOUS
  <1>0. /\ job \in [Worker -> Job]
        /\ \A w \in Worker : JobOK(job[w]) /\ Keeps(job[w])
    BY DEF RowInv, TypeOK, JobOK
  <1>1. CASE Submit
    <2> DEFINE l == [Tip EXCEPT !.count = @ + 1]
    <2>1. Tip.count < MaxProposals /\ past' = Append(past, l) /\ UNCHANGED <<at, table, job, faults>>
      BY <1>1 DEF Submit
    <2>2. l \in Ledger
      <3>1. Tip.count + 1 \in 0..MaxProposals
        BY <2>1, TipLedger
      <3> QED BY <3>1, TipLedger DEF Ledger
    <2> QED BY <2>1, <2>2, ChainGrows
  <1>2. ASSUME NEW i \in Proposal, Close(i) PROVE RowInv'
    <2> DEFINE l == [Tip EXCEPT !.closed = @ \cup {i}]
    <2>1. past' = Append(past, l) /\ UNCHANGED <<at, table, job, faults>>
      BY <1>2 DEF Close
    <2>2. l \in Ledger
      BY TipLedger DEF Ledger
    <2> QED BY <2>1, <2>2, ChainGrows
  <1>2a. ASSUME NEW s \in Source, SourceCatchesUp(s) PROVE RowInv'
    <2>1. /\ past \in Seq(Ledger) /\ at \in [Source -> 1..Len(past)] /\ Len(past) \in Nat
      BY DEF RowInv, TypeOK
    <2>2. /\ at[s] < Len(past) /\ at' = [at EXCEPT ![s] = @ + 1]
          /\ UNCHANGED <<past, table, job, faults>>
      BY <1>2a DEF SourceCatchesUp, CatchUp
    <2>3. at' \in [Source -> 1..Len(past)]
      BY <2>1, <2>2
    <2> QED BY <2>2, <2>3 DEF RowInv, TypeOK
  <1>3. ASSUME NEW w \in Worker, StartSync(w) PROVE RowInv'
    <2> DEFINE j == [Idle EXCEPT !.pc = "list", !.page = 1]
    <2>1. JobOK(j) /\ Keeps(j)
      <3>1. j \in Job /\ j.pc = "list"
        BY IdleOK DEF JobOK, Job
      <3> HIDE DEF j
      <3> QED BY <3>1 DEF JobOK, Keeps
    <2>2. job' = [job EXCEPT ![w] = j] /\ UNCHANGED <<chain, table>> /\ faults' = faults
      BY <1>3 DEF StartSync
    <2> HIDE DEF j
    <2> QED BY <2>1, <2>2, RunKeeps
  <1>4. ASSUME NEW w \in Worker, NEW s \in Source, FetchList(w, s) PROVE RowInv'
    <2> DEFINE page == Page(Shown(s).count, job[w].page)
               last == Cardinality(page) < PageSize
               j == Listed(job[w], s, page, last)
    <2>1. job' = [job EXCEPT ![w] = j] /\ UNCHANGED <<chain, table>> /\ Answers(s)
      BY <1>4 DEF FetchList
    <2>2. page \subseteq 1..Shown(s).count /\ last \in BOOLEAN
      BY PageOnChain
    <2> HIDE DEF page, last
    <2>3. JobOK(j) /\ Keeps(j)
      BY <1>0, <2>2, ListedOK
    <2> HIDE DEF j
    <2> QED BY <2>1, <2>3, AnswerFaults, RunKeeps
  <1>5. ASSUME NEW w \in Worker, NEW i \in Proposal, SkipClosed(w, i) PROVE RowInv'
    <2> DEFINE j == [job[w] EXCEPT !.items = @ \ {i}, !.done = @ \cup {i}]
    <2>1. job' = [job EXCEPT ![w] = j]
      BY <1>0, <1>5 DEF SkipClosed, Job
    <2>2. JobOK(j) /\ Keeps(j)
      <3>1. job[w].pc = "item"
        BY <1>5 DEF SkipClosed
      <3>2. /\ j \in Job /\ j.pc = "item" /\ j.items \subseteq job[w].items
            /\ j.old = job[w].old /\ j.new = job[w].new
        <4>1. job[w] \in Job
          BY <1>0 DEF JobOK
        <4>2. j \in Job
          BY <4>1 DEF Job
        <4> QED BY <3>1, <4>1, <4>2 DEF Job
      <3> HIDE DEF j
      <3> QED BY <1>0, <3>1, <3>2 DEF JobOK, Keeps
    <2>3. UNCHANGED <<chain, table>> /\ faults' = faults
      BY <1>5 DEF SkipClosed
    <2> HIDE DEF j
    <2> QED BY <2>1, <2>2, <2>3, RunKeeps
  <1>6. ASSUME NEW w \in Worker, NEW i \in Proposal, ReadExisting(w, i) PROVE RowInv'
    <2> DEFINE j == [job[w] EXCEPT !.pc = "detail", !.old = table[i]]
    <2>1. job' = [job EXCEPT ![w] = j]
      BY <1>0, <1>6 DEF ReadExisting, Job
    <2>2. table[i] \in Row \cup {None} /\ job[w].items # {}
      BY <1>6 DEF ReadExisting, Current, RowInv, TypeOK
    <2>3. table[i] = None \/ table[i].status # "closed"
      BY <1>6 DEF ReadExisting, Closed
    <2>4. j \in Job /\ j.pc = "detail" /\ j.items = job[w].items /\ j.old = table[i]
      <3>1. job[w] \in Job
        BY <1>0 DEF JobOK
      <3>2. j \in Job
        BY <2>2, <3>1 DEF Job
      <3> QED BY <3>1, <3>2 DEF Job
    <2> HIDE DEF j
    <2>5. JobOK(j) /\ Keeps(j)
      BY <1>0, <2>2, <2>3, <2>4 DEF JobOK, Keeps
    <2>6. UNCHANGED <<chain, table>> /\ faults' = faults
      BY <1>6 DEF ReadExisting
    <2> QED BY <2>1, <2>5, <2>6, RunKeeps
  <1>7. ASSUME NEW w \in Worker, NEW s \in Source, NEW i \in Proposal, FetchProposal(w, s, i)
        PROVE  RowInv'
    <2> DEFINE timed == job[w].old # None /\ job[w].old.timed
               new == [status |-> StatusIn(Shown(s), i), timed |-> timed]
               j == [job[w] EXCEPT !.pc = IF timed THEN "save" ELSE "time", !.new = new]
    <2>1. job' = [job EXCEPT ![w] = j]
      BY <1>0, <1>7 DEF FetchProposal, Job
    <2>2. timed \in BOOLEAN
      BY <1>0 DEF Job, Row, JobOK
    <2>3. new \in Row /\ new.timed = timed
      BY <2>2 DEF Row, StatusIn, Status
    <2>4. job[w].pc = "detail" /\ job[w].items # {}
      BY <1>7 DEF FetchProposal, Current
    <2> HIDE DEF new
    <2>5. /\ j \in Job /\ j.pc = (IF timed THEN "save" ELSE "time") /\ j.items = job[w].items
          /\ j.old = job[w].old /\ j.new = new
      <3>1. job[w] \in Job
        BY <1>0 DEF JobOK
      <3>2. j \in Job
        BY <2>3, <3>1 DEF Job
      <3> QED BY <3>1, <3>2 DEF Job
    <2> HIDE DEF j
    <2>6. JobOK(j)
      BY <2>3, <2>4, <2>5 DEF JobOK
    <2>7. Keeps(j)
      BY <1>0, <2>3, <2>4, <2>5 DEF Keeps
    <2>8. UNCHANGED <<chain, table>> /\ Answers(s)
      BY <1>7 DEF FetchProposal, Served
    <2> QED BY <2>1, <2>6, <2>7, <2>8, AnswerFaults, RunKeeps
  <1>7a. ASSUME NEW w \in Worker, NEW s \in Source, NEW i \in Proposal, NotServed(w, s, i)
         PROVE  RowInv'
    <2>1. job' = [job EXCEPT ![w] = Skipped(job[w], i)] /\ UNCHANGED <<chain, table>> /\ Answers(s)
      BY <1>0, <1>7a DEF NotServed
    <2> QED BY <1>0, <2>1, SkippedOK, AnswerFaults, RunKeeps
  <1>8. ASSUME NEW w \in Worker, NEW s \in Source, NEW i \in Proposal, FetchTime(w, s, i)
        PROVE  RowInv'
    <2> DEFINE known == i <= Shown(s).count
               new == [job[w].new EXCEPT !.timed = known]
               j == [job[w] EXCEPT !.pc = "save", !.new = new]
    <2>1. job' = [job EXCEPT ![w] = j]
      BY <1>0, <1>8 DEF FetchTime, Job, JobOK
    <2>2. job[w].pc = "time" /\ job[w].new \in Row /\ job[w].items # {}
      BY <1>0, <1>8 DEF FetchTime, JobOK
    <2>3. new \in Row
      <3>1. known \in BOOLEAN
        OBVIOUS
      <3> HIDE DEF known
      <3> QED BY <2>2, <3>1 DEF Row
    <2> HIDE DEF new
    <2>4. /\ j \in Job /\ j.pc = "save" /\ j.items = job[w].items
          /\ j.old = job[w].old /\ j.new = new
      <3>1. job[w] \in Job /\ new \in Row \cup {None}
        BY <1>0, <2>3 DEF JobOK
      <3>2. j \in Job
        BY <3>1 DEF Job
      <3> QED BY <3>1, <3>2 DEF Job
    <2> HIDE DEF j
    <2>5. JobOK(j)
      BY <2>2, <2>3, <2>4 DEF JobOK
    <2>6. Keeps(j)
      BY <1>0, <2>2, <2>4 DEF Keeps
    <2>7. UNCHANGED <<chain, table>> /\ Answers(s)
      BY <1>8 DEF FetchTime
    <2> QED BY <2>1, <2>5, <2>6, <2>7, AnswerFaults, RunKeeps
  <1>9. ASSUME NEW w \in Worker, FetchTimeFails(w) PROVE RowInv'
    <2> DEFINE j == [job[w] EXCEPT !.pc = "save"]
    <2>1. job' = [job EXCEPT ![w] = j] /\ job[w].pc = "time"
      BY <1>0, <1>9 DEF FetchTimeFails, Job
    <2>2. JobOK(j) /\ Keeps(j)
      <3>1. /\ j \in Job /\ j.pc = "save" /\ j.items = job[w].items
            /\ j.old = job[w].old /\ j.new = job[w].new
        BY <1>0 DEF JobOK, Job
      <3> HIDE DEF j
      <3>2. JobOK(j)
        BY <1>0, <2>1, <3>1 DEF JobOK
      <3> QED BY <1>0, <2>1, <3>1, <3>2 DEF Keeps
    <2>3. UNCHANGED <<chain, table>> /\ faults < MaxFaults /\ faults' = faults + 1
      BY <1>9 DEF FetchTimeFails
    <2> HIDE DEF j
    <2> QED BY <2>1, <2>2, <2>3, RunKeeps
  <1>10. ASSUME NEW w \in Worker, NEW i \in Proposal, SaveProposal(w, i) PROVE RowInv'
    <2> DEFINE j == [job[w] EXCEPT !.pc = "item", !.items = @ \ {i}, !.old = None,
                                   !.new = None, !.done = @ \cup {i}]
    <2>1. job' = [job EXCEPT ![w] = j]
      BY <1>0, <1>10 DEF SaveProposal, Job
    <2>2. job[w].new \in Row
      BY <1>0, <1>10 DEF SaveProposal, JobOK
    <2>3. table' = [table EXCEPT ![i] = job[w].new] /\ chain' = chain /\ faults' = faults
      BY <1>10 DEF SaveProposal
    <2>4. JobOK(j) /\ Keeps(j)
      <3>1. j \in Job /\ j.pc = "item"
        <4>1. job[w] \in Job
          BY <1>0 DEF JobOK
        <4>2. j \in Job
          BY <4>1 DEF Job
        <4> QED BY <4>1, <4>2 DEF Job
      <3> HIDE DEF j
      <3> QED BY <1>0, <3>1 DEF JobOK, Keeps
    <2> HIDE DEF j
    <2>5. /\ job' \in [Worker -> Job] /\ job'[w] = j
          /\ \A u \in Worker \ {w} : job'[u] = job[u]
      BY <1>0, <2>1, <2>4 DEF JobOK
    <2>6. table' \in [Proposal -> Row \cup {None}]
      BY <2>2, <2>3 DEF RowInv, TypeOK
    <2>7. TypeOK'
      BY <2>3, <2>4, <2>5, <2>6 DEF RowInv, TypeOK, JobOK, chain
    <2>8. \A u \in Worker : Keeps(job'[u])
      BY <1>0, <2>4, <2>5
    <2> QED BY <2>7, <2>8 DEF RowInv
  <1>11. ASSUME NEW w \in Worker, NEW i \in Proposal, ItemFails(w, i) PROVE RowInv'
    <2>1. /\ job' = [job EXCEPT ![w] = Skipped(job[w], i)] /\ UNCHANGED <<chain, table>>
          /\ faults < MaxFaults /\ faults' = faults + 1
      BY <1>0, <1>11 DEF ItemFails
    <2> QED BY <1>0, <2>1, SkippedOK, RunKeeps
  <1>12. ASSUME NEW w \in Worker, NextPage(w) PROVE RowInv'
    <2> DEFINE j == [job[w] EXCEPT !.pc = "list", !.page = @ + 1]
    <2>1. job' = [job EXCEPT ![w] = j]
      BY <1>0, <1>12 DEF NextPage, Job
    <2>2. job[w] \in Job /\ job[w].page + 1 \in Nat
      BY <1>0 DEF JobOK, Job
    <2>4. j \in Job /\ j.pc = "list" /\ j.items = job[w].items
      BY <2>2 DEF Job
    <2>5. JobOK(j) /\ Keeps(j)
      BY <1>0, <2>4 DEF JobOK, Keeps
    <2>3. UNCHANGED <<chain, table>> /\ faults' = faults
      BY <1>12 DEF NextPage
    <2> HIDE DEF j
    <2> QED BY <2>1, <2>3, <2>5, RunKeeps
  <1>13. ASSUME NEW w \in Worker, FinishSync(w) \/ RunFails(w) PROVE RowInv'
    BY <1>13, IdleOK, RunKeeps DEF FinishSync, RunFails
  <1>14. CASE UNCHANGED vars
    BY <1>14 DEF vars, chain, RowInv, TypeOK
  <1> QED BY <1>1, <1>2, <1>2a, <1>3, <1>4, <1>5, <1>6, <1>7, <1>7a, <1>8, <1>9, <1>10, <1>11,
             <1>12, <1>13, <1>14 DEF Next, RunStep, RunFault

\* The invariant holds throughout.
LEMMA RowAlways == Spec => []RowInv
  BY RowInit, RowNext, PTL DEF Spec

\* Every variable keeps its type.
THEOREM ProposalTypes == Spec => []TypeOK
  <1>1. RowInv => TypeOK
    BY DEF RowInv
  <1> QED BY <1>1, RowAlways, PTL
-----------------------------------------------------------------------------
\* Only SaveProposal writes the table, and unless the row has changed since
\* the run read it, it keeps the block time and does not reopen the proposal.
LEMMA RowStep ==
  ASSUME RowInv, [Next]_vars, NEW i \in Proposal,
         \/ table[i] # None /\ table[i].timed /\ ~ table'[i].timed
         \/ Closed(i) /\ table'[i].status # "closed"
  PROVE  \E w \in Worker : Stale(w, i)
  <1>1. table'[i] # table[i]
    BY DEF Closed
  <1>2. PICK w \in Worker, c \in Proposal : SaveProposal(w, c)
    <2>1. ASSUME NEW w \in Worker, RunFault(w) PROVE table' = table
      BY <2>1 DEF RunFault, FetchTimeFails, ItemFails, RunFails
    <2>2. ASSUME NEW w \in Worker, RunStep(w)
          PROVE  table' = table \/ \E c \in Proposal : SaveProposal(w, c)
      BY <2>2 DEF RunStep, StartSync, FetchList, SkipClosed, ReadExisting, FetchProposal,
                  NotServed, FetchTime, NextPage, FinishSync
    <2>3. CASE UNCHANGED vars
      BY <1>1, <2>3 DEF vars
    <2>4. Submit => table' = table
      BY DEF Submit
    <2>5. \A c \in Proposal : Close(c) => table' = table
      BY DEF Close
    <2>6. \A s \in Source : SourceCatchesUp(s) => table' = table
      BY DEF SourceCatchesUp
    <2> QED BY <1>1, <2>1, <2>2, <2>3, <2>4, <2>5, <2>6 DEF Next
  <1>3. /\ c = i /\ table'[i] = job[w].new /\ job[w].pc = "save" /\ Current(w, i)
    BY <1>1, <1>2 DEF SaveProposal, RowInv, TypeOK
  <1>4. job[w].old # table[i]
    <2> SUFFICES ASSUME job[w].old = table[i] PROVE FALSE
      OBVIOUS
    <2>1. /\ table[i] = None \/ table[i].status # "closed"
          /\ table[i] # None /\ table[i].timed => table'[i].timed
      BY <1>3 DEF RowInv, Keeps
    <2> QED BY <2>1 DEF Closed
  <1> QED BY <1>3, <1>4 DEF Stale

\* A block time is lost, or a closed proposal reopened, only by a run that had
\* read the row before another run wrote it: whatever lookups fail, whatever
\* happens on chain and however many runs overlap.
THEOREM OnlyStaleRegress == Spec => RowsNeverRegress
  <1>1. RowInv /\ [Next]_vars =>
          [\A i \in Proposal :
             (\/ table[i] # None /\ table[i].timed /\ ~ table'[i].timed
              \/ Closed(i) /\ table'[i].status # "closed")
               => \E w \in Worker : Stale(w, i)]_vars
    BY RowStep
  <1> QED BY <1>1, RowAlways, PTL DEF Spec, RowsNeverRegress
-----------------------------------------------------------------------------
(***************************************************************************)
(* A run takes every proposal.  As long as each page comes from a source   *)
(* that knows no fewer proposals than the one before, positions in the     *)
(* list only grow: new proposals push the others down, and what a page has *)
(* been asked for is behind the run for good.                              *)
(***************************************************************************)
\* Of the proposals a run has to take, those that its last page placed before
\* the page it asks for are done, those on the page it works on are done or in
\* hand, and with the last page all are.
Taken(j) ==
  j.clean /\ j.pc # "idle" =>
    /\ j.page # 0 /\ j.goal \subseteq 1..j.seen
    /\ j.pc = "list" => \A i \in j.goal : j.seen - i < (j.page - 1) * PageSize => i \in j.done
    /\ j.pc # "list" => \A i \in j.goal :
                          j.last \/ j.seen - i < j.page * PageSize => i \in j.done \cup j.items

TakeInv == \A w \in Worker : Taken(job[w])

\* A page that is not full reaches down to the first proposal.
LEMMA ShortPage ==
  ASSUME NEW n \in Nat, NEW p \in Nat \ {0}, Cardinality(Page(n, p)) < PageSize
  PROVE  n <= p * PageSize
  <1> DEFINE m == (p - 1) * PageSize
  <1>1. m \in Nat /\ p * PageSize = m + PageSize
    OBVIOUS
  <1> SUFFICES ASSUME n > m + PageSize PROVE FALSE
    BY <1>1
  <1> HIDE DEF m
  <1>2. Page(n, p) = (n - m - PageSize + 1)..(n - m)
    <2>1. Page(n, p) = {i \in 1..n : n - i \in m..(m + PageSize - 1)}
      BY <1>1 DEF Page, m
    <2> QED BY <1>1, <2>1
  <1>3. Cardinality(Page(n, p)) = (n - m) - (n - m - PageSize + 1) + 1
    BY <1>1, <1>2, FS_Interval
  <1> QED BY <1>1, <1>3

\* A step of one run.
LEMMA OneTakes ==
  ASSUME RowInv, TakeInv, NEW w \in Worker, NEW j, Taken(j), job' = [job EXCEPT ![w] = j]
  PROVE  TakeInv'
  <1>1. job'[w] = j /\ \A u \in Worker \ {w} : job'[u] = job[u]
    BY DEF RowInv, TypeOK
  <1> QED BY <1>1 DEF TakeInv

\* A page keeps the promise: what it lists is in hand, what lies before it was
\* before it already when the last page was read.
LEMMA PageTakes ==
  ASSUME RowInv, NEW s \in Source, NEW j, JobOK(j), Taken(j), j.pc = "list",
         NEW page, page = Page(Shown(s).count, j.page),
         NEW last, last = (Cardinality(page) < PageSize)
  PROVE  Taken(Listed(j, s, page, last))
  <1> SUFFICES ASSUME NEW v, v = Listed(j, s, page, last) PROVE Taken(v)
    OBVIOUS
  <1> SUFFICES ASSUME v.clean PROVE Taken(v)
    BY DEF Taken
  <1> SUFFICES ASSUME NEW n, n = Shown(s).count, NEW k, k = j.page PROVE Taken(v)
    OBVIOUS
  <1>1. /\ n \in 0..MaxProposals /\ k \in Nat /\ j.seen \in 0..MaxProposals
        /\ page \subseteq 1..n /\ last \in BOOLEAN
    <2>1. n \in 0..MaxProposals /\ page \subseteq 1..n
      BY ShownLedger, PageOnChain
    <2>2. k \in Nat /\ j.seen \in 0..MaxProposals
      BY DEF JobOK, Job
    <2> QED BY <2>1, <2>2
  <1>2. /\ v.pc = "item" /\ v.items = page /\ v.page = k /\ v.last = last
        /\ v.seen = n /\ v.done = j.done /\ v.goal = (IF k = 1 THEN 1..n ELSE j.goal)
        /\ j.clean /\ j.seen <= n
    <2>1. j \in Job
      BY DEF JobOK
    <2>2. /\ v.pc = "item" /\ v.items = page /\ v.page = k /\ v.seen = n /\ v.done = j.done
          /\ v.goal = (IF k = 1 THEN 1..n ELSE j.goal)
      BY <2>1 DEF Listed, Job
    <2>3. v.last = last
      BY <2>1 DEF Listed, Job
    <2>4. v.clean = (j.clean /\ j.seen <= n)
      BY <2>1 DEF Listed, Job
    <2> QED BY <2>2, <2>3, <2>4
  <1>3. /\ k \in Nat \ {0} /\ j.goal \subseteq 1..j.seen
        /\ \A i \in j.goal : j.seen - i < (k - 1) * PageSize => i \in j.done
    BY <1>1, <1>2 DEF Taken
  <1>4. k * PageSize \in Int /\ (k - 1) * PageSize \in Int
    BY <1>3
  <1>5. \A i \in 1..n : last => n - i < k * PageSize
    <2>1. last => n <= k * PageSize
      <3>1. n \in Nat /\ page = Page(n, k)
        BY <1>1
      <3>2. last => Cardinality(Page(n, k)) < PageSize
        BY <3>1
      <3> QED BY <1>3, <3>1, <3>2, ShortPage
    <2> QED BY <1>1, <1>4, <2>1
  <1>6. \A i \in 1..n : n - i < k * PageSize => n - i < (k - 1) * PageSize \/ i \in page
    BY <1>1, <1>4 DEF Page
  <1>7. \A i \in v.goal : i \in 1..n /\ (n - i < (k - 1) * PageSize => i \in j.done)
    <2>1. CASE k = 1
      <3>1. v.goal = 1..n /\ (k - 1) * PageSize = 0
        BY <1>2, <2>1
      <3> QED BY <1>1, <3>1
    <2>2. CASE k # 1
      <3>1. v.goal = j.goal
        BY <1>2, <2>2
      <3>2. \A i \in j.goal : i \in 1..n /\ j.seen - i <= n - i
        BY <1>1, <1>2, <1>3
      <3>3. \A i \in j.goal : \A b \in Int : n - i < b => j.seen - i < b
        BY <1>1, <1>3, <3>2
      <3> QED BY <1>3, <1>4, <3>1, <3>2, <3>3
    <2> QED BY <2>1, <2>2
  <1>8. \A i \in v.goal : last \/ n - i < k * PageSize => i \in j.done \cup page
    BY <1>5, <1>6, <1>7
  <1> QED BY <1>2, <1>3, <1>7, <1>8 DEF Taken

LEMMA TakeNext == RowInv /\ TakeInv /\ [Next]_vars => TakeInv'
  <1> SUFFICES ASSUME RowInv, TakeInv, [Next]_vars PROVE TakeInv'
    OBVIOUS
  <1>0. \A w \in Worker : job[w] \in Job /\ JobOK(job[w]) /\ Taken(job[w])
    BY DEF RowInv, TypeOK, TakeInv, JobOK
  <1>1. CASE Submit
    BY <1>1 DEF Submit, TakeInv
  <1>2. ASSUME NEW i \in Proposal, Close(i) PROVE TakeInv'
    BY <1>2 DEF Close, TakeInv
  <1>2a. ASSUME NEW s \in Source, SourceCatchesUp(s) PROVE TakeInv'
    BY <1>2a DEF SourceCatchesUp, TakeInv
  <1>3. ASSUME NEW w \in Worker, StartSync(w) PROVE TakeInv'
    <2> DEFINE j == [Idle EXCEPT !.pc = "list", !.page = 1]
    <2>1. j.pc = "list" /\ j.page = 1 /\ j.goal = {}
      BY DEF Idle
    <2>2. job' = [job EXCEPT ![w] = j]
      BY <1>3 DEF StartSync
    <2> HIDE DEF j
    <2>3. Taken(j)
      BY <2>1 DEF Taken
    <2> QED BY <2>2, <2>3, OneTakes
  <1>4. ASSUME NEW w \in Worker, NEW s \in Source, FetchList(w, s) PROVE TakeInv'
    <2> DEFINE page == Page(Shown(s).count, job[w].page)
               last == Cardinality(page) < PageSize
    <2>1. job' = [job EXCEPT ![w] = Listed(job[w], s, page, last)] /\ job[w].pc = "list"
      BY <1>4 DEF FetchList
    <2>2. Taken(Listed(job[w], s, page, last))
      BY <1>0, <2>1, PageTakes
    <2> QED BY <2>1, <2>2, OneTakes
  \* Until the next list is fetched, a proposal leaves the page only by being
  \* done, or by failing.
  <1>5. ASSUME NEW w \in Worker, job[w].pc \in {"item", "detail", "time", "save"},
               NEW j, job' = [job EXCEPT ![w] = j],
               j.pc \in {"item", "detail", "time", "save"}, j.page = job[w].page,
               j.goal = job[w].goal, j.seen = job[w].seen, j.last = job[w].last, j.clean => job[w].clean,
               j.clean => job[w].done \cup job[w].items \subseteq j.done \cup j.items
        PROVE  TakeInv'
    <2>1. Taken(job[w])
      BY <1>0
    <2>2. Taken(j)
      <3>1. job[w].pc # "list" /\ job[w].pc # "idle" /\ j.pc # "list" /\ j.pc # "idle"
        BY <1>5
      <3> QED BY <1>5, <2>1, <3>1 DEF Taken
    <2> QED BY <1>5, <2>2, OneTakes
  <1>6. ASSUME NEW w \in Worker, NEW i \in Proposal, SkipClosed(w, i) \/ SaveProposal(w, i)
        PROVE  TakeInv'
    <2>1. PICK j : /\ j \in Job /\ job' = [job EXCEPT ![w] = j] /\ j.pc = "item"
                   /\ j.page = job[w].page /\ j.goal = job[w].goal /\ j.last = job[w].last
                   /\ j.seen = job[w].seen
                   /\ j.clean = job[w].clean /\ j.items = job[w].items \ {i}
                   /\ j.done = job[w].done \cup {i}
      <3>1. CASE SkipClosed(w, i)
        <4> DEFINE v == [job[w] EXCEPT !.items = @ \ {i}, !.done = @ \cup {i}]
        <4>1. /\ v \in Job /\ v.pc = job[w].pc
              /\ v.page = job[w].page /\ v.goal = job[w].goal /\ v.last = job[w].last
              /\ v.seen = job[w].seen
              /\ v.clean = job[w].clean /\ v.items = job[w].items \ {i}
              /\ v.done = job[w].done \cup {i}
          BY <1>0 DEF Job
        <4>2. job' = [job EXCEPT ![w] = v] /\ job[w].pc = "item"
          BY <1>0, <3>1 DEF SkipClosed, Job
        <4> HIDE DEF v
        <4> QED BY <4>1, <4>2
      <3>2. CASE SaveProposal(w, i)
        <4> DEFINE v == [job[w] EXCEPT !.pc = "item", !.items = @ \ {i}, !.old = None,
                                       !.new = None, !.done = @ \cup {i}]
        <4>1. /\ v \in Job /\ v.pc = "item"
              /\ v.page = job[w].page /\ v.goal = job[w].goal /\ v.last = job[w].last
              /\ v.seen = job[w].seen
              /\ v.clean = job[w].clean /\ v.items = job[w].items \ {i}
              /\ v.done = job[w].done \cup {i}
          BY <1>0 DEF Job
        <4>2. job' = [job EXCEPT ![w] = v]
          BY <1>0, <3>2 DEF SaveProposal, Job
        <4> HIDE DEF v
        <4> QED BY <4>1, <4>2
      <3> QED BY <1>6, <3>1, <3>2
    <2>2. job[w].pc \in {"item", "save"}
      BY <1>6 DEF SkipClosed, SaveProposal
    <2> QED BY <1>5, <2>1, <2>2
  <1>7. ASSUME NEW w \in Worker, NEW s \in Source, NEW i \in Proposal, FetchTime(w, s, i)
        PROVE  TakeInv'
    <2> DEFINE known == i <= Shown(s).count
               v == [job[w] EXCEPT !.pc = "save", !.new = [job[w].new EXCEPT !.timed = known]]
    <2>1. /\ v.pc = "save" /\ v.page = job[w].page /\ v.goal = job[w].goal /\ v.seen = job[w].seen
          /\ v.last = job[w].last /\ v.clean = job[w].clean
          /\ v.items = job[w].items /\ v.done = job[w].done
      BY <1>0 DEF Job
    <2>2. /\ job' = [job EXCEPT ![w] = v] /\ job[w].pc = "time"
      BY <1>0, <1>7 DEF FetchTime, Job
    <2> HIDE DEF v
    <2> QED BY <1>5, <2>1, <2>2
  <1>8. ASSUME NEW w \in Worker, FetchTimeFails(w) PROVE TakeInv'
    <2> DEFINE v == [job[w] EXCEPT !.pc = "save"]
    <2>1. /\ v.pc = "save" /\ v.page = job[w].page /\ v.goal = job[w].goal /\ v.seen = job[w].seen
          /\ v.last = job[w].last /\ v.clean = job[w].clean
          /\ v.items = job[w].items /\ v.done = job[w].done
      BY <1>0 DEF Job
    <2>2. /\ job' = [job EXCEPT ![w] = v] /\ job[w].pc = "time"
      BY <1>0, <1>8 DEF FetchTimeFails, Job
    <2> HIDE DEF v
    <2> QED BY <1>5, <2>1, <2>2
  <1>9. ASSUME NEW w \in Worker, NEW i \in Proposal, ReadExisting(w, i) PROVE TakeInv'
    <2> DEFINE v == [job[w] EXCEPT !.pc = "detail", !.old = table[i]]
    <2>1. /\ v.pc = "detail" /\ v.page = job[w].page /\ v.goal = job[w].goal /\ v.seen = job[w].seen
          /\ v.last = job[w].last /\ v.clean = job[w].clean
          /\ v.items = job[w].items /\ v.done = job[w].done
      BY <1>0 DEF Job
    <2>2. /\ job' = [job EXCEPT ![w] = v] /\ job[w].pc = "item"
      BY <1>0, <1>9 DEF ReadExisting, Job
    <2> HIDE DEF v
    <2> QED BY <1>5, <2>1, <2>2
  <1>10. ASSUME NEW w \in Worker, NEW s \in Source, NEW i \in Proposal, FetchProposal(w, s, i)
         PROVE  TakeInv'
    <2> DEFINE timed == job[w].old # None /\ job[w].old.timed
               pc == IF timed THEN "save" ELSE "time"
               new == [status |-> StatusIn(Shown(s), i), timed |-> timed]
               v == [job[w] EXCEPT !.pc = pc, !.new = new]
    <2>1. /\ v.pc = pc /\ v.page = job[w].page /\ v.goal = job[w].goal /\ v.seen = job[w].seen
          /\ v.last = job[w].last /\ v.clean = job[w].clean
          /\ v.items = job[w].items /\ v.done = job[w].done
      BY <1>0 DEF Job
    <2>2. /\ job' = [job EXCEPT ![w] = v] /\ job[w].pc = "detail"
      BY <1>0, <1>10 DEF FetchProposal, Job
    <2>3. pc \in {"save", "time"}
      OBVIOUS
    <2> HIDE DEF pc, v
    <2> QED BY <1>5, <2>1, <2>2, <2>3
  <1>11. ASSUME NEW w \in Worker, NEW i \in Proposal,
                ItemFails(w, i) \/ \E s \in Source : NotServed(w, s, i)
         PROVE  TakeInv'
    <2>1. job' = [job EXCEPT ![w] = Skipped(job[w], i)]
      BY <1>11 DEF ItemFails, NotServed
    <2>2. Taken(Skipped(job[w], i))
      BY <1>0, SkippedOK DEF Taken
    <2> QED BY <2>1, <2>2, OneTakes
  <1>12. ASSUME NEW w \in Worker, NextPage(w) PROVE TakeInv'
    <2> DEFINE v == [job[w] EXCEPT !.pc = "list", !.page = @ + 1]
    <2>1. /\ v.pc = "list" /\ v.page = job[w].page + 1 /\ v.goal = job[w].goal /\ v.seen = job[w].seen
          /\ v.clean = job[w].clean /\ v.done = job[w].done
      BY <1>0 DEF Job
    <2>2. /\ job' = [job EXCEPT ![w] = v]
          /\ job[w].pc = "item" /\ job[w].items = {} /\ job[w].page \in Nat
      <3>1. job' = [job EXCEPT ![w] = v]
        BY <1>0, <1>12 DEF NextPage, Job
      <3>2. job[w].pc = "item" /\ job[w].items = {}
        BY <1>12 DEF NextPage
      <3>3. job[w].page \in Nat
        BY <1>0 DEF Job
      <3> QED BY <3>1, <3>2, <3>3
    <2> HIDE DEF v
    <2>3. (v.page - 1) * PageSize = job[w].page * PageSize /\ v.page # 0
      BY <2>1, <2>2
    <2>4. Taken(v)
      <3> SUFFICES ASSUME v.clean PROVE Taken(v)
        BY DEF Taken
      <3>1. /\ job[w].goal \subseteq 1..job[w].seen
            /\ \A i \in job[w].goal :
                 job[w].seen - i < job[w].page * PageSize => i \in job[w].done \cup job[w].items
        BY <1>0, <2>1, <2>2 DEF Taken
      <3> QED BY <2>1, <2>2, <2>3, <3>1 DEF Taken
    <2> QED BY <2>2, <2>4, OneTakes
  <1>13. ASSUME NEW w \in Worker, FinishSync(w) \/ RunFails(w) PROVE TakeInv'
    <2>1. Taken(Idle)
      BY DEF Taken, Idle
    <2> QED BY <1>13, <2>1, OneTakes DEF FinishSync, RunFails
  <1>14. CASE UNCHANGED vars
    BY <1>14 DEF vars, TakeInv
  <1> QED BY <1>1, <1>2, <1>2a, <1>3, <1>4, <1>6, <1>7, <1>8, <1>9, <1>10, <1>11, <1>12, <1>13, <1>14
          DEF Next, RunStep, RunFault

\* No run is active initially.
LEMMA TakeInit == Init => TakeInv
  BY DEF Init, TakeInv, Taken, Idle

\* The invariant holds throughout.
LEMMA TakeAlways == Spec => [](RowInv /\ TakeInv)
  <1>1. RowInv /\ RowInv' /\ TakeInv /\ [Next]_vars => TakeInv'
    BY TakeNext
  <1> QED BY <1>1, TakeInit, RowAlways, PTL DEF Spec

\* Without a fault a run ends by finishing its last page.
LEMMA EndStep ==
  ASSUME RowInv, TakeInv, [Next]_vars, NEW w \in Worker, job[w].pc = "item",
         job'[w].pc = "idle", job[w].clean, faults' = faults
  PROVE  job[w].goal \subseteq job[w].done
  <1>0. job[w] \in Job /\ job \in [Worker -> Job] /\ faults \in Nat
    BY DEF RowInv, TypeOK
  <1>1. job[w].items = {} /\ job[w].last
    <2>1. PICK u \in Worker : RunStep(u)
      <3>1. \A u \in Worker : RunFault(u) => faults' = faults + 1
        BY DEF RunFault, FetchTimeFails, RunFails, ItemFails
      <3>2. job' # job
        OBVIOUS
      <3>3. \A s \in Source : SourceCatchesUp(s) => job' = job
        BY DEF SourceCatchesUp
      <3>4. faults' # faults + 1
        BY <1>0
      <3> QED BY <3>1, <3>2, <3>3, <3>4 DEF Next, Submit, Close, vars
    <2>2. u = w
      BY <1>0, <2>1 DEF RunStep, StartSync, FetchList, SkipClosed, ReadExisting, FetchProposal,
                        NotServed, FetchTime, SaveProposal, NextPage, FinishSync
    <2>3. FinishSync(w)
      <3>2. RunStep(w) /\ job[w].pc = "item"
        BY <2>1, <2>2
      <3>3. NextPage(w) => job'[w].pc = "list"
        BY <1>0 DEF NextPage, Job
      <3>4. \A i \in Proposal : SkipClosed(w, i) => job'[w].pc = "item"
        BY <1>0, <3>2 DEF SkipClosed, Job
      <3>5. \A i \in Proposal : ReadExisting(w, i) => job'[w].pc = "detail"
        BY <1>0 DEF ReadExisting, Job
      <3> QED BY <3>2, <3>3, <3>4, <3>5
              DEF RunStep, StartSync, FetchList, FetchProposal, NotServed, FetchTime, SaveProposal
    <2> QED BY <2>3 DEF FinishSync
  <1>2. Taken(job[w])
    BY DEF TakeInv
  <1> QED BY <1>1, <1>2 DEF Taken

\* A run takes every proposal the source of its first page knew, for any page
\* size and however the list moves under its paging, if none of its calls
\* fails and no page comes from a source that knows fewer proposals than the
\* source of the page before.
THEOREM AllTaken == Spec => RunTakesAll
  <1>1. RowInv /\ TakeInv /\ [Next]_vars =>
          [\A w \in Worker :
             job[w].pc = "item" /\ job'[w].pc = "idle" /\ job[w].clean /\ faults' = faults
             => job[w].goal \subseteq job[w].done]_vars
    BY EndStep
  <1> QED BY <1>1, TakeAlways, PTL DEF Spec, RunTakesAll
=============================================================================
