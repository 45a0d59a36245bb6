------------------------- MODULE MetadataSync_proofs -------------------------
(***************************************************************************)
(* The safety of the proposal_metadata table for any number of runs of     *)
(* either worker, proposals, votes and faults.                             *)
(***************************************************************************)
EXTENDS MetadataSync, TLAPS

USE GovernanceAssumption, BoundAssumption, NoneAssumption

\* What a run has got of a proposal really is to be had, and it fetches a
\* document only from an anchor there is.
GotReal(j) ==
  /\ j.pc \in {"idle", "next", "ask", "votes"} => j.got = Nothing
  /\ j.got.json => j.got.url /\ Available(j.cur)
  /\ j.pc = "fetch" => j.got.url /\ InTimeline(j.cur)

MetaInv == TypeOK /\ CleanRowsComplete /\ \A w \in Worker : GotReal(job[w])

-----------------------------------------------------------------------------
LEMMA InitMeta == Init => MetaInv
  <1> SUFFICES ASSUME Init PROVE MetaInv
    OBVIOUS
  <1>1. Idle \in Job /\ Idle.pc = "idle" /\ Idle.cur = None /\ Idle.got = Nothing
    BY DEF Idle, Job, Nothing
  <1>2. TypeOK
    BY <1>1 DEF Init, TypeOK
  <1>3. CleanRowsComplete
    BY DEF Init, CleanRowsComplete
  <1>4. \A w \in Worker : GotReal(job[w])
    BY <1>1 DEF Init, GotReal, Nothing
  <1> QED BY <1>2, <1>3, <1>4 DEF MetaInv

\* A step of one run that writes no metadata keeps the invariant when its own
\* record is right.
LEMMA RunKept ==
  ASSUME MetaInv, UNCHANGED <<source, meta>>, unpowered' \subseteq Proposal,
         stored' \in 0..MaxVotes, faults' \in 0..MaxFaults,
         NEW w \in Worker, NEW j \in Job, job' = [job EXCEPT ![w] = j],
         j.cur = None <=> j.pc \in {"idle", "next"}, GotReal(j)
  PROVE  MetaInv'
  <1>1. /\ job' \in [Worker -> Job]
        /\ \A u \in Worker : job'[u] = IF u = w THEN j ELSE job[u]
    BY DEF MetaInv, TypeOK
  <1>2. TypeOK'
    BY <1>1 DEF MetaInv, TypeOK
  <1>3. CleanRowsComplete'
    BY DEF MetaInv, CleanRowsComplete, Available
  <1>4. \A u \in Worker : GotReal(job[u])'
    BY <1>1 DEF MetaInv, GotReal, Available, InTimeline
  <1> QED BY <1>2, <1>3, <1>4 DEF MetaInv

LEMMA JobTyped ==
  ASSUME MetaInv, NEW w \in Worker
  PROVE  /\ job[w] \in Job /\ GotReal(job[w])
         /\ job[w].got \in [json : BOOLEAN, url : BOOLEAN]
         /\ job[w].cur = None <=> job[w].pc \in {"idle", "next"}
         /\ job[w].cur \in Proposal \cup {None} /\ job[w].targets \in SUBSET Proposal
         /\ unpowered \subseteq Proposal /\ stored \in 0..MaxVotes /\ faults \in 0..MaxFaults
  BY DEF MetaInv, TypeOK, Job

\* A fault is one of the bounded number of faults.
LEMMA FaultTyped ==
  ASSUME MetaInv, faults < MaxFaults, faults' = faults + 1
  PROVE  faults' \in 0..MaxFaults
  BY DEF MetaInv, TypeOK

-----------------------------------------------------------------------------
LEMMA EndsKeep ==
  ASSUME MetaInv, NEW w \in Worker,
         FinishSync(w) \/ RunFails(w) \/ \E T \in SUBSET Proposal : StartSync(w, T)
  PROVE  MetaInv'
  <1>1. CASE FinishSync(w) \/ RunFails(w)
    <2>1. Idle \in Job /\ Idle.pc = "idle" /\ Idle.cur = None /\ GotReal(Idle)
      BY DEF Idle, Job, Nothing, GotReal
    <2>2. job' = [job EXCEPT ![w] = Idle] /\ UNCHANGED <<env, meta>> /\ faults' \in 0..MaxFaults
      BY <1>1, FaultTyped, JobTyped DEF FinishSync, RunFails
    <2> QED BY <2>1, <2>2, JobTyped, RunKept DEF env
  <1>2. ASSUME NEW T \in SUBSET Proposal, StartSync(w, T) PROVE MetaInv'
    <2> DEFINE j == [Idle EXCEPT !.pc = "next", !.targets = T]
    <2>1. j \in Job /\ j.pc = "next" /\ j.cur = None /\ j.got = Nothing
      BY DEF Idle, Job, Nothing
    <2>2. job' = [job EXCEPT ![w] = j] /\ UNCHANGED <<env, meta, faults>>
      BY <1>2 DEF StartSync
    <2> HIDE DEF j
    <2>3. GotReal(j)
      BY <2>1 DEF GotReal, Nothing
    <2> QED BY <2>1, <2>2, <2>3, JobTyped, RunKept DEF env
  <1> QED BY <1>1, <1>2

LEMMA NextKeeps ==
  ASSUME MetaInv, NEW w \in Worker, NEW i \in Proposal, NextTarget(w, i)
  PROVE  MetaInv'
  <1> DEFINE j == [job[w] EXCEPT !.pc = "ask", !.cur = i, !.targets = @ \ {i}]
  <1>1. job[w].pc = "next" /\ job' = [job EXCEPT ![w] = j] /\ UNCHANGED <<env, meta, faults>>
    BY DEF NextTarget
  <1>2. j \in Job /\ j.pc = "ask" /\ j.cur = i /\ j.got = job[w].got
    BY JobTyped DEF Job
  <1> HIDE DEF j
  <1>3. GotReal(j)
    BY <1>1, <1>2, JobTyped DEF GotReal, Nothing
  <1> QED BY <1>1, <1>2, <1>3, JobTyped, RunKept DEF env

LEMMA AskKeeps ==
  ASSUME MetaInv, NEW w \in Worker, NEW u \in BOOLEAN, AskBlockfrost(w, u)
  PROVE  MetaInv'
  <1> DEFINE found == source[job[w].cur] = "blockfrost"
             g == [json |-> found, url |-> u]
             p == IF found THEN "save" ELSE "anchor"
             j == [job[w] EXCEPT !.pc = p, !.got = g]
  <1>1. job[w].pc = "ask" /\ (found => u) /\ job' = [job EXCEPT ![w] = j]
        /\ UNCHANGED <<env, meta, faults>>
    BY DEF AskBlockfrost
  <1>2. g \in [json : BOOLEAN, url : BOOLEAN] /\ g.json = found /\ g.url = u
    OBVIOUS
  <1>3. p \in {"save", "anchor"}
    OBVIOUS
  <1> HIDE DEF g, p
  <1>4. j \in Job /\ j.pc = p /\ j.cur = job[w].cur /\ j.got = g
    BY <1>2, <1>3, JobTyped DEF Job
  <1> HIDE DEF j
  <1>5. GotReal(j)
    BY <1>1, <1>2, <1>3, <1>4 DEF GotReal, Available
  <1> QED BY <1>1, <1>3, <1>4, <1>5, JobTyped, RunKept DEF env

\* A call fails, and the run goes on with what it has, or without anything.
LEMMA FaultKeeps ==
  ASSUME MetaInv, NEW w \in Worker,
         AskFails(w) \/ FindAnchorFails(w) \/ FetchFails(w) \/ TargetFails(w) \/ VotesFail(w)
  PROVE  MetaInv'
  <1>1. faults' \in 0..MaxFaults /\ UNCHANGED <<env, meta>>
    BY FaultTyped DEF AskFails, FindAnchorFails, FetchFails, TargetFails, VotesFail
  <1>2. ASSUME AskFails(w) \/ FindAnchorFails(w) \/ FetchFails(w) PROVE MetaInv'
    <2>1. PICK p \in {"anchor", "save"} : job' = [job EXCEPT ![w] = [job[w] EXCEPT !.pc = p]]
      BY <1>2 DEF AskFails, FindAnchorFails, FetchFails
    <2>2. job[w].pc \in {"ask", "anchor", "fetch"}
      BY <1>2 DEF AskFails, FindAnchorFails, FetchFails
    <2> DEFINE j == [job[w] EXCEPT !.pc = p]
    <2>3. j \in Job /\ j.pc = p /\ j.cur = job[w].cur /\ j.got = job[w].got
      BY JobTyped DEF Job
    <2> HIDE DEF j
    <2>4. GotReal(j)
      BY <2>3, JobTyped DEF GotReal
    <2>5. job' = [job EXCEPT ![w] = j]
      BY <2>1 DEF j
    <2> QED BY <1>1, <2>2, <2>3, <2>4, <2>5, JobTyped, RunKept DEF env
  <1>3. ASSUME TargetFails(w) \/ VotesFail(w) PROVE MetaInv'
    <2> DEFINE j == [job[w] EXCEPT !.pc = "next", !.cur = None, !.got = Nothing]
    <2>1. j \in Job /\ j.pc = "next" /\ j.cur = None /\ j.got = Nothing
      BY JobTyped DEF Job, Nothing
    <2>2. job' = [job EXCEPT ![w] = j]
      <3>1. CASE TargetFails(w)
        BY <3>1 DEF TargetFails
      <3>2. CASE VotesFail(w)
        <4>1. job[w].got = Nothing /\ job[w] \in Job
          BY <3>2, JobTyped DEF VotesFail, GotReal
        <4>2. [job[w] EXCEPT !.pc = "next", !.cur = None] = j
          BY <4>1 DEF Job
        <4>3. job' = [job EXCEPT ![w] = [job[w] EXCEPT !.pc = "next", !.cur = None]]
          BY <3>2 DEF VotesFail
        <4> QED BY <4>2, <4>3
      <3> QED BY <1>3, <3>1, <3>2
    <2> HIDE DEF j
    <2>3. GotReal(j)
      BY <2>1 DEF GotReal, Nothing
    <2> QED BY <1>1, <2>1, <2>2, <2>3, JobTyped, RunKept DEF env
  <1> QED BY <1>2, <1>3

LEMMA FindKeeps ==
  ASSUME MetaInv, NEW w \in Worker, FindAnchor(w)
  PROVE  MetaInv'
  <1> DEFINE found == InTimeline(job[w].cur)
             g == [job[w].got EXCEPT !.url = @ \/ found]
             p == IF found THEN "fetch" ELSE "save"
             j == [job[w] EXCEPT !.pc = p, !.got = g]
  <1>1. /\ job[w].pc = "anchor" /\ UNCHANGED <<env, meta, faults>>
        /\ job' = [job EXCEPT ![w] = j]
    BY JobTyped DEF FindAnchor, Job
  <1>2. /\ g \in [json : BOOLEAN, url : BOOLEAN] /\ g.json = job[w].got.json
        /\ job[w].got.url \/ found => g.url
    BY JobTyped
  <1>3. p \in {"fetch", "save"} /\ (p = "fetch" => found)
    OBVIOUS
  <1> HIDE DEF g, p, found
  <1>4. j \in Job /\ j.pc = p /\ j.cur = job[w].cur /\ j.got = g
    BY <1>2, <1>3, JobTyped DEF Job
  <1> HIDE DEF j
  <1>5. GotReal(j)
    BY <1>1, <1>2, <1>3, <1>4, JobTyped DEF GotReal, found
  <1> QED BY <1>1, <1>3, <1>4, <1>5, JobTyped, RunKept DEF env

LEMMA FetchKeeps ==
  ASSUME MetaInv, NEW w \in Worker, FetchManually(w)
  PROVE  MetaInv'
  <1> DEFINE live == source[job[w].cur] # "dead"
             g == [job[w].got EXCEPT !.json = live]
             j == [job[w] EXCEPT !.pc = "save", !.got = g]
  <1>1. /\ job[w].pc = "fetch" /\ UNCHANGED <<env, meta, faults>>
        /\ job' = [job EXCEPT ![w] = j]
    BY JobTyped DEF FetchManually, Job
  <1>2. /\ g \in [json : BOOLEAN, url : BOOLEAN] /\ g.json = live
        /\ g.url = job[w].got.url
    BY JobTyped
  <1> HIDE DEF g
  <1>3. j \in Job /\ j.pc = "save" /\ j.cur = job[w].cur /\ j.got = g
    BY <1>2, JobTyped DEF Job
  <1> HIDE DEF j
  <1>4. live => Available(job[w].cur)
    <2>1. source[job[w].cur] \in Source
      BY <1>1, JobTyped DEF MetaInv, TypeOK
    <2> QED BY <1>1, <2>1, JobTyped DEF GotReal, InTimeline, Available, Source
  <1>5. GotReal(j)
    BY <1>1, <1>2, <1>3, <1>4, JobTyped DEF GotReal
  <1> QED BY <1>1, <1>3, <1>5, JobTyped, RunKept DEF env

LEMMA VotesKeep ==
  ASSUME MetaInv, NEW w \in Worker, NEW u \in BOOLEAN, SyncVotes(w, u)
  PROVE  MetaInv'
  <1> DEFINE j == [job[w] EXCEPT !.pc = "next", !.cur = None]
  <1>1. /\ job[w].pc = "votes" /\ UNCHANGED <<source, stored, meta, faults>>
        /\ job' = [job EXCEPT ![w] = j]
        /\ unpowered' = IF u THEN unpowered \ {job[w].cur} ELSE unpowered \cup {job[w].cur}
    BY DEF SyncVotes
  <1>2. j \in Job /\ j.pc = "next" /\ j.cur = None /\ j.got = job[w].got
    BY JobTyped DEF Job
  <1> HIDE DEF j
  <1>3. GotReal(j)
    BY <1>1, <1>2, JobTyped DEF GotReal, Nothing
  <1>4. unpowered' \subseteq Proposal
    BY <1>1, JobTyped
  <1> QED BY <1>1, <1>2, <1>3, <1>4, JobTyped, RunKept

\* The upsert: what it does not name it keeps, and it is clean only with the
\* document.
LEMMA SaveKeeps ==
  ASSUME MetaInv, NEW w \in Worker, SaveMetadata(w)
  PROVE  /\ MetaInv'
         /\ \A i \in Proposal : meta[i] # None /\ meta[i].json => meta'[i].json
  <1> DEFINE i == job[w].cur
             g == job[w].got
             old == IF meta[i] = None THEN [json |-> FALSE, url |-> FALSE, error |-> FALSE]
                    ELSE meta[i]
             r == [json |-> g.json \/ old.json, url |-> g.url \/ old.url, error |-> ~ g.json]
             p == IF w \in Governance THEN "votes" ELSE "next"
             c == IF w \in Governance THEN i ELSE None
             j == [job[w] EXCEPT !.pc = p, !.cur = c, !.got = Nothing]
  <1>1. /\ job[w].pc = "save" /\ meta' = [meta EXCEPT ![i] = r]
        /\ job' = [job EXCEPT ![w] = j] /\ UNCHANGED <<source, unpowered, stored, faults>>
    BY DEF SaveMetadata, env
  <1>2. i \in Proposal /\ g \in [json : BOOLEAN, url : BOOLEAN]
        /\ (g.json => g.url /\ Available(i))
    BY <1>1, JobTyped DEF GotReal
  <1>3. old \in Row
    BY <1>2 DEF MetaInv, TypeOK, Row
  <1>4. /\ r \in Row
        /\ ~ r.error => r.json /\ r.url /\ Available(i)
        /\ meta[i] # None /\ meta[i].json => r.json
    <2>1. r.json = (g.json \/ old.json) /\ r.url = (g.url \/ old.url) /\ r.error = ~ g.json
      OBVIOUS
    <2>2. r \in Row
      BY <1>2, <1>3 DEF Row
    <2>3. meta[i] # None => old = meta[i]
      OBVIOUS
    <2> HIDE DEF r, old
    <2> QED BY <1>2, <2>1, <2>2, <2>3, Zenon
  <1>5. /\ p \in {"votes", "next"} /\ c \in Proposal \cup {None}
        /\ c = None <=> p = "next"
    BY <1>2
  <1> HIDE DEF r, p, c
  <1>6. j \in Job /\ j.pc = p /\ j.cur = c /\ j.got = Nothing
    BY <1>5, JobTyped DEF Job, Nothing
  <1> HIDE DEF j
  <1>7. \A u \in Worker : job'[u] = IF u = w THEN j ELSE job[u]
    BY <1>1 DEF MetaInv, TypeOK
  <1>8. \A k \in Proposal : meta'[k] = IF k = i THEN r ELSE meta[k]
    BY <1>1, <1>2 DEF MetaInv, TypeOK
  <1>9. TypeOK'
    <2>1. meta' \in [Proposal -> Row \cup {None}]
      BY <1>1, <1>2, <1>4 DEF MetaInv, TypeOK
    <2>2. job' \in [Worker -> Job]
      BY <1>1, <1>6 DEF MetaInv, TypeOK
    <2>3. \A u \in Worker : job'[u].cur = None <=> job'[u].pc \in {"idle", "next"}
      BY <1>5, <1>6, <1>7 DEF MetaInv, TypeOK
    <2> QED BY <1>1, <2>1, <2>2, <2>3 DEF MetaInv, TypeOK
  <1>10. CleanRowsComplete'
    BY <1>1, <1>4, <1>8 DEF MetaInv, CleanRowsComplete, Available
  <1>11. \A u \in Worker : GotReal(job[u])'
    <2>1. GotReal(j)
      BY <1>5, <1>6 DEF GotReal, Nothing
    <2> QED BY <1>1, <1>7, <2>1 DEF MetaInv, GotReal, Available, InTimeline
  <1> QED BY <1>4, <1>8, <1>9, <1>10, <1>11 DEF MetaInv

-----------------------------------------------------------------------------
LEMMA MetaStep == MetaInv /\ [Next]_vars => MetaInv'
  <1> SUFFICES ASSUME MetaInv, [Next]_vars PROVE MetaInv'
    OBVIOUS
  <1>1. ASSUME NEW i \in Proposal, StoreDRepVote(i) PROVE MetaInv'
    <2>1. /\ unpowered' \subseteq Proposal /\ stored' \in 0..MaxVotes
          /\ UNCHANGED <<source, meta, job, faults>>
      BY <1>1 DEF StoreDRepVote, MetaInv, TypeOK
    <2> QED BY <2>1 DEF MetaInv, TypeOK, CleanRowsComplete, GotReal, Available, InTimeline
  <1>2. ASSUME NEW w \in Worker, RunStep(w) PROVE MetaInv'
    BY <1>2, EndsKeep, NextKeeps, AskKeeps, FindKeeps, FetchKeeps, VotesKeep, SaveKeeps
       DEF RunStep
  <1>3. ASSUME NEW w \in Worker, RunFault(w) PROVE MetaInv'
    BY <1>3, EndsKeep, FaultKeeps DEF RunFault
  <1>4. CASE UNCHANGED vars
    BY <1>4 DEF vars, env, MetaInv, TypeOK, CleanRowsComplete, GotReal, Available, InTimeline
  <1> QED BY <1>1, <1>2, <1>3, <1>4 DEF Next

LEMMA MetaSafe == Spec => []MetaInv
  BY InitMeta, MetaStep, PTL DEF Spec

\* A row without an error has its document and its anchor, and the document
\* really was to be had.
THEOREM CleanMeansComplete == Spec => []CleanRowsComplete
  <1>1. MetaInv => CleanRowsComplete
    BY DEF MetaInv
  <1> QED BY <1>1, MetaSafe, PTL

\* The state of the metadata sync is always of its type.
THEOREM MetaTypes == Spec => []TypeOK
  <1>1. MetaInv => TypeOK
    BY DEF MetaInv
  <1> QED BY <1>1, MetaSafe, PTL

\* No upsert takes a document away, whoever runs and whatever fails.
THEOREM DocumentsKept == Spec => JsonKept
  <1>1. ASSUME MetaInv, [Next]_vars
        PROVE  [\A i \in Proposal : meta[i] # None /\ meta[i].json => meta'[i].json]_vars
    <2>1. CASE \E w \in Worker : SaveMetadata(w)
      BY <1>1, <2>1, SaveKeeps
    <2>2. CASE ~ \E w \in Worker : SaveMetadata(w)
      <3>1. meta' = meta
        BY <1>1, <2>2 DEF Next, StoreDRepVote, RunStep, RunFault, StartSync, NextTarget,
           AskBlockfrost, SyncVotes, FindAnchor, FetchManually, FinishSync, AskFails,
           TargetFails, FindAnchorFails, FetchFails, VotesFail, RunFails, vars
      <3> QED BY <3>1
    <2> QED BY <2>1, <2>2
  <1> QED BY <1>1, MetaSafe, PTL DEF Spec, JsonKept
=============================================================================
