--------------------------- MODULE StakeSync_proofs ---------------------------
(***************************************************************************)
(* The safety of the stake sync, and of the list sync that writes the same *)
(* rows, for any number of replicas, DReps, epochs and faults.             *)
(***************************************************************************)
EXTENDS StakeSync, TLAPS

USE NoneAssumption, BoundAssumption, ChunkAssumption

\* What a run has learnt belongs to the epoch it started in or to a later one,
\* answers of a fallback behind that epoch, S, aside; and the primary has
\* reached that epoch.
JobOK(v, S) ==
  /\ v \in Job
  /\ v.base <= primary
  /\ v.pc = "update" => /\ v.drep \in DRep
                        /\ v.base <= v.info \/ <<v.drep, v.base>> \in S
  /\ v.pc \in {"idle", "probe"} => v.snaps = NoSnaps
  /\ \A d \in DRep : v.snaps[d] # None => v.base <= v.snaps[d] \/ <<d, v.base>> \in S

\* A label is an epoch the primary has reached.
LabelReached == \A d \in DRep : label[d] # None => label[d] <= primary

\* Inductive: SnapshotNotOlder alone is not, since nothing in it says that the
\* amounts a run is still holding are not older than its epoch.
StakeInv ==
  TypeOK /\ (\A w \in Worker : JobOK(job[w], strayed)) /\ LabelReached /\ SnapshotNotOlder

\* Initially nothing is stored and no run is active.
LEMMA StakeInit == Init => StakeInv
  BY DEF Init, StakeInv, TypeOK, JobOK, LabelReached, SnapshotNotOlder, Idle, NoSnaps,
         Job, Epoch, NoList, ListJob

\* A step that replaces the state of one run by an acceptable one.
LEMMA JobStep ==
  ASSUME StakeInv, NEW w \in Worker, NEW v, JobOK(v, strayed'), primary' = primary,
         strayed \subseteq strayed', job' = [job EXCEPT ![w] = v]
  PROVE  (\A u \in Worker : JobOK(job[u], strayed))' /\ job' \in [Worker -> Job]
  BY DEF StakeInv, TypeOK, JobOK

\* An idle run is acceptable.
LEMMA IdleOK == StakeInv => JobOK(Idle, strayed)
  BY DEF StakeInv, TypeOK, JobOK, Idle, NoSnaps, Job, Epoch

\* The database, the sources and the fault count after a step that changes
\* only runs and perhaps counts a fault.
LEMMA OnlyJob ==
  ASSUME StakeInv, NEW w \in Worker, NEW v, JobOK(v, strayed'),
         job' = [job EXCEPT ![w] = v], UNCHANGED <<sources, list>>,
         UNCHANGED <<power, label, stake, profile, slow>>,
         strayed \subseteq strayed', strayed' \subseteq DRep \X Epoch,
         mixed' = mixed \/ mixed' \subseteq Worker,
         faults' = faults \/ (faults < MaxFaults /\ faults' = faults + 1)
  PROVE  StakeInv'
  <1>1. primary' = primary /\ tip' = tip /\ fallback' = fallback
    BY DEF sources
  <1>2. (\A u \in Worker : JobOK(job[u], strayed))' /\ job' \in [Worker -> Job]
    BY <1>1, JobStep
  <1>3. TypeOK'
    <2>1. (\A u \in Worker : job[u].pc = "update" => job[u].drep \in DRep)'
      BY <1>2 DEF JobOK
    <2> QED BY <1>1, <1>2, <2>1 DEF StakeInv, TypeOK
  <1>4. LabelReached' /\ SnapshotNotOlder'
    BY <1>1 DEF StakeInv, LabelReached, SnapshotNotOlder
  <1> QED BY <1>2, <1>3, <1>4 DEF StakeInv

\* The same when nothing strays.
LEMMA JobOnly ==
  ASSUME StakeInv, NEW w \in Worker, NEW v, JobOK(v, strayed),
         job' = [job EXCEPT ![w] = v], UNCHANGED <<sources, db, list>>,
         mixed' = mixed \/ mixed' \subseteq Worker,
         faults' = faults \/ (faults < MaxFaults /\ faults' = faults + 1)
  PROVE  StakeInv'
  <1>1. UNCHANGED <<power, label, stake, profile, slow>> /\ strayed' = strayed
    BY DEF db
  <1>2. strayed \subseteq DRep \X Epoch
    BY DEF StakeInv, TypeOK
  <1> QED BY <1>1, <1>2, OnlyJob

\* An answer about d makes the run hold an amount of epoch e, not before base,
\* or else strayed.
LEMMA AnsweredOK ==
  ASSUME StakeInv, NEW w \in Worker, NEW d \in DRep, NEW e \in Epoch, NEW S,
         strayed \subseteq S, job[w].base <= e \/ <<d, job[w].base>> \in S,
         job[w].pc = "dreps", Answered(w, d, e)
  PROVE  \E v : JobOK(v, S) /\ job' = [job EXCEPT ![w] = v]
  <1> DEFINE v == [job[w] EXCEPT !.pc = "update", !.drep = d, !.info = e, !.todo = @ \ {d}]
  <1>1. job[w] \in Job /\ JobOK(job[w], strayed)
    BY DEF StakeInv, TypeOK
  <1>2. JobOK(v, S)
    <2>1. v \in Job
      BY <1>1 DEF Job
    <2>2. /\ v.base = job[w].base /\ v.snaps = job[w].snaps
          /\ v.drep = d /\ v.info = e /\ v.pc = "update"
      BY <1>1 DEF Job
    <2> HIDE DEF v
    <2> QED BY <1>1, <2>1, <2>2 DEF JobOK
  <1>3. job' = [job EXCEPT ![w] = v]
    BY <1>1 DEF Answered, Job
  <1> QED BY <1>2, <1>3

\* A row is updated from the answer at hand.
LEMMA UpdateKeeps ==
  ASSUME StakeInv, NEW w \in Worker, NEW d \in DRep, UpdateDRep(w, d)
  PROVE  StakeInv'
  <1> DEFINE s == [job[w].snaps EXCEPT ![d] = job[w].info]
             v == [job[w] EXCEPT !.pc = "dreps", !.drep = None, !.info = 0, !.snaps = s]
  <1>1. job[w] \in Job /\ JobOK(job[w], strayed) /\ (job[w].base <= job[w].info \/ <<d, job[w].base>> \in strayed)
    BY DEF StakeInv, TypeOK, UpdateDRep, JobOK
  <1>2. /\ s \in [DRep -> Epoch \cup {None}]
        /\ \A c \in DRep : s[c] # None => job[w].base <= s[c] \/ <<c, job[w].base>> \in strayed
    BY <1>1 DEF JobOK, Job
  <1>3. job' = [job EXCEPT ![w] = v]
    BY <1>1 DEF UpdateDRep, Job
  <1>4. JobOK(v, strayed)
    <2> HIDE DEF s
    <2>0. 0 \in Epoch
      BY DEF Epoch
    <2>1. v \in Job
      BY <1>1, <1>2, <2>0 DEF Job
    <2>2. v.base = job[w].base /\ v.snaps = s /\ v.pc = "dreps"
      BY <1>1 DEF Job
    <2> HIDE DEF v
    <2> QED BY <1>1, <1>2, <2>1, <2>2 DEF JobOK
  <1>5. /\ primary' = primary /\ tip' = tip /\ stake' = stake /\ mixed' = mixed /\ faults' = faults
        /\ profile' = profile /\ list' = list /\ slow' = slow \ {d} /\ strayed' = strayed
        /\ fallback' = fallback
    BY DEF UpdateDRep, sources
  <1>6. (\A u \in Worker : JobOK(job[u], strayed))' /\ job' \in [Worker -> Job]
    <2> HIDE DEF v
    <2> QED BY <1>3, <1>4, <1>5, JobStep
  <1>7. /\ power' = [power EXCEPT ![d] = job[w].info]
        /\ label' = [label EXCEPT ![d] = job[w].base]
        /\ job[w].info \in Epoch /\ job[w].base \in Epoch
    BY <1>1 DEF UpdateDRep, Job
  <1>8. TypeOK'
    <2> HIDE DEF v, s
    <2> QED BY <1>5, <1>6, <1>7 DEF StakeInv, TypeOK, JobOK
  <1>9. LabelReached' /\ SnapshotNotOlder'
    <2> HIDE DEF v, s
    <2>1. /\ \A c \in DRep : c # d => power'[c] = power[c] /\ label'[c] = label[c]
          /\ power'[d] = job[w].info /\ label'[d] = job[w].base
          /\ \A c \in DRep : c # d => (c \in slow' <=> c \in slow)
      BY <1>5, <1>7 DEF StakeInv, TypeOK
    <2>2. job[w].base <= primary
      BY <1>1 DEF JobOK
    <2> QED BY <1>1, <1>5, <1>7, <2>1, <2>2 DEF StakeInv, LabelReached, SnapshotNotOlder
  <1> QED BY <1>6, <1>8, <1>9 DEF StakeInv

\* A chunk of snapshots is stored under the epoch of the run.
LEMMA SnapshotsKeep ==
  ASSUME StakeInv, NEW w \in Worker, NEW C \in SUBSET DRep, SaveSnapshots(w, C)
  PROVE  StakeInv'
  <1> DEFINE s == [d \in DRep |-> IF d \in C THEN None ELSE job[w].snaps[d]]
             v == [job[w] EXCEPT !.snaps = s]
  <1>1. job[w] \in Job /\ JobOK(job[w], strayed)
    BY DEF StakeInv, TypeOK
  <1>2. /\ s \in [DRep -> Epoch \cup {None}]
        /\ \A c \in DRep : s[c] # None => job[w].base <= s[c] \/ <<c, job[w].base>> \in strayed
    BY <1>1 DEF JobOK, Job
  <1>3. job' = [job EXCEPT ![w] = v]
    BY <1>1 DEF SaveSnapshots, Job
  <1>4. JobOK(v, strayed)
    <2> HIDE DEF s
    <2>1. v \in Job
      BY <1>1, <1>2 DEF Job
    <2>2. v.base = job[w].base /\ v.snaps = s /\ v.pc = "snapshot"
      BY <1>1 DEF Job, SaveSnapshots
    <2> HIDE DEF v
    <2> QED BY <1>1, <1>2, <2>1, <2>2 DEF JobOK
  <1>5. /\ primary' = primary /\ tip' = tip /\ power' = power /\ label' = label /\ mixed' = mixed
        /\ faults' = faults /\ profile' = profile /\ list' = list /\ slow' = slow
        /\ strayed' = strayed /\ fallback' = fallback
    BY DEF SaveSnapshots, sources
  <1>6. (\A u \in Worker : JobOK(job[u], strayed))' /\ job' \in [Worker -> Job]
    <2> HIDE DEF v
    <2> QED BY <1>3, <1>4, <1>5, JobStep
  <1>7. \A d \in C : /\ job[w].snaps[d] \in Epoch
                     /\ job[w].base \in Epoch
                     /\ job[w].base <= job[w].snaps[d] \/ <<d, job[w].base>> \in strayed
    BY <1>1 DEF SaveSnapshots, Pending, Job, JobOK
  <1>8. \A d \in DRep :
          stake'[d] = IF d \in C THEN [stake[d] EXCEPT ![job[w].base] = job[w].snaps[d]]
                      ELSE stake[d]
    BY DEF SaveSnapshots
  <1>9. stake' \in [DRep -> [Epoch -> Epoch \cup {None}]]
    <2>1. stake' = [d \in DRep |-> IF d \in C
                                   THEN [stake[d] EXCEPT ![job[w].base] = job[w].snaps[d]]
                                   ELSE stake[d]]
      BY DEF SaveSnapshots
    <2>2. ASSUME NEW d \in DRep PROVE stake'[d] \in [Epoch -> Epoch \cup {None}]
      <3>1. stake[d] \in [Epoch -> Epoch \cup {None}]
        BY DEF StakeInv, TypeOK
      <3> QED BY <1>7, <1>8, <3>1
    <2> QED BY <2>1, <2>2
  <1>10. \A d \in DRep, e \in Epoch :
           stake'[d][e] # None /\ <<d, e>> \notin strayed => e <= stake'[d][e]
    <2> SUFFICES ASSUME NEW d \in DRep, NEW e \in Epoch, stake'[d][e] # None,
                        <<d, e>> \notin strayed
                 PROVE  e <= stake'[d][e]
      OBVIOUS
    <2>1. stake[d] \in [Epoch -> Epoch \cup {None}]
      BY DEF StakeInv, TypeOK
    <2>2. stake[d][e] # None => e <= stake[d][e]
      BY DEF StakeInv, SnapshotNotOlder
    <2>3. CASE d \in C /\ e = job[w].base
      BY <1>7, <1>8, <2>1, <2>3
    <2>4. CASE ~ (d \in C /\ e = job[w].base)
      BY <1>8, <2>1, <2>2, <2>4
    <2> QED BY <2>3, <2>4
  <1>11. TypeOK'
    <2> HIDE DEF v, s
    <2> QED BY <1>5, <1>6, <1>9 DEF StakeInv, TypeOK, JobOK
  <1>12. LabelReached' /\ SnapshotNotOlder'
    BY <1>5, <1>10 DEF StakeInv, LabelReached, SnapshotNotOlder
  <1> QED BY <1>6, <1>11, <1>12 DEF StakeInv

\* A step that changes only one list sync and perhaps counts a fault.
LEMMA OnlyList ==
  ASSUME StakeInv, NEW l \in Lister, NEW v \in ListJob, v.pc \in {"meta", "save"} => v.drep \in DRep,
         list' = [list EXCEPT ![l] = v], UNCHANGED <<listFrame, db>>,
         mixed' = mixed \/ mixed' \subseteq Worker,
         faults' = faults \/ (faults < MaxFaults /\ faults' = faults + 1)
  PROVE  StakeInv'
  <1>1. /\ primary' = primary /\ tip' = tip /\ job' = job
        /\ power' = power /\ label' = label /\ stake' = stake /\ profile' = profile /\ slow' = slow
        /\ fallback' = fallback /\ strayed' = strayed
    BY DEF listFrame, sources, db
  <1>2. TypeOK'
    BY <1>1 DEF StakeInv, TypeOK
  <1> QED BY <1>1, <1>2 DEF StakeInv, JobOK, LabelReached, SnapshotNotOlder

\* The list sync writes a row: an answer that the primary has not left behind
\* is no older than the label.
LEMMA SaveKeeps ==
  ASSUME StakeInv, NEW l \in Lister, NEW d \in DRep, SaveDRep(l, d)
  PROVE  StakeInv'
  <1> DEFINE e == list[l].info
             v == [list[l] EXCEPT !.pc = "ask", !.drep = None, !.info = None, !.meta = FALSE]
  <1>1. list[l] \in ListJob /\ e \in Epoch \cup {None} /\ v \in ListJob /\ v.pc = "ask"
    BY DEF StakeInv, TypeOK, ListJob
  <1>2. /\ list' = [list EXCEPT ![l] = v]
        /\ power' = [power EXCEPT ![d] = e]
        /\ slow' = IF e # None /\ e < primary THEN slow \cup {d} ELSE slow \ {d}
        /\ profile' \subseteq DRep
        /\ primary' = primary /\ tip' = tip /\ fallback' = fallback /\ job' = job
        /\ label' = label /\ stake' = stake /\ strayed' = strayed
        /\ mixed' = mixed /\ faults' = faults
    BY <1>1 DEF SaveDRep, listFrame, sources, ListJob, StakeInv, TypeOK
  <1> HIDE DEF v, e
  <1>3. TypeOK'
    BY <1>1, <1>2 DEF StakeInv, TypeOK
  <1>4. SnapshotNotOlder'
    <2>1. ASSUME NEW c \in DRep, power'[c] # None, label'[c] # None, c \notin slow',
                 <<c, label[c]>> \notin strayed
          PROVE  label'[c] <= power'[c]
      <3>1. CASE c # d
        <4>1. power'[c] = power[c] /\ c \notin slow
          BY <1>2, <2>1, <3>1 DEF StakeInv, TypeOK
        <4> QED BY <1>2, <2>1, <4>1 DEF StakeInv, SnapshotNotOlder
      <3>2. CASE c = d
        <4>1. power'[c] = e /\ e \in Epoch /\ ~ (e < primary)
          BY <1>1, <1>2, <2>1, <3>2 DEF StakeInv, TypeOK
        <4>2. label[c] <= primary /\ label[c] \in Epoch /\ primary \in Epoch
          BY <1>2, <2>1 DEF StakeInv, TypeOK, LabelReached, Epoch
        <4> QED BY <1>2, <4>1, <4>2 DEF Epoch
      <3> QED BY <3>1, <3>2
    <2> QED BY <1>2, <2>1 DEF StakeInv, SnapshotNotOlder
  <1> QED BY <1>2, <1>3, <1>4 DEF StakeInv, JobOK, LabelReached

\* Every step keeps the invariant.
LEMMA StakeNext == StakeInv /\ [Next]_vars => StakeInv'
  <1> SUFFICES ASSUME StakeInv, [Next]_vars PROVE StakeInv'
    OBVIOUS
  <1>1. CASE EpochBegins
    <2>1. /\ tip < MaxEpoch /\ tip' = tip + 1 /\ primary' = primary /\ fallback' = fallback
          /\ power' = power /\ label' = label /\ stake' = stake /\ profile' = profile /\ slow' = slow
          /\ strayed' = strayed /\ job' = job /\ list' = list /\ mixed' = mixed /\ faults' = faults
      BY <1>1 DEF EpochBegins, db
    <2>2. TypeOK'
      BY <2>1 DEF StakeInv, TypeOK, Epoch
    <2> QED BY <2>1, <2>2 DEF StakeInv, JobOK, LabelReached, SnapshotNotOlder
  <1>2. CASE PrimaryCatchesUp
    <2>1. /\ primary' = primary + 1 /\ primary < tip /\ tip' = tip /\ fallback' = fallback
          /\ power' = power /\ label' = label /\ stake' = stake /\ profile' = profile /\ slow' = slow
          /\ strayed' = strayed /\ job' = job /\ list' = list /\ mixed' = mixed /\ faults' = faults
      BY <1>2 DEF PrimaryCatchesUp, db
    <2>2. TypeOK'
      BY <2>1 DEF StakeInv, TypeOK, Epoch
    <2>3. (\A w \in Worker : JobOK(job[w], strayed))'
      <3>1. \A w \in Worker : job[w].base \in Epoch
        BY DEF StakeInv, TypeOK, Job
      <3> QED BY <2>1, <3>1 DEF StakeInv, TypeOK, JobOK, Epoch
    <2>4. LabelReached'
      BY <2>1 DEF StakeInv, TypeOK, LabelReached, Epoch
    <2> QED BY <2>1, <2>2, <2>3, <2>4 DEF StakeInv, SnapshotNotOlder
  <1>19. CASE FallbackCatchesUp
    <2>1. /\ fallback' = fallback + 1 /\ fallback < tip /\ tip' = tip /\ primary' = primary
          /\ power' = power /\ label' = label /\ stake' = stake /\ profile' = profile /\ slow' = slow
          /\ strayed' = strayed /\ job' = job /\ list' = list /\ mixed' = mixed /\ faults' = faults
      BY <1>19 DEF FallbackCatchesUp, db
    <2>2. TypeOK'
      BY <2>1 DEF StakeInv, TypeOK, Epoch
    <2> QED BY <2>1, <2>2 DEF StakeInv, JobOK, LabelReached, SnapshotNotOlder
  <1>3. ASSUME NEW w \in Worker, ProbePrimary(w) PROVE StakeInv'
    <2> DEFINE v == [job[w] EXCEPT !.pc = "probe", !.base = primary]
    <2>1. job[w] \in Job /\ JobOK(job[w], strayed) /\ primary \in Epoch
      BY DEF StakeInv, TypeOK, Epoch
    <2>2. v \in Job
      BY <2>1 DEF Job
    <2>3. v.base = primary /\ v.snaps = job[w].snaps /\ v.pc = "probe"
      BY <2>1 DEF Job
    <2>4. job[w].snaps = NoSnaps /\ \A d \in DRep : NoSnaps[d] = None
      BY <1>3, <2>1 DEF ProbePrimary, JobOK, NoSnaps
    <2>5. job' = [job EXCEPT ![w] = v]
      BY <1>3, <2>1 DEF ProbePrimary, Job
    <2> HIDE DEF v
    <2>6. JobOK(v, strayed)
      BY <2>1, <2>2, <2>3, <2>4 DEF JobOK, Epoch
    <2>7. mixed' \subseteq Worker
      BY <1>3 DEF ProbePrimary, StakeInv, TypeOK
    <2> QED BY <1>3, <2>5, <2>6, <2>7, JobOnly DEF ProbePrimary
  <1>4. ASSUME NEW w \in Worker, ProbeTip(w) PROVE StakeInv'
    <2> DEFINE v == [job[w] EXCEPT !.pc = "dreps", !.todo = DRep]
    <2>3. job[w] \in Job /\ JobOK(job[w], strayed)
      BY DEF StakeInv, TypeOK
    <2>4. v \in Job /\ job' = [job EXCEPT ![w] = v]
      BY <1>4, <2>3 DEF Job, ProbeTip
    <2>5. v.base = job[w].base /\ v.snaps = job[w].snaps /\ v.pc = "dreps"
      BY <2>3 DEF Job
    <2>1. JobOK(v, strayed) /\ job' = [job EXCEPT ![w] = v]
      <3> HIDE DEF v
      <3> QED BY <2>3, <2>4, <2>5 DEF JobOK
    <2> HIDE DEF v
    <2> QED BY <1>4, <2>1, JobOnly DEF ProbeTip
  <1>14. ASSUME NEW w \in Worker, TipUnknown(w) PROVE StakeInv'
    <2> DEFINE v == [job[w] EXCEPT !.pc = "dreps", !.todo = DRep]
    <2>3. job[w] \in Job /\ JobOK(job[w], strayed)
      BY DEF StakeInv, TypeOK
    <2>4. v \in Job /\ job' = [job EXCEPT ![w] = v]
      BY <1>14, <2>3 DEF Job, TipUnknown
    <2>5. v.base = job[w].base /\ v.snaps = job[w].snaps /\ v.pc = "dreps"
      BY <2>3 DEF Job
    <2>1. JobOK(v, strayed) /\ job' = [job EXCEPT ![w] = v]
      <3> HIDE DEF v
      <3> QED BY <2>3, <2>4, <2>5 DEF JobOK
    <2>2. mixed' \subseteq Worker
      BY <1>14 DEF StakeInv, TypeOK, TipUnknown
    <2> HIDE DEF v
    <2> QED BY <1>14, <2>1, <2>2, JobOnly DEF TipUnknown
  <1>5. ASSUME NEW w \in Worker, Abort(w) PROVE StakeInv'
    BY <1>5, IdleOK, JobOnly DEF Abort
  <1>6. ASSUME NEW w \in Worker, NEW d \in DRep, FetchPrimary(w, d) PROVE StakeInv'
    <2>1. primary \in Epoch /\ job[w].base <= primary
      <3>1. JobOK(job[w], strayed)
        BY DEF StakeInv
      <3>2. primary \in Epoch
        BY DEF StakeInv, TypeOK, Epoch
      <3> QED BY <3>1, <3>2 DEF JobOK
    <2>2. \E v : JobOK(v, strayed) /\ job' = [job EXCEPT ![w] = v]
      BY <1>6, <2>1, AnsweredOK DEF FetchPrimary
    <2> QED BY <1>6, <2>2, JobOnly DEF FetchPrimary
  <1>7. ASSUME NEW w \in Worker, NEW d \in DRep, FetchFallback(w, d) PROVE StakeInv'
    <2>1. fallback \in Epoch /\ job[w].base \in Epoch /\ strayed \subseteq DRep \X Epoch
      BY DEF StakeInv, TypeOK, JobOK, Epoch, Job
    <2>2. strayed' = strayed \cup {p \in {<<d, job[w].base>>} : fallback < p[2]}
      BY <1>7 DEF FetchFallback
    <2>3. strayed \subseteq strayed' /\ strayed' \subseteq DRep \X Epoch
      BY <2>1, <2>2
    <2>4. job[w].base <= fallback \/ <<d, job[w].base>> \in strayed'
      BY <2>1, <2>2 DEF Epoch
    <2>5. \E v : JobOK(v, strayed') /\ job' = [job EXCEPT ![w] = v]
      BY <1>7, <2>1, <2>3, <2>4, AnsweredOK DEF FetchFallback
    <2> QED BY <1>7, <2>3, <2>5, OnlyJob DEF FetchFallback
  <1>8. ASSUME NEW w \in Worker, NEW d \in DRep, SkipDRep(w, d) PROVE StakeInv'
    <2> DEFINE v == [job[w] EXCEPT !.todo = @ \ {d}]
    <2>1. JobOK(v, strayed) /\ job' = [job EXCEPT ![w] = v]
      BY <1>8 DEF StakeInv, TypeOK, JobOK, Job, SkipDRep
    <2> HIDE DEF v
    <2> QED BY <1>8, <2>1, JobOnly DEF SkipDRep
  <1>9. ASSUME NEW w \in Worker, UpdateFails(w) PROVE StakeInv'
    <2> DEFINE v == [job[w] EXCEPT !.pc = "dreps", !.drep = None, !.info = 0]
    <2>1. job[w] \in Job /\ JobOK(job[w], strayed)
      BY DEF StakeInv, TypeOK
    <2>0. 0 \in Epoch
      BY DEF Epoch
    <2>2. v \in Job /\ job' = [job EXCEPT ![w] = v]
      BY <1>9, <2>0, <2>1 DEF Job, UpdateFails
    <2>3. v.base = job[w].base /\ v.snaps = job[w].snaps /\ v.pc = "dreps"
      BY <2>1 DEF Job
    <2> HIDE DEF v
    <2>4. JobOK(v, strayed)
      BY <2>1, <2>2, <2>3 DEF JobOK
    <2> QED BY <1>9, <2>2, <2>4, JobOnly DEF UpdateFails
  <1>10. ASSUME NEW w \in Worker, DRepsDone(w) PROVE StakeInv'
    <2> DEFINE v == [job[w] EXCEPT !.pc = "snapshot"]
    <2>1. JobOK(v, strayed) /\ job' = [job EXCEPT ![w] = v]
      BY <1>10 DEF StakeInv, TypeOK, JobOK, Job, DRepsDone
    <2> HIDE DEF v
    <2> QED BY <1>10, <2>1, JobOnly DEF DRepsDone
  <1>11. ASSUME NEW w \in Worker, FinishSync(w) PROVE StakeInv'
    BY <1>11, IdleOK, JobOnly DEF FinishSync
  <1>12. ASSUME NEW w \in Worker, RunFails(w) PROVE StakeInv'
    BY <1>12, IdleOK, JobOnly DEF RunFails
  <1>13. CASE UNCHANGED vars
    BY <1>13 DEF vars, sources, db, StakeInv, TypeOK, JobOK, LabelReached, SnapshotNotOlder
  <1>15. ASSUME NEW l \in Lister, NEW d \in DRep, AskInfo(l, d) \/ InfoFails(l, d)
         PROVE  StakeInv'
    <2>1. PICK e \in {primary, fallback, None} : Detailed(l, d, e)
      BY <1>15 DEF AskInfo, InfoFails
    <2>2. list[l] \in ListJob /\ e \in Epoch \cup {None}
      BY DEF StakeInv, TypeOK, Epoch
    <2> DEFINE v == [list[l] EXCEPT !.pc = "meta", !.drep = d, !.info = e, !.todo = @ \ {d}]
    <2>3. v \in ListJob /\ v.drep = d /\ list' = [list EXCEPT ![l] = v]
      BY <2>1, <2>2 DEF Detailed, ListJob
    <2> HIDE DEF v
    <2> QED BY <1>15, <2>3, OnlyList DEF AskInfo, InfoFails
  <1>20. ASSUME NEW l \in Lister, AskMetadata(l) \/ MetadataFails(l) PROVE StakeInv'
    <2>1. list[l] \in ListJob /\ list[l].drep \in DRep
      BY <1>20 DEF StakeInv, TypeOK, AskMetadata, MetadataFails
    <2>2. PICK m \in BOOLEAN : list' = [list EXCEPT ![l] = [list[l] EXCEPT !.pc = "save", !.meta = m]]
      <3>1. CASE AskMetadata(l)
        BY <2>1, <3>1 DEF AskMetadata, ListJob
      <3>2. CASE MetadataFails(l)
        <4>1. list[l].meta \in BOOLEAN
          BY <2>1 DEF ListJob
        <4>2. list' = [list EXCEPT ![l] = [list[l] EXCEPT !.pc = "save", !.meta = list[l].meta]]
          BY <2>1, <3>2 DEF MetadataFails, ListJob
        <4> QED BY <4>1, <4>2
      <3> QED BY <1>20, <3>1, <3>2
    <2> DEFINE v == [list[l] EXCEPT !.pc = "save", !.meta = m]
    <2>3. v \in ListJob /\ v.drep \in DRep /\ list' = [list EXCEPT ![l] = v]
      BY <2>1, <2>2 DEF ListJob
    <2> HIDE DEF v
    <2> QED BY <1>20, <2>3, OnlyList DEF AskMetadata, MetadataFails
  <1>16. ASSUME NEW l \in Lister, StartList(l) PROVE StakeInv'
    <2> DEFINE v == [list[l] EXCEPT !.pc = "ask", !.todo = DRep]
    <2>1. list[l] \in ListJob
      BY DEF StakeInv, TypeOK
    <2>2. v \in ListJob /\ v.pc = "ask" /\ list' = [list EXCEPT ![l] = v]
      BY <1>16, <2>1 DEF ListJob, StartList
    <2>3. mixed' \subseteq Worker
      BY <1>16 DEF StartList, StakeInv, TypeOK
    <2> HIDE DEF v
    <2> QED BY <1>16, <2>2, <2>3, OnlyList DEF StartList
  <1>17. ASSUME NEW l \in Lister, SaveFails(l) PROVE StakeInv'
    <2> DEFINE v == [list[l] EXCEPT !.pc = "ask", !.drep = None, !.info = None, !.meta = FALSE]
    <2>1. list[l] \in ListJob
      BY DEF StakeInv, TypeOK
    <2>2. v \in ListJob /\ v.pc = "ask" /\ list' = [list EXCEPT ![l] = v]
      BY <1>17, <2>1 DEF ListJob, SaveFails
    <2> HIDE DEF v
    <2> QED BY <1>17, <2>2, OnlyList DEF SaveFails
  <1>18. ASSUME NEW l \in Lister, ListEnds(l) \/ ListFails(l) PROVE StakeInv'
    <2>1. NoList \in ListJob /\ NoList.pc = "idle"
      BY DEF NoList, ListJob
    <2> QED BY <1>18, <2>1, OnlyList DEF ListEnds, ListFails
  <1> QED BY <1>1, <1>2, <1>3, <1>4, <1>5, <1>6, <1>7, <1>8, <1>9, <1>10, <1>11, <1>12,
             <1>13, <1>14, <1>15, <1>16, <1>17, <1>18, <1>19, <1>20,
             UpdateKeeps, SnapshotsKeep, SaveKeeps
          DEF Next, RunStep, RunFault, ListStep, ListFault

\* The invariant holds throughout.
LEMMA StakeAlways == Spec => []StakeInv
  BY StakeInit, StakeNext, PTL DEF Spec

\* Every variable keeps its type.
THEOREM StakeTypes == Spec => []TypeOK
  <1>1. StakeInv => TypeOK
    BY DEF StakeInv
  <1> QED BY <1>1, StakeAlways, PTL

\* No snapshot holds stake of an earlier epoch than its own, and no label is
\* newer than the stake it labels: overlapping runs, sources at any heights, an
\* epoch that begins in the middle of a run and crashes included.  Exempt are
\* the snapshot and the label of a DRep and an epoch for which a fallback behind
\* that epoch has answered, and the label of a row that a list sync wrote last
\* from an answer older than what the primary served by then.
THEOREM SnapshotsNotOlder == Spec => []SnapshotNotOlder
  <1>1. StakeInv => SnapshotNotOlder
    BY DEF StakeInv
  <1> QED BY <1>1, StakeAlways, PTL
-----------------------------------------------------------------------------
\* A run that has overlapped with no other so far, of the list sync either,
\* and has not gone ahead without learning the epoch of the fallback.
Lone(w) == w \notin mixed /\ job[w].pc # "idle"

\* DReps whose row the run has still to write.
Ahead(w, d) == d \in job[w].todo \/ (job[w].pc = "update" /\ d = job[w].drep)

\* One of the sources has reached epoch e.
Reached(e) == e <= primary \/ e <= fallback

\* While a lone run is at work, no row it has still to write is newer than the
\* epoch it started in: a power comes from one of the sources, the run started
\* in the epoch of the primary, and has compared it with that of the fallback.
RunFresh(w) ==
  /\ job[w].pc = "update" => job[w].drep \notin job[w].todo /\ Reached(job[w].info)
  /\ Lone(w) => /\ \A u \in Worker \ {w} : job[u].pc = "idle"
                /\ \A l \in Lister : list[l].pc = "idle"
                /\ job[w].pc = "probe" =>
                     \A d \in DRep : power[d] # None =>
                       power[d] <= job[w].base \/ power[d] <= fallback
                /\ job[w].pc \in {"dreps", "update"} =>
                     \A d \in DRep : power[d] # None /\ Ahead(w, d) => power[d] <= job[w].base

FreshInv ==
  /\ \A d \in DRep : power[d] # None => Reached(power[d])
  /\ \A l \in Lister : list[l].info # None => Reached(list[l].info)
  /\ \A w \in Worker : RunFresh(w)

\* While w is at work no other run is lone, so what w writes disturbs none.
LEMMA OthersFresh ==
  ASSUME FreshInv, NEW w \in Worker, job[w].pc # "idle", UNCHANGED sources, mixed' = mixed,
         list' = list, \A u \in Worker \ {w} : job'[u] = job[u]
  PROVE  \A u \in Worker \ {w} : RunFresh(u)'
  <1> SUFFICES ASSUME NEW u \in Worker \ {w} PROVE RunFresh(u)'
    OBVIOUS
  <1>1. RunFresh(u) /\ job'[u] = job[u]
    BY DEF FreshInv
  <1>2. ~ Lone(u)
    BY <1>1 DEF RunFresh
  <1> QED BY <1>1, <1>2 DEF RunFresh, Lone, Reached, sources

\* A run that ends is fresh.
LEMMA IdleFresh ==
  ASSUME NEW w \in Worker, job'[w] = Idle
  PROVE  RunFresh(w)'
  BY DEF RunFresh, Lone, Idle

\* What has been reached stays so while the sources do not move, or one of
\* them moves on.
LEMMA ReachedStays ==
  ASSUME StakeInv, \/ UNCHANGED sources
                   \/ primary' = primary + 1 /\ fallback' = fallback
                   \/ primary' = primary /\ fallback' = fallback + 1
  PROVE  \A e \in Epoch : Reached(e) => Reached(e)'
  <1>1. primary \in Int /\ fallback \in Int /\ \A e \in Epoch : e \in Int
    BY DEF StakeInv, TypeOK, Epoch
  <1> QED BY <1>1 DEF Reached, sources

\* The epochs a step meets are epochs.
LEMMA Epochs ==
  ASSUME StakeInv
  PROVE  /\ primary \in Epoch /\ fallback \in Epoch
         /\ \A d \in DRep : power[d] # None => power[d] \in Epoch
         /\ \A l \in Lister : list[l] \in ListJob /\ (list[l].info # None => list[l].info \in Epoch)
         /\ \A w \in Worker : job[w] \in Job /\ job[w].info \in Epoch /\ job[w].base \in Epoch
  BY DEF StakeInv, TypeOK, Epoch, ListJob, Job

\* A step of w that writes no row keeps the invariant if it keeps it for w.
LEMMA QuietStep ==
  ASSUME StakeInv, FreshInv, NEW w \in Worker, NEW v, job[w].pc # "idle",
         job' = [job EXCEPT ![w] = v], UNCHANGED <<sources, power, list, mixed>>,
         RunFresh(w)'
  PROVE  FreshInv'
  <1>1. UNCHANGED sources /\ power' = power /\ mixed' = mixed /\ list' = list
    OBVIOUS
  <1>2. \A u \in Worker \ {w} : job'[u] = job[u]
    BY DEF StakeInv, TypeOK
  <1>3. \A u \in Worker \ {w} : RunFresh(u)'
    BY <1>1, <1>2, OthersFresh
  <1> QED BY <1>1, <1>3 DEF FreshInv, Reached, sources

\* A run that goes on with fewer DReps ahead of it, or with one of them at
\* hand and the answer of a source, stays fresh.
LEMMA LessAhead ==
  ASSUME FreshInv, NEW w \in Worker, job[w].pc \in {"dreps", "update"},
         UNCHANGED sources, power' = power, mixed' = mixed, list' = list,
         \A u \in Worker \ {w} : job'[u] = job[u], job'[w].pc # "probe",
         job'[w].base = job[w].base, job'[w].todo \subseteq job[w].todo,
         job'[w].pc = "update" => /\ job'[w].drep \in job[w].todo \ job'[w].todo
                                  /\ Reached(job'[w].info)
  PROVE  FreshInv'
  <1>1. RunFresh(w)
    BY DEF FreshInv
  <1>2. Lone(w)' => Lone(w)
    BY DEF Lone
  <1>3. \A d \in DRep : Ahead(w, d)' => Ahead(w, d)
    BY DEF Ahead
  <1>6. (job[w].pc = "update" => Reached(job[w].info))'
    BY DEF Reached, sources
  <1>4. RunFresh(w)'
    BY <1>1, <1>2, <1>3, <1>6 DEF RunFresh
  <1>5. \A u \in Worker \ {w} : RunFresh(u)'
    BY OthersFresh
  <1> QED BY <1>4, <1>5 DEF FreshInv, Reached, sources

\* Initially there is no voting power and no run.
LEMMA FreshInit == Init => FreshInv
  BY DEF Init, FreshInv, RunFresh, Lone, Idle, NoList

\* The sources move on.
LEMMA SourcesFresh ==
  ASSUME StakeInv, FreshInv, EpochBegins \/ PrimaryCatchesUp \/ FallbackCatchesUp
  PROVE  FreshInv'
  <1>1. power' = power /\ list' = list /\ job' = job /\ mixed' = mixed
    BY DEF EpochBegins, PrimaryCatchesUp, FallbackCatchesUp, db
  <1>2. \/ UNCHANGED <<primary, fallback>>
        \/ primary' = primary + 1 /\ fallback' = fallback
        \/ primary' = primary /\ fallback' = fallback + 1
    BY DEF EpochBegins, PrimaryCatchesUp, FallbackCatchesUp
  <1>3. \A e \in Epoch : /\ Reached(e) => Reached(e)'
                         /\ e <= fallback => e <= fallback'
    <2>1. primary \in Int /\ fallback \in Int /\ \A e \in Epoch : e \in Int
      BY DEF StakeInv, TypeOK, Epoch
    <2> QED BY <1>2, <2>1 DEF Reached
  <1>4. ASSUME NEW w \in Worker PROVE RunFresh(w)'
    <2>1. RunFresh(w) /\ job[w].info \in Epoch
      BY Epochs DEF FreshInv
    <2>2. job[w].pc = "update" => job'[w].drep \notin job'[w].todo /\ Reached(job[w].info)'
      BY <1>1, <1>3, <2>1 DEF RunFresh
    <2>3. \A d \in DRep : power[d] # None /\ power[d] <= fallback => power[d] <= fallback'
      BY <1>3, Epochs
    <2> QED BY <1>1, <2>1, <2>2, <2>3 DEF RunFresh, Lone, Ahead, Reached
  <1>5. \A d \in DRep : power'[d] # None => Reached(power[d])'
    BY <1>1, <1>3, Epochs DEF FreshInv
  <1>6. \A l \in Lister : list'[l].info # None => Reached(list[l].info)'
    BY <1>1, <1>3, Epochs DEF FreshInv
  <1> QED BY <1>1, <1>4, <1>5, <1>6 DEF FreshInv, Reached

\* A run asks the primary for its epoch.
LEMMA ProbeFresh ==
  ASSUME StakeInv, FreshInv, NEW w \in Worker, ProbePrimary(w)
  PROVE  FreshInv'
  <1> DEFINE others == {u \in Worker \ {w} : job[u].pc # "idle"}
             alone  == others = {} /\ \A l \in Lister : list[l].pc = "idle"
  <1>1. /\ UNCHANGED sources /\ power' = power /\ list' = list
        /\ mixed' = IF alone THEN mixed \ {w} ELSE mixed \cup others \cup {w}
        /\ job'[w].pc = "probe" /\ job'[w].base = primary
        /\ \A u \in Worker \ {w} : job'[u] = job[u]
    BY DEF ProbePrimary, db, StakeInv, TypeOK, Job
  <1>2. \A d \in DRep : power[d] # None => power[d] <= primary \/ power[d] <= fallback
    BY DEF FreshInv, Reached
  <1>3. RunFresh(w)'
    BY <1>1, <1>2 DEF RunFresh, Lone, sources
  <1>4. ASSUME NEW u \in Worker \ {w} PROVE RunFresh(u)'
    <2>1. RunFresh(u) /\ ~ Lone(u)'
      BY <1>1 DEF FreshInv, Lone
    <2> QED BY <1>1, <2>1 DEF RunFresh, Reached, sources
  <1> QED BY <1>1, <1>3, <1>4 DEF FreshInv, Reached, sources

\* The epoch of the run is not behind that of the fallback.
LEMMA TipFresh ==
  ASSUME StakeInv, FreshInv, NEW w \in Worker, ProbeTip(w)
  PROVE  FreshInv'
  <1> DEFINE v == [job[w] EXCEPT !.pc = "dreps", !.todo = DRep]
  <1>1. /\ job' = [job EXCEPT ![w] = v] /\ UNCHANGED <<sources, power, list, mixed>>
        /\ job[w].pc = "probe" /\ fallback <= job[w].base
    <2>1. job[w] \in Job /\ job[w].base \in Int /\ fallback \in Int
      BY Epochs DEF Epoch
    <2> QED BY <2>1 DEF ProbeTip, db, Job
  <1>2. v.pc = "dreps" /\ v.base = job[w].base /\ v.base \in Int /\ fallback \in Int
    BY Epochs DEF Epoch, Job
  <1> HIDE DEF v
  <1>3. job'[w] = v
    BY <1>1 DEF StakeInv, TypeOK
  <1>4. Lone(w)' => Lone(w)
    BY <1>1 DEF Lone
  <1>5. RunFresh(w)
    BY DEF FreshInv
  <1>6. Lone(w) => \A d \in DRep : power[d] # None => power[d] <= v.base
    <2>1. Lone(w) => \A d \in DRep : power[d] # None =>
                       power[d] <= v.base \/ power[d] <= fallback
      BY <1>1, <1>2, <1>5 DEF RunFresh
    <2>2. \A d \in DRep : power[d] # None => power[d] \in Int
      BY Epochs DEF Epoch
    <2> QED BY <1>1, <1>2, <2>1, <2>2
  <1>7. Lone(w) => /\ \A u \in Worker \ {w} : job'[u].pc = "idle"
                   /\ \A l \in Lister : list'[l].pc = "idle"
    BY <1>1, <1>5 DEF RunFresh, StakeInv, TypeOK
  <1>8. RunFresh(w)'
    BY <1>1, <1>2, <1>3, <1>4, <1>6, <1>7 DEF RunFresh
  <1> QED BY <1>1, <1>8, QuietStep

\* The list sync takes a step.
LEMMA ListFresh ==
  ASSUME StakeInv, FreshInv, NEW l \in Lister, ListStep(l) \/ ListFault(l), ~ StartList(l)
  PROVE  FreshInv'
  <1>1. list \in [Lister -> ListJob] /\ list[l] \in ListJob
    BY DEF StakeInv, TypeOK
  <1>2. /\ list[l].pc # "idle" /\ UNCHANGED sources /\ job' = job /\ mixed' = mixed
        /\ \A m \in Lister \ {l} : list'[m] = list[m]
        /\ list'[l].info \in {primary, fallback, None, list[l].info}
    <2>1. CASE ListEnds(l) \/ ListFails(l)
      BY <1>1, <2>1 DEF ListEnds, ListFails, NoList, listFrame
    <2>2. CASE AskMetadata(l) \/ MetadataFails(l)
      BY <1>1, <2>2 DEF AskMetadata, MetadataFails, ListJob, listFrame
    <2>3. CASE \E d \in DRep : AskInfo(l, d) \/ InfoFails(l, d)
      <3>1. PICK d \in DRep, e \in {primary, fallback, None} :
              (AskInfo(l, d) \/ InfoFails(l, d)) /\ Detailed(l, d, e)
        BY <2>3 DEF AskInfo, InfoFails
      <3>2. list'[l].info = e /\ \A k \in Lister \ {l} : list'[k] = list[k]
        BY <1>1, <3>1 DEF Detailed, ListJob
      <3> QED BY <3>1, <3>2 DEF AskInfo, InfoFails, listFrame
    <2>4. CASE SaveFails(l) \/ \E d \in DRep : SaveDRep(l, d)
      <3>1. list'[l].info = None /\ \A k \in Lister \ {l} : list'[k] = list[k]
        BY <1>1, <2>4 DEF SaveFails, SaveDRep, ListJob
      <3> QED BY <2>4, <3>1 DEF SaveFails, SaveDRep, listFrame
    <2> QED BY <2>1, <2>2, <2>3, <2>4 DEF ListStep, ListFault
  <1>3. \A w \in Worker : ~ Lone(w)
    BY <1>2 DEF FreshInv, RunFresh
  <1>4. \A w \in Worker : RunFresh(w)'
    BY <1>2, <1>3 DEF FreshInv, RunFresh, Lone, Reached, sources
  <1>5. \A d \in DRep : power'[d] = power[d] \/ power'[d] = list[l].info
    BY DEF ListStep, ListFault, ListEnds, AskInfo, InfoFails, AskMetadata, MetadataFails,
           SaveDRep, SaveFails, ListFails, db, StakeInv, TypeOK
  <1>6. Reached(primary) /\ Reached(fallback)
    BY Epochs DEF Reached, Epoch
  <1>7. \A d \in DRep : power'[d] # None => Reached(power[d])'
    BY <1>2, <1>5 DEF FreshInv, Reached, sources
  <1>8. \A m \in Lister : list'[m].info # None => Reached(list[m].info)'
    BY <1>2, <1>6 DEF FreshInv, Reached, sources
  <1> QED BY <1>4, <1>7, <1>8 DEF FreshInv

\* Every step keeps the invariant.
LEMMA FreshNext ==
  ASSUME StakeInv, FreshInv, [Next]_vars
  PROVE  FreshInv'
  <1>1. CASE EpochBegins \/ PrimaryCatchesUp \/ FallbackCatchesUp
    BY <1>1, SourcesFresh
  <1>4. ASSUME NEW w \in Worker, ProbePrimary(w) \/ ProbeTip(w) PROVE FreshInv'
    BY <1>4, ProbeFresh, TipFresh
  <1>12. ASSUME NEW w \in Worker, TipUnknown(w) PROVE FreshInv'
    <2>1. /\ UNCHANGED sources /\ power' = power /\ mixed' = mixed \cup {w} /\ list' = list
          /\ job'[w].pc = "dreps" /\ \A u \in Worker \ {w} : job'[u] = job[u]
      BY <1>12 DEF TipUnknown, db, StakeInv, TypeOK, Job
    <2>2. job[w].pc = "probe"
      BY <1>12 DEF TipUnknown
    <2>3. RunFresh(w)'
      BY <2>1 DEF RunFresh, Lone
    <2>4. ASSUME NEW u \in Worker \ {w} PROVE RunFresh(u)'
      <3>1. RunFresh(u) /\ ~ Lone(u)
        BY <2>2 DEF FreshInv, RunFresh
      <3> QED BY <2>1, <3>1 DEF RunFresh, Lone, Reached, sources
    <2> QED BY <2>1, <2>3, <2>4 DEF FreshInv, Reached, sources
  <1>5. ASSUME NEW w \in Worker, Abort(w) \/ FinishSync(w) \/ RunFails(w) PROVE FreshInv'
    <2>1. /\ job' = [job EXCEPT ![w] = Idle] /\ UNCHANGED <<sources, power, list, mixed>>
          /\ job[w].pc # "idle"
      BY <1>5 DEF Abort, FinishSync, RunFails, db
    <2>2. job'[w] = Idle
      BY <2>1 DEF StakeInv, TypeOK
    <2> QED BY <2>1, <2>2, IdleFresh, QuietStep
  <1>6. ASSUME NEW w \in Worker, NEW d \in DRep, FetchPrimary(w, d) \/ FetchFallback(w, d)
        PROVE  FreshInv'
    <2>1. PICK e \in {primary, fallback} : Answered(w, d, e)
      BY <1>6 DEF FetchPrimary, FetchFallback
    <2>2. /\ UNCHANGED sources /\ power' = power /\ mixed' = mixed /\ list' = list
          /\ job[w].pc = "dreps" /\ d \in job[w].todo
      BY <1>6 DEF FetchPrimary, FetchFallback, db
    <2>3. /\ \A u \in Worker \ {w} : job'[u] = job[u]
          /\ job'[w].base = job[w].base /\ job'[w].todo = job[w].todo \ {d}
          /\ job'[w].drep = d /\ job'[w].info = e /\ job'[w].pc = "update"
      BY <2>1 DEF Answered, StakeInv, TypeOK, Job
    <2>4. Reached(e)
      BY Epochs DEF Reached, Epoch
    <2> QED BY <2>2, <2>3, <2>4, LessAhead
  <1>7. ASSUME NEW w \in Worker, NEW d \in DRep, SkipDRep(w, d) PROVE FreshInv'
    <2>1. /\ UNCHANGED sources /\ power' = power /\ mixed' = mixed /\ list' = list
          /\ job[w].pc = "dreps" /\ job'[w].pc = "dreps"
          /\ \A u \in Worker \ {w} : job'[u] = job[u]
          /\ job'[w].base = job[w].base /\ job'[w].todo = job[w].todo \ {d}
      BY <1>7 DEF SkipDRep, db, StakeInv, TypeOK, Job
    <2> QED BY <2>1, LessAhead
  <1>8. ASSUME NEW w \in Worker, NEW d \in DRep, UpdateDRep(w, d) PROVE FreshInv'
    <2>1. /\ job[w].pc = "update" /\ d = job[w].drep /\ UNCHANGED sources /\ mixed' = mixed
          /\ list' = list /\ power' = [power EXCEPT ![d] = job[w].info]
          /\ \A u \in Worker \ {w} : job'[u] = job[u]
          /\ job'[w].pc = "dreps" /\ job'[w].todo = job[w].todo
          /\ job'[w].base = job[w].base
      BY <1>8 DEF UpdateDRep, StakeInv, TypeOK, Job
    <2>2. power'[d] = job[w].info /\ \A c \in DRep \ {d} : power'[c] = power[c]
      BY <2>1 DEF StakeInv, TypeOK
    <2>3. RunFresh(w)
      BY DEF FreshInv
    <2>4. RunFresh(w)'
      BY <2>1, <2>2, <2>3 DEF RunFresh, Lone, Ahead
    <2>5. \A u \in Worker \ {w} : RunFresh(u)'
      BY <2>1, OthersFresh
    <2>6. \A c \in DRep : power'[c] # None => Reached(power[c])'
      BY <2>1, <2>2, <2>3 DEF FreshInv, RunFresh, Reached, sources
    <2> QED BY <2>1, <2>4, <2>5, <2>6 DEF FreshInv, Reached, sources
  <1>9. ASSUME NEW w \in Worker, UpdateFails(w) \/ DRepsDone(w) PROVE FreshInv'
    <2>1. /\ UNCHANGED sources /\ power' = power /\ mixed' = mixed /\ list' = list
          /\ job[w].pc \in {"dreps", "update"}
          /\ \A u \in Worker \ {w} : job'[u] = job[u]
          /\ job'[w].pc \in {"dreps", "snapshot"}
          /\ job'[w].base = job[w].base /\ job'[w].todo = job[w].todo
      BY <1>9 DEF UpdateFails, DRepsDone, db, StakeInv, TypeOK, Job
    <2> QED BY <2>1, LessAhead
  <1>10. ASSUME NEW w \in Worker, NEW C \in SUBSET DRep, SaveSnapshots(w, C) PROVE FreshInv'
    <2>1. /\ UNCHANGED sources /\ power' = power /\ mixed' = mixed /\ list' = list
          /\ job[w].pc = "snapshot" /\ job'[w].pc = "snapshot"
          /\ \A u \in Worker \ {w} : job'[u] = job[u]
      BY <1>10 DEF SaveSnapshots, StakeInv, TypeOK, Job
    <2>2. RunFresh(w)'
      BY <2>1 DEF RunFresh, Lone, FreshInv
    <2> QED BY <2>1, <2>2, OthersFresh DEF FreshInv, Reached, sources
  <1>11. CASE UNCHANGED vars
    BY <1>11 DEF vars, sources, db, FreshInv, RunFresh, Lone, Ahead, Reached
  <1>13. ASSUME NEW l \in Lister, StartList(l) PROVE FreshInv'
    <2>1. /\ UNCHANGED sources /\ power' = power /\ job' = job
          /\ mixed' = mixed \cup {w \in Worker : job[w].pc # "idle"}
          /\ \A m \in Lister : list'[m].info = list[m].info
      BY <1>13 DEF StartList, listFrame, db, StakeInv, TypeOK, ListJob
    <2>2. \A w \in Worker : ~ Lone(w)'
      BY <2>1 DEF Lone
    <2> QED BY <2>1, <2>2 DEF FreshInv, RunFresh, Reached, sources
  <1>14. ASSUME NEW l \in Lister, ListStep(l) \/ ListFault(l), ~ StartList(l) PROVE FreshInv'
    BY <1>14, ListFresh
  <1> QED BY <1>1, <1>4, <1>5, <1>6, <1>7, <1>8, <1>9, <1>10, <1>11, <1>12, <1>13, <1>14
          DEF Next, RunStep, RunFault

\* A list sync that lowers a voting power stores an answer that a source has
\* left behind by then: the power came from a source.
LEMMA ListLowers ==
  ASSUME StakeInv, FreshInv, NEW l \in Lister, NEW d \in DRep, SaveDRep(l, d),
         power[d] # None, power'[d] # None, power'[d] < power[d]
  PROVE  /\ list[l].pc = "save" /\ list[l].drep = d
         /\ list[l].info < primary \/ list[l].info < fallback
  <1>1. power'[d] = list[l].info /\ list[l].pc = "save" /\ list[l].drep = d
    BY DEF SaveDRep, StakeInv, TypeOK
  <1>2. /\ power[d] \in Int /\ list[l].info \in Int /\ primary \in Int /\ fallback \in Int
        /\ list[l].info < power[d]
    BY <1>1, Epochs DEF Epoch
  <1>3. power[d] <= primary \/ power[d] <= fallback
    BY DEF FreshInv, Reached
  <1> QED BY <1>1, <1>2, <1>3

\* A stake sync that lowers a voting power is not lone, or holds an answer from
\* before its own epoch.
LEMMA RunLowers ==
  ASSUME StakeInv, FreshInv, NEW w \in Worker, NEW c \in DRep, UpdateDRep(w, c),
         NEW d \in DRep, power[d] # None, power'[d] < power[d], power'[d] # power[d]
  PROVE  /\ job[w].pc = "update" /\ job[w].drep = d
         /\ w \in mixed \/ job[w].info < job[w].base
  <1>1. /\ job[w].pc = "update" /\ c = job[w].drep /\ c = d /\ power'[d] = job[w].info
    BY DEF UpdateDRep, StakeInv, TypeOK
  <1>2. job[w].base \in Int /\ job[w].info \in Int /\ power[d] \in Int
    BY Epochs DEF Epoch
  <1>3. w \notin mixed => power[d] <= job[w].base
    BY <1>1 DEF FreshInv, RunFresh, Lone, Ahead
  <1> QED BY <1>1, <1>2, <1>3

\* A power that changes is changed by one of the two writers.
LEMMA PowerWriters ==
  ASSUME StakeInv, [Next]_vars, NEW d \in DRep, power'[d] # power[d]
  PROVE  \/ \E w \in Worker, c \in DRep : UpdateDRep(w, c)
         \/ \E l \in Lister : SaveDRep(l, d)
  <1>1. \A l \in Lister, c \in DRep : SaveDRep(l, c) => c = d
    BY DEF SaveDRep, StakeInv, TypeOK
  <1>2. ~ UNCHANGED vars /\ ~ EpochBegins /\ ~ PrimaryCatchesUp /\ ~ FallbackCatchesUp
    BY DEF vars, db, EpochBegins, PrimaryCatchesUp, FallbackCatchesUp
  <1>3. ASSUME NEW w \in Worker, RunStep(w) PROVE \E c \in DRep : UpdateDRep(w, c)
    BY <1>3 DEF RunStep, db, ProbePrimary, ProbeTip, Abort, DRepsDone, FinishSync, FetchPrimary,
                SaveSnapshots
  <1>4. ASSUME NEW w \in Worker PROVE ~ RunFault(w)
    BY DEF RunFault, db, TipUnknown, UpdateFails, RunFails, FetchFallback, SkipDRep
  <1>5. ASSUME NEW l \in Lister, ListStep(l) PROVE SaveDRep(l, d)
    BY <1>1, <1>5 DEF ListStep, db, StartList, ListEnds, AskInfo, AskMetadata
  <1>6. ASSUME NEW l \in Lister PROVE ~ ListFault(l)
    BY DEF ListFault, db, InfoFails, MetadataFails, SaveFails, ListFails
  <1> QED BY <1>2, <1>3, <1>4, <1>5, <1>6 DEF Next

\* What a step that lowers a voting power is.
LEMMA FreshStep ==
  ASSUME StakeInv, FreshInv, [Next]_vars, NEW d \in DRep,
         power[d] # None, power'[d] # None, power'[d] < power[d]
  PROVE  \/ \E w \in Worker : /\ job[w].pc = "update" /\ job[w].drep = d
                              /\ w \in mixed \/ job[w].info < job[w].base
         \/ \E l \in Lister : /\ list[l].pc = "save" /\ list[l].drep = d
                              /\ list[l].info < primary \/ list[l].info < fallback
  <1>1. power[d] \in Int
    BY Epochs DEF Epoch
  <1>2. power'[d] # power[d]
    BY <1>1
  <1>3. CASE \E w \in Worker, c \in DRep : UpdateDRep(w, c)
    BY <1>2, <1>3, RunLowers
  <1>4. CASE \E l \in Lister : SaveDRep(l, d)
    BY <1>4, ListLowers
  <1> QED BY <1>2, <1>3, <1>4, PowerWriters

\* A stake sync that overlaps with no other run, of the list sync either, has
\* compared its epoch with the fallback's and stores no answer from before that
\* epoch never lowers a voting power, whatever heights the sources are at and
\* however many runs crashed before; and the list sync lowers one only when its
\* answer is older than what a source serves when the row is saved.
THEOREM NeverOlder == Spec => PowerNeverOlder
  <1>1. StakeInv /\ FreshInv /\ [Next]_vars => FreshInv'
    BY FreshNext
  <1>2. StakeInv /\ FreshInv /\ [Next]_vars =>
          [\A d \in DRep : power[d] # None /\ power'[d] # None /\ power'[d] < power[d]
             => \/ \E w \in Worker : /\ job[w].pc = "update" /\ job[w].drep = d
                                     /\ w \in mixed \/ job[w].info < job[w].base
                \/ \E l \in Lister : /\ list[l].pc = "save" /\ list[l].drep = d
                                     /\ list[l].info < primary \/ list[l].info < fallback]_vars
    BY FreshStep
  <1> QED BY <1>1, <1>2, FreshInit, StakeInit, StakeNext, PTL DEF Spec, PowerNeverOlder
=============================================================================
