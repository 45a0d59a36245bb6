------------------------- MODULE DelegatorSync_proofs -------------------------
(***************************************************************************)
(* The safety of the delegator sync for any number of replicas, DReps,     *)
(* addresses, changes and faults, any size of a page and any heights of    *)
(* Blockfrost's two sources.                                               *)
(***************************************************************************)
EXTENDS DelegatorSync, TLAPS, FiniteSetTheorems

USE PageAssumption, AddrAssumption, BoundAssumption, NoneAssumption, FaultAssumption

\* How many come before a.
Rank(D, a) == Cardinality({b \in D : b < a})

(***************************************************************************)
(* Counting: a page with someone behind it is full.                        *)
(***************************************************************************)
LEMMA RankRises ==
  ASSUME NEW D \in SUBSET Nat, IsFiniteSet(D)
  PROVE  /\ \A a \in D : Rank(D, a) \in 0..(Cardinality(D) - 1)
         /\ \A a, b \in D : Rank(D, a) = Rank(D, b) => a = b
  <1> DEFINE Below(a) == {b \in D : b < a}
  <1>0. Cardinality(D) \in Nat /\ \A a \in D : a \in Nat
    BY FS_CardinalityType
  <1>1. \A a \in D : /\ Below(a) \in SUBSET (D \ {a})
                     /\ \A b \in D : a < b => Below(a) \in SUBSET (Below(b) \ {a}) /\ a \in Below(b)
    <2>1. \A a, b, x \in D : a < b /\ x < a => x < b
      BY <1>0
    <2>2. \A a \in D : ~ (a < a)
      BY <1>0
    <2> QED BY <2>1, <2>2, Zenon
  <1>2. \A a \in D : Rank(D, a) = Cardinality(Below(a))
    BY DEF Rank
  <1> HIDE DEF Below
  <1>3. \A a \in D : IsFiniteSet(Below(a)) /\ Rank(D, a) \in Nat /\ Rank(D, a) < Cardinality(D)
    <2> TAKE a \in D
    <2>1. IsFiniteSet(D \ {a}) /\ Cardinality(D \ {a}) = Cardinality(D) - 1
      BY FS_RemoveElement
    <2>2. IsFiniteSet(Below(a)) /\ Cardinality(Below(a)) <= Cardinality(D) - 1
      BY <1>1, <2>1, FS_Subset
    <2>3. Cardinality(Below(a)) \in Nat
      BY <2>2, FS_CardinalityType
    <2> QED BY <1>0, <1>2, <2>2, <2>3
  <1>4. \A a, b \in D : a < b => Rank(D, a) < Rank(D, b)
    <2> SUFFICES ASSUME NEW a \in D, NEW b \in D, a < b PROVE Rank(D, a) < Rank(D, b)
      OBVIOUS
    <2>1. IsFiniteSet(Below(b) \ {a}) /\ Cardinality(Below(b) \ {a}) = Cardinality(Below(b)) - 1
      BY <1>1, <1>3, FS_RemoveElement
    <2>2. Cardinality(Below(a)) <= Cardinality(Below(b)) - 1
      BY <1>1, <2>1, FS_Subset
    <2> QED BY <1>2, <1>3, <2>2
  <1>5. \A a \in D : Rank(D, a) \in 0..(Cardinality(D) - 1)
    BY <1>0, <1>3
  <1>6. ASSUME NEW a \in D, NEW b \in D, Rank(D, a) = Rank(D, b) PROVE a = b
    <2>1. ~ (a < b) /\ ~ (b < a)
      BY <1>3, <1>4, <1>6
    <2> QED BY <1>0, <2>1
  <1> QED BY <1>5, <1>6

LEMMA PageFull ==
  ASSUME NEW D \in SUBSET Nat, IsFiniteSet(D), NEW m \in Nat, NEW p \in Nat \ {0},
         NEW e \in D, Rank(D, e) >= m + p
  PROVE  Cardinality({a \in D : Rank(D, a) \in m..(m + p - 1)}) = p
  <1> DEFINE n == Cardinality(D)
             f == [a \in D |-> Rank(D, a)]
             W == {a \in D : Rank(D, a) \in m..(m + p - 1)}
             g == [a \in W |-> Rank(D, a)]
  <1>1. n \in Nat /\ Rank(D, e) \in 0..(n - 1)
    BY RankRises, FS_CardinalityType
  <1>2. f \in Injection(D, 0..(n - 1))
    BY RankRises DEF Injection, IsInjective
  <1>3. IsFiniteSet(0..(n - 1)) /\ Cardinality(0..(n - 1)) = n
    <2>1. 0 \in Int /\ n - 1 \in Int /\ (0 > n - 1 => n = 0)
      BY <1>1
    <2> HIDE DEF n
    <2>2. /\ IsFiniteSet(0..(n - 1))
          /\ Cardinality(0..(n - 1)) = IF 0 > n - 1 THEN 0 ELSE (n - 1) - 0 + 1
      BY <2>1, FS_Interval
    <2> QED BY <1>1, <2>1, <2>2
  <1>4. f \in Surjection(D, 0..(n - 1))
    BY <1>2, <1>3, FS_Injection
  <1>5. \A k \in m..(m + p - 1) : \E a \in W : Rank(D, a) = k
    <2> TAKE k \in m..(m + p - 1)
    <2>1. k \in 0..(n - 1)
      BY <1>1
    <2>2. PICK a \in D : f[a] = k
      BY <1>4, <2>1 DEF Surjection
    <2>3. Rank(D, a) = k /\ a \in W
      BY <2>2
    <2> QED BY <2>3
  <1>6. g \in Injection(W, m..(m + p - 1))
    BY RankRises DEF Injection, IsInjective
  <1>7. g \in Surjection(W, m..(m + p - 1))
    BY <1>5, <1>6 DEF Surjection, Injection
  <1>8. IsFiniteSet(m..(m + p - 1)) /\ Cardinality(m..(m + p - 1)) = p
    BY FS_Interval
  <1> HIDE DEF W, g
  <1>9. Cardinality(W) = p
    BY <1>6, <1>7, <1>8, FS_Injection
  <1> QED BY <1>9 DEF W

LEMMA DelegatorsFinite ==
  ASSUME NEW l, NEW d
  PROVE  /\ Delegators(l, d) \in SUBSET Nat /\ Delegators(l, d) \in SUBSET Addr
         /\ IsFiniteSet(Delegators(l, d))
  <1>1. Delegators(l, d) \in SUBSET Addr
    BY DEF Delegators
  <1> QED BY <1>1, FS_Subset

\* What a run has read when it asks for page p, and after it.
LEMMA PagesCover ==
  ASSUME NEW l, NEW d, NEW p \in Nat \ {0}
  PROVE  LET D == Delegators(l, d) IN
         /\ \A a \in D : Rank(D, a) < p * PageSize <=>
                           Rank(D, a) < (p - 1) * PageSize \/ a \in Page(l, d, p)
         /\ Page(l, d, p) \subseteq D
         /\ Cardinality(Page(l, d, p)) < PageSize => \A a \in D : Rank(D, a) < p * PageSize
  <1> DEFINE D == Delegators(l, d)
             m == (p - 1) * PageSize
  <1>1. D \in SUBSET Nat /\ IsFiniteSet(D)
    BY DelegatorsFinite
  <1>2. m \in Nat /\ p * PageSize = m + PageSize
    OBVIOUS
  <1>3. Page(l, d, p) = {a \in D : Rank(D, a) \in m..(m + PageSize - 1)}
    BY <1>2 DEF Page, Rank
  <1>4. \A a \in D : Rank(D, a) \in Nat
    BY <1>1, RankRises, FS_CardinalityType
  <1> HIDE DEF D, m
  <1>5. \A a \in D : Rank(D, a) < p * PageSize <=> Rank(D, a) < m \/ a \in Page(l, d, p)
    BY <1>2, <1>3, <1>4
  <1>6. Cardinality(Page(l, d, p)) < PageSize => \A a \in D : Rank(D, a) < p * PageSize
    BY <1>1, <1>2, <1>3, <1>4, PageFull
  <1> QED BY <1>3, <1>5, <1>6 DEF D, m

\* Nobody is listed before the first page.
LEMMA NoneBefore ==
  ASSUME NEW l, NEW d
  PROVE  \A a \in Delegators(l, d) : ~ (Rank(Delegators(l, d), a) < (1 - 1) * PageSize)
  <1>1. \A a \in Delegators(l, d) : Rank(Delegators(l, d), a) \in Nat
    BY DelegatorsFinite, RankRises, FS_CardinalityType
  <1>2. (1 - 1) * PageSize = 0
    OBVIOUS
  <1> QED BY <1>1, <1>2

-----------------------------------------------------------------------------
(***************************************************************************)
(* The invariant.                                                          *)
(***************************************************************************)
Working == {"page", "read", "write"}

\* Address a was a delegator of DRep d at some time in history h.
Was(h, d, a) == \E k \in 1..Len(h) : h[k][a].drep = d

\* What a run has heard of was once on chain ...
Heard(j, h) ==
  /\ j.pc \in Working => \A a \in Addr : j.new[a] # None => Was(h, j.drep, a)
  /\ j.pc = "write" => \A a \in Addr : j.old[a] # None => Was(h, j.drep, a)

\* ... and, while its list is not torn, the pages before the one it asks for
\* are those of the state the first page showed ...
Upto(l, d, b) ==
  [a \in Addr |-> IF a \in Delegators(l, d) /\ Rank(Delegators(l, d), a) < b
                  THEN l[a].amount ELSE None]

Listed(j, h) ==
  j.pc = "page" =>
    /\ j.page # 0
    /\ j.page = 1 => j.new = NoRows
    /\ j.page # 1 /\ ~ j.torn =>
         j.from \in 1..Len(h) /\ j.new = Upto(h[j.from], j.drep, (j.page - 1) * PageSize)

\* ... and so is the whole list.
Gathered(j, h) ==
  j.pc \in {"read", "write"} /\ ~ j.torn =>
    j.from \in 1..Len(h) /\ j.new = ColumnIn(h[j.from], j.drep)

RunOK(j, h) == Heard(j, h) /\ Listed(j, h) /\ Gathered(j, h)

\* A row is there because the address delegated to the DRep.
Known ==
  \A d \in DRep, a \in Addr : stored[d][a] # None => Was(past, d, a)

DelegatorInv == TypeOK /\ Known /\ UndelegationsReal /\ \A w \in Worker : RunOK(job[w], past)

-----------------------------------------------------------------------------
LEMMA IdleTyped ==
  ASSUME NEW pc \in {"idle", "drep"}, NEW T \in SUBSET DRep
  PROVE  /\ [Idle EXCEPT !.pc = pc, !.todo = T] \in Job
         /\ [Idle EXCEPT !.pc = pc, !.todo = T].pc = pc
         /\ Idle \in Job /\ Idle.pc = "idle"
         /\ NoRows \in Column
  BY DEF Idle, Job, Column, NoRows

\* A run that neither lists nor compares has nothing to show.
LEMMA Resting ==
  ASSUME NEW j, j.pc \notin Working, NEW h
  PROVE  RunOK(j, h)
  BY DEF RunOK, Heard, Listed, Gathered, Working

LEMMA InitDelegators == Init => DelegatorInv
  <1> SUFFICES ASSUME Init PROVE DelegatorInv
    OBVIOUS
  <1>1. Idle \in Job /\ Idle.pc = "idle" /\ NoRows \in Column
    BY IdleTyped
  <1>2. PICK l \in Ledger : past = <<l>>
    BY DEF Init
  <1>3. past \in Seq(Ledger) /\ Len(past) = 1
    BY <1>2
  <1>4. at \in [Source -> 1..Len(past)] /\ faults \in 0..MaxFaults
    BY <1>3 DEF Init
  <1>5. TypeOK
    BY <1>1, <1>3, <1>4 DEF Init, TypeOK
  <1>6. Known /\ UndelegationsReal
    BY DEF Init, Known, UndelegationsReal, NoRows
  <1>7. \A w \in Worker : RunOK(job[w], past)
    <2>1. \A w \in Worker : job[w].pc = "idle"
      BY <1>1 DEF Init
    <2> QED BY <2>1, Resting DEF Working
  <1> QED BY <1>5, <1>6, <1>7 DEF DelegatorInv

\* A step of one run that writes no rows keeps the invariant if its own record
\* is right.
LEMMA RunKept ==
  ASSUME DelegatorInv, UNCHANGED <<env, stored, timeline, doubtful>>,
         refused' \subseteq {"drep_timeline_event", "drep_delegators"},
         count' \in [DRep -> Nat],
         NEW w \in Worker, NEW j \in Job, job' = [job EXCEPT ![w] = j],
         j.pc \in Working => j.drep \in DRep,
         faults' \in 0..MaxFaults, RunOK(j, past)
  PROVE  DelegatorInv'
  <1>1. UNCHANGED <<past, at, pairUnique>>
    BY DEF env
  <1>2. job \in [Worker -> Job] /\ job'[w] = j /\ \A u \in Worker \ {w} : job'[u] = job[u]
    BY DEF DelegatorInv, TypeOK
  <1>3. TypeOK'
    <2>1. job' \in [Worker -> Job]
      BY <1>2
    <2>2. \A u \in Worker : job'[u].pc \in {"page", "read", "write"} => job'[u].drep \in DRep
      BY <1>2 DEF DelegatorInv, TypeOK, Working
    <2> QED BY <1>1, <2>1, <2>2 DEF DelegatorInv, TypeOK
  <1>4. Known' /\ UndelegationsReal'
    <2>1. Known'
      BY <1>1 DEF DelegatorInv, Known
    <2>2. UndelegationsReal'
      BY <1>1 DEF DelegatorInv, UndelegationsReal, Left
    <2> QED BY <2>1, <2>2
  <1>5. \A u \in Worker : RunOK(job'[u], past')
    BY <1>1, <1>2 DEF DelegatorInv
  <1> QED BY <1>3, <1>4, <1>5 DEF DelegatorInv

\* In particular when it ends, or goes on to the next DRep.
LEMMA RestKept ==
  ASSUME DelegatorInv, UNCHANGED <<env, stored, timeline, doubtful>>,
         refused' \subseteq {"drep_timeline_event", "drep_delegators"},
         count' \in [DRep -> Nat],
         NEW w \in Worker, NEW j \in Job, job' = [job EXCEPT ![w] = j],
         j.pc \notin Working, faults' \in 0..MaxFaults
  PROVE  DelegatorInv'
  BY Resting, RunKept

LEMMA JobTyped ==
  ASSUME DelegatorInv, NEW w \in Worker
  PROVE  /\ job[w] \in Job /\ job[w].todo \in SUBSET DRep
         /\ faults \in 0..MaxFaults /\ count \in [DRep -> Nat]
         /\ refused \subseteq {"drep_timeline_event", "drep_delegators"}
         /\ job[w].pc \in Working => job[w].drep \in DRep
         /\ RunOK(job[w], past)
  BY DEF DelegatorInv, TypeOK, Job, Working

\* Every source shows a state of the chain, and the newest state is one.
LEMMA States ==
  ASSUME DelegatorInv
  PROVE  /\ past \in Seq(Ledger) /\ Len(past) \in Nat
         /\ \A k \in 1..Len(past) : past[k] \in Ledger
         /\ \A s \in Source : at[s] \in 1..Len(past) /\ Shown(s) = past[at[s]]
         /\ Tip \in Ledger
  <1>1. past \in Seq(Ledger) /\ at \in [Source -> 1..Len(past)]
    BY DEF DelegatorInv, TypeOK
  <1>2. at["primary"] \in 1..Len(past)
    BY <1>1 DEF Source
  <1>3. Len(past) \in Nat /\ \A k \in 1..Len(past) : past[k] \in Ledger
    BY <1>1
  <1>4. Len(past) \in 1..Len(past)
    BY <1>2, <1>3
  <1> QED BY <1>1, <1>3, <1>4 DEF Shown, Tip

-----------------------------------------------------------------------------
(***************************************************************************)
(* Steps between two DReps.                                                *)
(***************************************************************************)
LEMMA StartKeeps ==
  ASSUME DelegatorInv, NEW w \in Worker, StartSync(w)
  PROVE  DelegatorInv'
  <1> DEFINE j == [job[w] EXCEPT !.pc = "drep", !.todo = DRep]
  <1>1. j \in Job /\ j.pc = "drep"
    BY JobTyped DEF Job
  <1>2. job' = [job EXCEPT ![w] = j] /\ UNCHANGED <<env, db, faults>>
    BY DEF StartSync
  <1> HIDE DEF j
  <1> QED BY <1>1, <1>2, JobTyped, RestKept DEF db, Working

LEMMA FailKeeps ==
  ASSUME DelegatorInv, NEW w \in Worker,
         FetchFails(w) \/ CommitFails(w) \/ RunFails(w) \/ FinishSync(w)
  PROVE  DelegatorInv'
  <1> DEFINE j == [Idle EXCEPT !.pc = "drep", !.todo = job[w].todo]
  <1>1. j \in Job /\ j.pc = "drep" /\ Idle \in Job /\ Idle.pc = "idle"
    BY JobTyped, IdleTyped
  <1>2. /\ UNCHANGED <<env, db>>
        /\ job' = [job EXCEPT ![w] = j] \/ job' = [job EXCEPT ![w] = Idle]
        /\ faults' = faults \/ (faults < MaxFaults /\ faults' = faults + 1)
    BY DEF FetchFails, CommitFails, RunFails, FinishSync
  <1>3. faults' \in 0..MaxFaults
    BY <1>2, JobTyped
  <1> HIDE DEF j
  <1> QED BY <1>1, <1>2, <1>3, JobTyped, RestKept DEF db, Working

LEMMA RefuseKeeps ==
  ASSUME DelegatorInv, NEW w \in Worker, RefuseDiff(w)
  PROVE  DelegatorInv'
  <1> DEFINE j == [Idle EXCEPT !.pc = "drep", !.todo = job[w].todo]
  <1>1. j \in Job /\ j.pc = "drep"
    BY JobTyped, IdleTyped
  <1>2. /\ job' = [job EXCEPT ![w] = j]
        /\ refused' = refused \cup Refusals(w)
        /\ UNCHANGED <<env, stored, timeline, count, doubtful, faults>>
    BY DEF RefuseDiff
  <1>3. refused' \subseteq {"drep_timeline_event", "drep_delegators"}
    BY <1>2, JobTyped DEF Refusals
  <1> HIDE DEF j
  <1> QED BY <1>1, <1>2, <1>3, JobTyped, RestKept DEF Working

\* A count is a number.
LEMMA TallyTyped ==
  ASSUME DelegatorInv, NEW d \in DRep
  PROVE  Tally(d) \in Nat
  <1>1. Rows(d) \in SUBSET Addr
    BY DEF Rows
  <1> QED BY <1>1, FS_Subset, FS_CardinalityType DEF Tally

LEMMA CountsKeep ==
  ASSUME DelegatorInv, NEW w \in Worker,
         \/ ReadCounts(w)
         \/ \E d \in DRep : UpdateCount(w, d) \/ CountFails(w, d)
  PROVE  DelegatorInv'
  <1>1. CASE ReadCounts(w)
    <2> DEFINE t == [d \in DRep |-> Tally(d)]
               j == [Idle EXCEPT !.pc = "count", !.tally = t]
    <2>1. t \in [DRep -> Nat]
      BY TallyTyped
    <2>2. job' = [job EXCEPT ![w] = j] /\ UNCHANGED <<env, db, faults>>
      BY <1>1 DEF ReadCounts
    <2> HIDE DEF t
    <2>3. j \in Job /\ j.pc = "count"
      BY <2>1, IdleTyped DEF Idle, Job
    <2> HIDE DEF j
    <2> QED BY <2>2, <2>3, JobTyped, RestKept DEF db, Working
  <1>2. ASSUME NEW d \in DRep, UpdateCount(w, d) \/ CountFails(w, d)
        PROVE  DelegatorInv'
    <2> DEFINE j == [job[w] EXCEPT !.tally[d] = 0]
    <2>1. job[w].pc = "count" /\ job[w].tally \in [DRep -> Nat]
      BY <1>2, JobTyped DEF UpdateCount, CountFails, Job
    <2>2. j \in Job /\ j.pc = "count"
      BY <2>1, JobTyped DEF Job
    <2>3. /\ job' = [job EXCEPT ![w] = j]
          /\ UNCHANGED <<env, stored, timeline, refused, doubtful>>
          /\ count' = count \/ count' = [count EXCEPT ![d] = job[w].tally[d]]
          /\ faults' = faults \/ (faults < MaxFaults /\ faults' = faults + 1)
      BY <1>2 DEF UpdateCount, CountFails, db
    <2>4. count' \in [DRep -> Nat] /\ faults' \in 0..MaxFaults
      BY <2>1, <2>3, JobTyped
    <2> HIDE DEF j
    <2> QED BY <2>2, <2>3, <2>4, JobTyped, RestKept DEF Working
  <1> QED BY <1>1, <1>2

-----------------------------------------------------------------------------
(***************************************************************************)
(* Steps within one DRep.                                                  *)
(***************************************************************************)
LEMMA NextKeeps ==
  ASSUME DelegatorInv, NEW w \in Worker, NEW d \in DRep, NextDRep(w, d)
  PROVE  DelegatorInv'
  <1> DEFINE j == [Idle EXCEPT !.pc = "page", !.drep = d, !.page = 1, !.todo = job[w].todo \ {d}]
  <1>1. job' = [job EXCEPT ![w] = j] /\ UNCHANGED <<env, db, faults>>
    BY DEF NextDRep
  <1>2. j \in Job /\ j.pc = "page" /\ j.drep = d /\ j.page = 1 /\ j.new = NoRows
    <2>1. Idle \in Job /\ Idle.new = NoRows
      BY IdleTyped DEF Idle
    <2>2. job[w].todo \ {d} \in SUBSET DRep
      BY JobTyped
    <2> QED BY <2>1, <2>2 DEF Job
  <1> HIDE DEF j
  <1>3. RunOK(j, past)
    BY <1>2 DEF RunOK, Heard, Listed, Gathered, NoRows, Working
  <1> QED BY <1>1, <1>2, <1>3, JobTyped, RunKept DEF db

\* What a page adds to the list of a run.
LEMMA PageAdds ==
  ASSUME DelegatorInv, NEW w \in Worker, NEW s \in Source, job[w].pc = "page",
         NEW k, k = Added(job[w], s)
  PROVE  /\ k \in Job /\ k.pc = "page" /\ k.drep = job[w].drep /\ k.page = job[w].page
         /\ k.drep \in DRep /\ k.page \in Nat \ {0}
         /\ \A a \in Addr : k.new[a] # None => Was(past, k.drep, a)
         /\ ~ k.torn =>
              /\ k.from \in 1..Len(past)
              /\ ColumnIn(Shown(s), k.drep) = ColumnIn(past[k.from], k.drep)
              /\ k.new = Upto(past[k.from], k.drep, k.page * PageSize)
  <1> SUFFICES ASSUME NEW j, j = job[w], NEW l, l = Shown(s),
                      NEW data, data = Page(l, j.drep, j.page)
               PROVE  /\ k \in Job /\ k.pc = "page" /\ k.drep = j.drep /\ k.page = j.page
                      /\ k.drep \in DRep /\ k.page \in Nat \ {0}
                      /\ \A a \in Addr : k.new[a] # None => Was(past, k.drep, a)
                      /\ ~ k.torn =>
                           /\ k.from \in 1..Len(past)
                           /\ ColumnIn(l, k.drep) = ColumnIn(past[k.from], k.drep)
                           /\ k.new = Upto(past[k.from], k.drep, k.page * PageSize)
    OBVIOUS
  <1>1. /\ j \in Job /\ j.pc = "page" /\ j.drep \in DRep /\ j.page \in Nat \ {0}
        /\ j.new \in Column /\ j.from \in Nat /\ RunOK(j, past)
    <2>1. j \in Job /\ j.drep \in DRep /\ RunOK(j, past)
      BY JobTyped DEF Working
    <2>2. j.page # 0
      BY <2>1 DEF RunOK, Listed
    <2> QED BY <2>1, <2>2 DEF Job
  <1>2. /\ at[s] \in 1..Len(past) /\ l = past[at[s]] /\ l \in Ledger
        /\ \A i \in 1..Len(past) : past[i] \in Ledger
    BY States
  <1>3. /\ data \subseteq Delegators(l, j.drep)
        /\ \A a \in Addr : l[a].amount \in Amount /\ (a \in data => l[a].drep = j.drep)
    <2>1. data \subseteq Delegators(l, j.drep)
      BY DEF Page
    <2> QED BY <1>2, <2>1 DEF Ledger, Delegators
  <1>4. /\ k \in Job /\ k.pc = "page" /\ k.drep = j.drep /\ k.page = j.page
        /\ k.new = [a \in Addr |-> IF a \in data THEN l[a].amount ELSE j.new[a]]
        /\ k.from = (IF j.page = 1 THEN at[s] ELSE j.from)
    <2> DEFINE new == [a \in Addr |-> IF a \in data THEN l[a].amount ELSE j.new[a]]
               from == IF j.page = 1 THEN at[s] ELSE j.from
               torn == j.torn \/ (j.page > 1 /\ ColumnIn(l, j.drep) # ColumnIn(past[j.from], j.drep))
               v == [j EXCEPT !.new = new, !.from = from, !.torn = torn]
    <2>1. new \in Column
      BY <1>1, <1>3 DEF Column
    <2>2. from \in Nat /\ torn \in BOOLEAN
      <3>1. at[s] \in Nat
        BY <1>2
      <3> QED BY <1>1, <3>1
    <2>3. k = v
      BY <1>1 DEF Added, Job
    <2> HIDE DEF new, from, torn
    <2>4. /\ v \in Job /\ v.pc = "page" /\ v.drep = j.drep /\ v.page = j.page
          /\ v.new = new /\ v.from = from
      BY <1>1, <2>1, <2>2 DEF Job
    <2> HIDE DEF v
    <2> QED BY <2>3, <2>4 DEF new, from
  <1>5. ~ k.torn =>
          ~ j.torn /\ (j.page > 1 => ColumnIn(l, j.drep) = ColumnIn(past[j.from], j.drep))
    BY <1>1 DEF Added, Job
  <1>6. \A a \in Addr : k.new[a] # None => Was(past, j.drep, a)
    <2> SUFFICES ASSUME NEW a \in Addr, k.new[a] # None PROVE Was(past, j.drep, a)
      OBVIOUS
    <2>1. CASE a \in data
      BY <1>2, <1>3, <2>1 DEF Was
    <2>2. CASE a \notin data
      <3>1. k.new[a] = j.new[a]
        BY <1>4, <2>2
      <3> QED BY <1>1, <3>1 DEF RunOK, Heard, Working
    <2> QED BY <2>1, <2>2
  <1>7. ASSUME ~ k.torn
        PROVE  /\ k.from \in 1..Len(past)
               /\ ColumnIn(l, k.drep) = ColumnIn(past[k.from], k.drep)
               /\ k.new = Upto(past[k.from], k.drep, k.page * PageSize)
    <2> SUFFICES ASSUME NEW d, d = j.drep, NEW f, f = past[k.from]
                 PROVE  /\ k.from \in 1..Len(past) /\ ColumnIn(l, d) = ColumnIn(f, d)
                        /\ k.new = Upto(f, d, j.page * PageSize)
      BY <1>4
    <2>1. /\ k.from \in 1..Len(past) /\ ColumnIn(l, d) = ColumnIn(f, d)
          /\ j.new = Upto(f, d, (j.page - 1) * PageSize)
      <3>1. CASE j.page = 1
        <4>1. k.from = at[s] /\ f = l /\ j.new = NoRows
          BY <1>1, <1>2, <1>4, <3>1 DEF RunOK, Listed
        <4>2. Upto(f, d, (1 - 1) * PageSize) = NoRows
          BY NoneBefore DEF Upto, NoRows
        <4> QED BY <1>2, <3>1, <4>1, <4>2
      <3>2. CASE j.page # 1
        <4>1. ~ j.torn /\ j.page > 1 /\ k.from = j.from
          BY <1>1, <1>4, <1>5, <1>7, <3>2
        <4>2. j.from \in 1..Len(past) /\ j.new = Upto(past[j.from], j.drep, (j.page - 1) * PageSize)
          BY <1>1, <3>2, <4>1 DEF RunOK, Listed
        <4> QED BY <1>5, <1>7, <4>1, <4>2
      <3> QED BY <3>1, <3>2
    <2>2. /\ Delegators(l, d) = Delegators(f, d)
          /\ \A a \in Delegators(l, d) : l[a].amount = f[a].amount
      <3>1. f \in Ledger /\ l \in Ledger
        BY <1>2, <2>1
      <3>2. \A a \in Addr : ColumnIn(l, d)[a] = ColumnIn(f, d)[a]
        BY <2>1
      <3>3. \A a \in Addr : /\ l[a].amount # None /\ f[a].amount # None
                            /\ ColumnIn(l, d)[a] = (IF l[a].drep = d THEN l[a].amount ELSE None)
                            /\ ColumnIn(f, d)[a] = (IF f[a].drep = d THEN f[a].amount ELSE None)
        BY <3>1 DEF Ledger, ColumnIn
      <3>4. \A a \in Addr : (l[a].drep = d <=> f[a].drep = d)
                            /\ (l[a].drep = d => l[a].amount = f[a].amount)
        BY <3>2, <3>3
      <3> QED BY <3>4 DEF Delegators
    <2>3. \A a \in Delegators(l, d) : Rank(Delegators(l, d), a) < j.page * PageSize <=>
             Rank(Delegators(l, d), a) < (j.page - 1) * PageSize \/ a \in data
      BY <1>1, PagesCover
    <2>4. \A a \in Addr : k.new[a] = Upto(f, d, j.page * PageSize)[a]
      <3> SUFFICES ASSUME NEW a \in Addr PROVE k.new[a] = Upto(f, d, j.page * PageSize)[a]
        OBVIOUS
      <3> SUFFICES ASSUME NEW D, D = Delegators(l, d)
                   PROVE  k.new[a] = Upto(f, d, j.page * PageSize)[a]
        OBVIOUS
      <3>1. k.new[a] = (IF a \in data THEN l[a].amount ELSE j.new[a])
        BY <1>4
      <3>2. j.new[a] = IF a \in D /\ Rank(D, a) < (j.page - 1) * PageSize THEN f[a].amount ELSE None
        BY <2>1, <2>2 DEF Upto
      <3>3. Upto(f, d, j.page * PageSize)[a]
              = IF a \in D /\ Rank(D, a) < j.page * PageSize THEN f[a].amount ELSE None
        BY <2>2 DEF Upto
      <3>4. a \in data => a \in D
        BY <1>3
      <3>5. a \in D => (Rank(D, a) < j.page * PageSize
                          <=> Rank(D, a) < (j.page - 1) * PageSize \/ a \in data)
        BY <2>3
      <3>6. a \in D => l[a].amount = f[a].amount
        BY <2>2
      <3> QED BY <3>1, <3>2, <3>3, <3>4, <3>5, <3>6, Zenon
    <2>5. k.new = Upto(f, d, j.page * PageSize)
      <3>1. k.new = [a \in Addr |-> k.new[a]]
        BY <1>4
      <3>2. Upto(f, d, j.page * PageSize) = [a \in Addr |-> Upto(f, d, j.page * PageSize)[a]]
        BY DEF Upto
      <3> QED BY <2>4, <3>1, <3>2
    <2> QED BY <2>1, <2>5
  <1> QED BY <1>1, <1>4, <1>6, <1>7

\* With the last page the list is complete.
LEMMA LastPage ==
  ASSUME DelegatorInv, NEW w \in Worker, NEW s \in Source, job[w].pc = "page",
         NEW k, k = Added(job[w], s), ~ k.torn,
         Cardinality(Page(Shown(s), job[w].drep, job[w].page)) < PageSize
  PROVE  k.new = ColumnIn(past[k.from], k.drep)
  <1> SUFFICES ASSUME NEW l, l = Shown(s), NEW f, f = past[k.from], NEW d, d = k.drep
               PROVE  k.new = ColumnIn(f, d)
    OBVIOUS
  <1>1. /\ k.drep = job[w].drep /\ k.page = job[w].page /\ k.page \in Nat \ {0}
        /\ k.from \in 1..Len(past) /\ ColumnIn(l, d) = ColumnIn(f, d)
        /\ k.new = Upto(f, d, k.page * PageSize)
    BY PageAdds
  <1>2. \A a \in Delegators(l, d) : Rank(Delegators(l, d), a) < k.page * PageSize
    BY <1>1, PagesCover
  <1>3. Delegators(l, d) = Delegators(f, d)
    <2>1. f \in Ledger /\ l \in Ledger
      BY <1>1, States
    <2>2. \A a \in Addr : ColumnIn(l, d)[a] = ColumnIn(f, d)[a]
      BY <1>1
    <2>3. \A a \in Addr : /\ l[a].amount # None /\ f[a].amount # None
                          /\ ColumnIn(l, d)[a] = (IF l[a].drep = d THEN l[a].amount ELSE None)
                          /\ ColumnIn(f, d)[a] = (IF f[a].drep = d THEN f[a].amount ELSE None)
      BY <2>1 DEF Ledger, ColumnIn
    <2>4. \A a \in Addr : l[a].drep = d <=> f[a].drep = d
      BY <2>2, <2>3
    <2> QED BY <2>4 DEF Delegators
  <1>4. \A a \in Addr : a \in Delegators(f, d) <=> f[a].drep = d
    BY DEF Delegators
  <1> QED BY <1>1, <1>2, <1>3, <1>4 DEF Upto, ColumnIn

LEMMA FetchKeeps ==
  ASSUME DelegatorInv, NEW w \in Worker, NEW s \in Source, FetchPage(w, s)
  PROVE  DelegatorInv'
  <1> DEFINE k == Added(job[w], s)
             full == Cardinality(Page(Shown(s), job[w].drep, job[w].page)) >= PageSize
             v == [k EXCEPT !.pc = IF full THEN "page" ELSE "read",
                            !.page = IF full THEN k.page + 1 ELSE k.page]
  <1>1. /\ job[w].pc = "page" /\ Answers(s) /\ UNCHANGED <<env, db>>
        /\ job' = [job EXCEPT ![w] = v]
    BY DEF FetchPage
  <1>2. /\ k \in Job /\ k.drep \in DRep /\ k.page \in Nat \ {0}
        /\ \A a \in Addr : k.new[a] # None => Was(past, k.drep, a)
        /\ ~ k.torn => /\ k.from \in 1..Len(past)
                       /\ k.new = Upto(past[k.from], k.drep, k.page * PageSize)
    BY <1>1, PageAdds
  <1>3. ~ full /\ ~ k.torn => k.new = ColumnIn(past[k.from], k.drep)
    <2> SUFFICES ASSUME ~ full, ~ k.torn PROVE k.new = ColumnIn(past[k.from], k.drep)
      OBVIOUS
    <2>1. Cardinality(Page(Shown(s), job[w].drep, job[w].page)) < PageSize
      <3>1. Page(Shown(s), job[w].drep, job[w].page) \in SUBSET Addr
        BY DEF Page, Delegators
      <3>2. Cardinality(Page(Shown(s), job[w].drep, job[w].page)) \in Nat
        BY <3>1, AddrAssumption, FS_Subset, FS_CardinalityType
      <3>3. PageSize \in Nat
        BY PageAssumption
      <3> HIDE DEF k
      <3> QED BY <3>2, <3>3
    <2> QED BY <1>1, <2>1, LastPage
  <1> HIDE DEF k, full
  <1>4. /\ v \in Job /\ v.drep = k.drep /\ v.torn = k.torn /\ v.new = k.new /\ v.from = k.from
        /\ full => v.pc = "page" /\ v.page = k.page + 1
        /\ ~ full => v.pc = "read"
    <2>1. CASE full
      <3>1. v = [k EXCEPT !.pc = "page", !.page = k.page + 1] /\ k.page + 1 \in Nat
        BY <1>2, <2>1
      <3> HIDE DEF v
      <3> QED BY <1>2, <2>1, <3>1 DEF Job
    <2>2. CASE ~ full
      <3>1. v = [k EXCEPT !.pc = "read", !.page = k.page]
        BY <2>2
      <3> HIDE DEF v
      <3> QED BY <1>2, <2>2, <3>1 DEF Job
    <2> QED BY <2>1, <2>2
  <1> HIDE DEF v
  <1>5. RunOK(v, past)
    <2>1. Heard(v, past)
      BY <1>2, <1>4 DEF Heard
    <2>2. Listed(v, past)
      <3>1. full => v.page - 1 = k.page /\ v.page # 0 /\ v.page # 1
        BY <1>2, <1>4
      <3> QED BY <1>2, <1>4, <3>1 DEF Listed
    <2>3. Gathered(v, past)
      BY <1>2, <1>3, <1>4 DEF Gathered
    <2> QED BY <2>1, <2>2, <2>3 DEF RunOK
  <1>6. faults' \in 0..MaxFaults
    BY <1>1, JobTyped DEF Answers
  <1> QED BY <1>1, <1>2, <1>4, <1>5, <1>6, JobTyped, RunKept DEF db

LEMMA ReadKeeps ==
  ASSUME DelegatorInv, NEW w \in Worker, ReadExisting(w)
  PROVE  DelegatorInv'
  <1> DEFINE j == job[w]
             k == [j EXCEPT !.pc = "write", !.old = stored[j.drep]]
  <1>1. j \in Job /\ j.pc = "read" /\ j.drep \in DRep /\ RunOK(j, past)
    BY JobTyped DEF ReadExisting, Working, Job
  <1>2. job' = [job EXCEPT ![w] = k] /\ UNCHANGED <<env, db, faults>>
    BY DEF ReadExisting
  <1>3. stored[j.drep] \in Column
    BY <1>1 DEF DelegatorInv, TypeOK
  <1>4. /\ k \in Job /\ k.drep = j.drep /\ k.torn = j.torn /\ k.new = j.new /\ k.from = j.from
        /\ k.pc = "write" /\ k.old = stored[j.drep]
    BY <1>1, <1>3 DEF Job
  <1> HIDE DEF k
  <1>5. \A a \in Addr : stored[j.drep][a] # None => Was(past, j.drep, a)
    BY <1>1 DEF DelegatorInv, Known
  <1>6. RunOK(k, past)
    <2>1. Heard(k, past)
      BY <1>1, <1>4, <1>5 DEF RunOK, Heard, Working
    <2>2. Listed(k, past) /\ Gathered(k, past)
      BY <1>1, <1>4 DEF RunOK, Listed, Gathered
    <2> QED BY <2>1, <2>2 DEF RunOK
  <1> QED BY <1>1, <1>2, <1>4, <1>6, JobTyped, RunKept DEF db

-----------------------------------------------------------------------------
\* An undelegation is recorded of an address that was with the DRep before the
\* state the list shows, and is not in that state; or else it is doubtful.
LEMMA CommitFounded ==
  ASSUME DelegatorInv, NEW j, j.pc = "write", j.drep \in DRep, RunOK(j, past),
         NEW a \in ToDelete(j), a \notin Unfounded(j)
  PROVE  a \in Left(j.drep)
  <1>1. /\ a \in Addr /\ j.old[a] # None /\ j.new[a] = None /\ ~ j.torn
        /\ \A k \in 1..Len(past) : k > j.from => past[k][a].drep # j.drep
    BY DEF ToDelete, Unfounded
  <1>2. PICK k \in 1..Len(past) : past[k][a].drep = j.drep
    BY <1>1 DEF RunOK, Heard, Was
  <1>3. j.from \in 1..Len(past) /\ j.new = ColumnIn(past[j.from], j.drep)
    BY <1>1 DEF RunOK, Gathered
  <1>4. past[j.from] \in Ledger /\ Len(past) \in Nat
    BY <1>3, States
  <1>5. past[j.from][a].drep # j.drep
    <2>1. past[j.from][a].amount # None
      BY <1>1, <1>4 DEF Ledger
    <2> QED BY <1>1, <1>3, <2>1 DEF ColumnIn
  <1>6. k < j.from
    BY <1>1, <1>2, <1>3, <1>4, <1>5
  <1> QED BY <1>1, <1>2, <1>3, <1>5, <1>6 DEF Left

LEMMA CommitKeeps ==
  ASSUME DelegatorInv, NEW w \in Worker, CommitDiff(w)
  PROVE  DelegatorInv'
  <1> DEFINE j == job[w]
             rows == [a \in Addr |-> IF a \in ToDelete(j) THEN None
                                     ELSE IF a \in ToInsert(j) \cup ToUpdate(j) THEN j.new[a]
                                     ELSE stored[j.drep][a]]
             gone == [a \in Addr |-> IF a \in ToDelete(j) THEN j.old[a] ELSE timeline[j.drep][a]]
             k == [Idle EXCEPT !.pc = "drep", !.todo = j.todo]
  <1>1. j \in Job /\ j.pc = "write" /\ j.drep \in DRep /\ RunOK(j, past)
        /\ j.new \in Column /\ j.old \in Column
    BY JobTyped DEF CommitDiff, Working, Job
  <1>2. /\ stored' = [stored EXCEPT ![j.drep] = rows]
        /\ timeline' = [timeline EXCEPT ![j.drep] = gone]
        /\ doubtful' = doubtful \cup ({j.drep} \X Unfounded(j))
        /\ job' = [job EXCEPT ![w] = k]
        /\ UNCHANGED <<env, count, refused, faults>>
    BY <1>1 DEF CommitDiff, DelegatorInv, TypeOK, Column
  <1>3. Unfounded(j) \subseteq Addr
    BY DEF Unfounded, ToDelete
  <1>4. rows \in Column /\ gone \in Column
    BY <1>1 DEF DelegatorInv, TypeOK, Column
  <1>5. \A a \in Addr : rows[a] # None => rows[a] = j.new[a] \/ rows[a] = stored[j.drep][a]
    OBVIOUS
  <1>6. \A a \in Addr : gone[a] # None => a \in ToDelete(j) \/ timeline[j.drep][a] # None
    OBVIOUS
  <1>7. k \in Job /\ k.pc = "drep"
    BY <1>1, JobTyped, IdleTyped
  <1> HIDE DEF rows, gone, k
  <1>8. /\ job \in [Worker -> Job] /\ job'[w] = k /\ \A u \in Worker \ {w} : job'[u] = job[u]
        /\ UNCHANGED <<past, at, pairUnique>>
    BY <1>2 DEF DelegatorInv, TypeOK, env
  <1>9. TypeOK'
    <2>1. stored' \in [DRep -> Column] /\ timeline' \in [DRep -> Column]
      BY <1>1, <1>2, <1>4 DEF DelegatorInv, TypeOK
    <2>2. job' \in [Worker -> Job]
      BY <1>2, <1>7, <1>8
    <2>3. \A u \in Worker : job'[u].pc \in {"page", "read", "write"} => job'[u].drep \in DRep
      BY <1>7, <1>8 DEF DelegatorInv, TypeOK
    <2>4. doubtful' \subseteq DRep \X Addr
      BY <1>1, <1>2, <1>3 DEF DelegatorInv, TypeOK
    <2> QED BY <1>2, <1>8, <2>1, <2>2, <2>3, <2>4 DEF DelegatorInv, TypeOK
  <1>10. Known'
    <2>1. \A a \in Addr : rows[a] # None => Was(past, j.drep, a)
      BY <1>1, <1>5 DEF DelegatorInv, Known, RunOK, Heard, Working
    <2>2. \A d \in DRep : stored'[d] = IF d = j.drep THEN rows ELSE stored[d]
      BY <1>1, <1>2 DEF DelegatorInv, TypeOK
    <2> QED BY <1>8, <2>1, <2>2 DEF DelegatorInv, Known
  <1>11. UndelegationsReal'
    <2>1. \A d \in DRep : timeline'[d] = IF d = j.drep THEN gone ELSE timeline[d]
      BY <1>1, <1>2 DEF DelegatorInv, TypeOK
    <2>2. \A d \in DRep : Left(d)' = Left(d)
      BY <1>8 DEF Left
    <2>3. \A d \in DRep, a \in Addr : <<d, a>> \notin doubtful' =>
            <<d, a>> \notin doubtful /\ (d = j.drep => a \notin Unfounded(j))
      BY <1>2
    <2>4. \A d \in DRep, a \in Addr : timeline[d][a] # None /\ <<d, a>> \notin doubtful => a \in Left(d)
      BY DEF DelegatorInv, UndelegationsReal
    <2>5. \A a \in Addr : gone[a] # None /\ <<j.drep, a>> \notin doubtful' => a \in Left(j.drep)
      BY <1>1, <1>6, <2>3, <2>4, CommitFounded
    <2>6. \A d \in DRep, a \in Addr :
            timeline'[d][a] # None /\ <<d, a>> \notin doubtful' => a \in Left(d)
      BY <2>1, <2>3, <2>4, <2>5
    <2> QED BY <2>2, <2>6 DEF UndelegationsReal
  <1>12. \A u \in Worker : RunOK(job'[u], past')
    <2>1. RunOK(k, past)
      BY <1>7, Resting DEF Working
    <2> QED BY <1>8, <2>1 DEF DelegatorInv
  <1> QED BY <1>9, <1>10, <1>11, <1>12 DEF DelegatorInv

-----------------------------------------------------------------------------
\* The chain moves on: what was on chain has still been on chain.
LEMMA ChainKeeps ==
  ASSUME DelegatorInv, NEW a \in Addr, NEW d \in DRep \cup {None}, NEW m \in Amount,
         ChainChange(a, d, m)
  PROVE  DelegatorInv'
  <1> DEFINE l == [Tip EXCEPT ![a] = [drep |-> d, amount |-> m]]
  <1>1. past' = Append(past, l) /\ UNCHANGED <<at, pairUnique, db, job, faults>>
    BY DEF ChainChange
  <1>2. l \in Ledger
    BY States DEF Ledger
  <1> HIDE DEF l
  <1>3. /\ past' \in Seq(Ledger) /\ Len(past) \in Nat /\ Len(past') = Len(past) + 1
        /\ \A k \in 1..Len(past) : k \in 1..Len(past') /\ past'[k] = past[k]
    BY <1>1, <1>2, States
  <1>4. UNCHANGED <<stored, timeline, count, refused, doubtful>>
    BY <1>1 DEF db
  <1>5. TypeOK'
    <2>1. at' \in [Source -> 1..Len(past')]
      BY <1>1, <1>3 DEF DelegatorInv, TypeOK
    <2> QED BY <1>1, <1>3, <1>4, <2>1 DEF DelegatorInv, TypeOK
  <1>6. \A e, b : Was(past, e, b) => Was(past', e, b)
    <2> SUFFICES ASSUME NEW e, NEW b, Was(past, e, b) PROVE Was(past', e, b)
      OBVIOUS
    <2>1. PICK k \in 1..Len(past) : past[k][b].drep = e
      BY DEF Was
    <2> QED BY <1>3, <2>1 DEF Was
  <1>7. Known'
    BY <1>4, <1>6 DEF DelegatorInv, Known
  <1>8. UndelegationsReal'
    <2>1. \A e \in DRep : \A b \in Left(e) : b \in Left(e)'
      <3> SUFFICES ASSUME NEW e \in DRep, NEW b \in Left(e) PROVE b \in Left(e)'
        OBVIOUS
      <3>1. PICK i, k \in 1..Len(past) : i < k /\ past[i][b].drep = e /\ past[k][b].drep # e
        BY DEF Left
      <3> QED BY <1>3, <3>1 DEF Left
    <2> QED BY <1>4, <2>1 DEF DelegatorInv, UndelegationsReal
  <1>9. ASSUME NEW w \in Worker PROVE RunOK(job'[w], past')
    <2>1. RunOK(job[w], past) /\ job'[w] = job[w]
      BY <1>1, JobTyped
    <2>2. Heard(job[w], past')
      BY <1>6, <2>1 DEF RunOK, Heard
    <2>3. Listed(job[w], past')
      BY <1>3, <2>1 DEF RunOK, Listed
    <2>4. Gathered(job[w], past')
      BY <1>3, <2>1 DEF RunOK, Gathered
    <2> QED BY <2>1, <2>2, <2>3, <2>4 DEF RunOK
  <1> QED BY <1>5, <1>7, <1>8, <1>9 DEF DelegatorInv

\* The sources and the schema do not concern what has been read and written.
LEMMA EnvKeeps ==
  ASSUME DelegatorInv, Migrate \/ \E s \in Source : SourceCatchesUp(s)
  PROVE  DelegatorInv'
  <1>1. /\ UNCHANGED <<past, db, job, faults>> /\ pairUnique' \in BOOLEAN
        /\ at' \in [Source -> 1..Len(past)]
    <2>1. CASE Migrate
      BY <2>1 DEF Migrate, DelegatorInv, TypeOK
    <2>2. ASSUME NEW s \in Source, SourceCatchesUp(s)
          PROVE  /\ UNCHANGED <<past, db, job, faults>> /\ pairUnique' \in BOOLEAN
                 /\ at' \in [Source -> 1..Len(past)]
      <3>1. /\ UNCHANGED <<past, db, job, faults, pairUnique>> /\ at[s] < Len(past)
            /\ at' = [at EXCEPT ![s] = @ + 1]
        BY <2>2 DEF SourceCatchesUp, CatchUp
      <3>2. at \in [Source -> 1..Len(past)] /\ pairUnique \in BOOLEAN /\ Len(past) \in Nat
        BY States DEF DelegatorInv, TypeOK
      <3>3. at' \in [Source -> 1..Len(past)]
        BY <3>1, <3>2
      <3> QED BY <3>1, <3>2, <3>3
    <2> QED BY <2>1, <2>2
  <1>2. UNCHANGED <<stored, timeline, count, refused, doubtful>>
    BY <1>1 DEF db
  <1>3. TypeOK'
    BY <1>1, <1>2 DEF DelegatorInv, TypeOK
  <1>4. Known' /\ UndelegationsReal' /\ \A w \in Worker : RunOK(job'[w], past')
    BY <1>1, <1>2 DEF DelegatorInv, Known, UndelegationsReal, Left
  <1> QED BY <1>3, <1>4 DEF DelegatorInv

-----------------------------------------------------------------------------
LEMMA DelegatorStep == DelegatorInv /\ [Next]_vars => DelegatorInv'
  <1> SUFFICES ASSUME DelegatorInv, [Next]_vars PROVE DelegatorInv'
    OBVIOUS
  <1>1. CASE \E a \in Addr, d \in DRep \cup {None}, m \in Amount : ChainChange(a, d, m)
    BY <1>1, ChainKeeps
  <1>1a. CASE Migrate \/ \E s \in Source : SourceCatchesUp(s)
    BY <1>1a, EnvKeeps
  <1>2. ASSUME NEW w \in Worker, RunStep(w) PROVE DelegatorInv'
    BY <1>2, StartKeeps, FetchKeeps, ReadKeeps, CommitKeeps, RefuseKeeps, CountsKeep,
       FailKeeps, NextKeeps DEF RunStep
  <1>3. ASSUME NEW w \in Worker, RunFault(w) PROVE DelegatorInv'
    BY <1>3, CountsKeep, FailKeeps DEF RunFault
  <1>4. CASE UNCHANGED vars
    <2>1. UNCHANGED <<past, at, pairUnique, stored, timeline, count, refused, doubtful, job, faults>>
      BY <1>4 DEF vars, env, db
    <2>2. TypeOK'
      BY <2>1 DEF DelegatorInv, TypeOK
    <2>3. Known' /\ UndelegationsReal' /\ \A w \in Worker : RunOK(job'[w], past')
      BY <2>1 DEF DelegatorInv, Known, UndelegationsReal, Left
    <2> QED BY <2>2, <2>3 DEF DelegatorInv
  <1> QED BY <1>1, <1>1a, <1>2, <1>3, <1>4 DEF Next

LEMMA DelegatorSafe == Spec => []DelegatorInv
  BY InitDelegators, DelegatorStep, PTL DEF Spec

\* The state of the delegator sync is always of its type.
THEOREM DelegatorTypes == Spec => []TypeOK
  <1>1. DelegatorInv => TypeOK
    BY DEF DelegatorInv
  <1> QED BY <1>1, DelegatorSafe, PTL

\* An undelegation is recorded only for an address that had been with the DRep
\* and was not any more, whatever pages fail, sources lag and runs overlap,
\* unless the list was torn or the address came after the state it shows.
THEOREM NoFalseUndelegation == Spec => []UndelegationsReal
  <1>1. DelegatorInv => UndelegationsReal
    BY DEF DelegatorInv
  <1> QED BY <1>1, DelegatorSafe, PTL

\* Only its own page moves a run from listing to reading.
LEMMA PageStep ==
  ASSUME DelegatorInv, Next, NEW w \in Worker, job[w].pc = "page", job'[w].pc = "read"
  PROVE  \E s \in Source : FetchPage(w, s)
  <1>0. job \in [Worker -> Job]
    BY DEF DelegatorInv, TypeOK
  <1>1. \A u \in Worker : RunStep(u) \/ RunFault(u) => u = w
    <2> SUFFICES ASSUME NEW u \in Worker, RunStep(u) \/ RunFault(u), u # w
                 PROVE  job'[w].pc = job[w].pc
      OBVIOUS
    <2>1. CASE CommitDiff(u)
      BY <1>0, <2>1 DEF CommitDiff
    <2>2. CASE StartSync(u) \/ ReadExisting(u) \/ RefuseDiff(u) \/ ReadCounts(u)
               \/ \E s \in Source : FetchPage(u, s)
      BY <1>0, <2>2 DEF StartSync, FetchPage, ReadExisting, RefuseDiff, ReadCounts
    <2>3. CASE FinishSync(u) \/ FetchFails(u) \/ CommitFails(u) \/ RunFails(u)
      BY <1>0, <2>3 DEF FinishSync, FetchFails, CommitFails, RunFails
    <2>4. CASE \E d \in DRep : NextDRep(u, d) \/ UpdateCount(u, d) \/ CountFails(u, d)
      BY <1>0, <2>4 DEF NextDRep, UpdateCount, CountFails
    <2> QED BY <2>1, <2>2, <2>3, <2>4 DEF RunStep, RunFault
  <1>2. job' # job
    OBVIOUS
  <1>3. RunStep(w) \/ RunFault(w)
    BY <1>1, <1>2 DEF Next, ChainChange, Migrate, SourceCatchesUp
  <1>4. Idle.pc = "idle" /\ \A T : [Idle EXCEPT !.pc = "drep", !.todo = T].pc = "drep"
    BY DEF Idle
  <1>5. ~ (FetchFails(w) \/ RunFails(w))
    BY <1>0, <1>4 DEF FetchFails, RunFails
  <1> QED BY <1>3, <1>5 DEF RunStep, RunFault, StartSync, ReadExisting, CommitDiff, RefuseDiff,
             ReadCounts, FinishSync, NextDRep, UpdateCount, CommitFails, CountFails

\* Whatever the size of a page, and whichever source answers each, a list that
\* is not torn is the list of the state its first page shows.
THEOREM ListsAreWhole == Spec => PagesAddUp
  <1>1. ASSUME DelegatorInv, [Next]_vars
        PROVE  [\A w \in Worker : job[w].pc = "page" /\ job'[w].pc = "read" /\ ~ job'[w].torn
                  => job'[w].new = ColumnIn(past[job'[w].from], job[w].drep)]_vars
    <2> SUFFICES ASSUME Next, NEW w \in Worker, job[w].pc = "page", job'[w].pc = "read",
                        ~ job'[w].torn
                 PROVE  job'[w].new = ColumnIn(past[job'[w].from], job[w].drep)
      BY <1>1
    <2>1. PICK s \in Source : FetchPage(w, s)
      BY <1>1, PageStep
    <2>2. DelegatorInv' /\ job' \in [Worker -> Job]
      BY <1>1, DelegatorStep DEF DelegatorInv, TypeOK
    <2>3. RunOK(job'[w], past')
      BY <2>2 DEF DelegatorInv
    <2>4. past' = past /\ job'[w].drep = job[w].drep
      <3>1. past' = past
        BY <2>1 DEF FetchPage, env
      <3>2. Added(job[w], s) \in Job /\ Added(job[w], s).drep = job[w].drep
        BY <1>1, PageAdds
      <3>3. job'[w].drep = Added(job[w], s).drep
        BY <1>1, <2>1, <3>2 DEF FetchPage, DelegatorInv, TypeOK, Job
      <3> QED BY <3>1, <3>2, <3>3
    <2> QED BY <2>3, <2>4 DEF RunOK, Gathered
  <1> QED BY <1>1, DelegatorSafe, PTL DEF Spec, PagesAddUp

\* A delegator's row goes only together with a recorded undelegation.
THEOREM RemovalsRecorded == Spec => RemovalRecorded
  <1>1. ASSUME DelegatorInv, [Next]_vars
        PROVE  [\A d \in DRep, a \in Addr :
                  stored[d][a] # None /\ stored'[d][a] = None => timeline'[d][a] # None]_vars
    <2> SUFFICES ASSUME Next, NEW d \in DRep, NEW a \in Addr,
                        stored[d][a] # None, stored'[d][a] = None
                 PROVE  timeline'[d][a] # None
      BY <1>1
    <2>1. PICK w \in Worker : CommitDiff(w)
      BY DEF Next, RunStep, RunFault, ChainChange, Migrate, SourceCatchesUp, StartSync, FetchPage, ReadExisting, RefuseDiff,
             ReadCounts, FinishSync, NextDRep, UpdateCount, FetchFails, CommitFails, RunFails,
             CountFails, db
    <2>2. job[w].drep \in DRep
      BY <1>1, <2>1, JobTyped DEF CommitDiff, Working
    <2>3. d = job[w].drep /\ a \in ToDelete(job[w])
      BY <1>1, <2>1, <2>2 DEF CommitDiff, DelegatorInv, TypeOK, ToInsert, ToUpdate
    <2> QED BY <1>1, <2>1, <2>2, <2>3 DEF CommitDiff, DelegatorInv, TypeOK, ToDelete
  <1> QED BY <1>1, DelegatorSafe, PTL DEF Spec, RemovalRecorded
=============================================================================
