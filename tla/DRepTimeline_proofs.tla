------------------------- MODULE DRepTimeline_proofs -------------------------
(***************************************************************************)
(* The safety of the timeline for any number of replicas, epochs, slots,   *)
(* events and steps, and any size of a page.                               *)
(***************************************************************************)
EXTENDS DRepTimeline, TLAPS, FiniteSetTheorems

(***************************************************************************)
(* Sorting.  The merge lists a set of epochs from the newest on by counting *)
(* how many are newer.                                                     *)
(***************************************************************************)
Newer(S, n) == {m \in S : m > n}

Sorted(S) == [k \in 1..Cardinality(S) |-> CHOOSE n \in S : Cardinality(Newer(S, n)) = k - 1]

On(list) == {list[k] : k \in 1..Len(list)}

LEMMA SeqWiden ==
  ASSUME NEW S, NEW T, S \subseteq T, NEW q \in Seq(S)
  PROVE  q \in Seq(T)
  <1>1. Len(q) \in Nat /\ q \in [1..Len(q) -> S]
    OBVIOUS
  <1>2. q \in [1..Len(q) -> T]
    BY <1>1
  <1> QED BY <1>1, <1>2

\* The fewer are newer, the newer it is.
LEMMA NewerCounts ==
  ASSUME NEW S \in SUBSET Int, IsFiniteSet(S)
  PROVE  /\ \A n \in S : Cardinality(Newer(S, n)) \in 0..(Cardinality(S) - 1)
         /\ \A m, n \in S : Cardinality(Newer(S, m)) = Cardinality(Newer(S, n)) => m = n
  <1>1. /\ Cardinality(S) \in Nat
        /\ \A n \in S : /\ n \in Int
                        /\ Newer(S, n) \in SUBSET (S \ {n})
                        /\ \A m \in S : n < m => /\ m \in Newer(S, n)
                                                 /\ Newer(S, m) \in SUBSET (Newer(S, n) \ {m})
    <2>1. \A n, m, x \in S : n < m /\ m < x => n < x
      OBVIOUS
    <2>2. \A n \in S : ~ (n < n)
      OBVIOUS
    <2> QED BY <2>1, <2>2, FS_CardinalityType DEF Newer
  <1>2. \A n \in S : /\ IsFiniteSet(Newer(S, n)) /\ Cardinality(Newer(S, n)) \in Nat
                     /\ Cardinality(Newer(S, n)) < Cardinality(S)
    <2> TAKE n \in S
    <2>1. IsFiniteSet(S \ {n}) /\ Cardinality(S \ {n}) = Cardinality(S) - 1
      BY FS_RemoveElement
    <2>2. IsFiniteSet(Newer(S, n)) /\ Cardinality(Newer(S, n)) <= Cardinality(S) - 1
      BY <1>1, <2>1, FS_Subset
    <2>3. Cardinality(Newer(S, n)) \in Nat
      BY <2>2, FS_CardinalityType
    <2> QED BY <1>1, <2>2, <2>3
  <1>3. ASSUME NEW m \in S, NEW n \in S, n < m
        PROVE  Cardinality(Newer(S, m)) < Cardinality(Newer(S, n))
    <2>1. /\ IsFiniteSet(Newer(S, n) \ {m})
          /\ Cardinality(Newer(S, n) \ {m}) = Cardinality(Newer(S, n)) - 1
      BY <1>1, <1>2, <1>3, FS_RemoveElement
    <2>2. Cardinality(Newer(S, m)) <= Cardinality(Newer(S, n)) - 1
      BY <1>1, <1>3, <2>1, FS_Subset
    <2> QED BY <1>2, <2>2
  <1>4. ASSUME NEW m \in S, NEW n \in S, Cardinality(Newer(S, m)) = Cardinality(Newer(S, n))
        PROVE  m = n
    <2>1. ~ (n < m) /\ ~ (m < n)
      BY <1>2, <1>3, <1>4
    <2> QED BY <1>1, <2>1
  <1>5. \A n \in S : Cardinality(Newer(S, n)) \in 0..(Cardinality(S) - 1)
    BY <1>1, <1>2
  <1> QED BY <1>4, <1>5

\* Every place of the sorted list is taken, and it lists exactly the set.
LEMMA SortedLists ==
  ASSUME NEW S \in SUBSET Int, IsFiniteSet(S)
  PROVE  /\ Sorted(S) \in Seq(S)
         /\ Len(Sorted(S)) = Cardinality(S)
         /\ On(Sorted(S)) = S
         /\ \A k \in 1..Cardinality(S) : /\ Sorted(S)[k] \in S
                                         /\ Cardinality(Newer(S, Sorted(S)[k])) = k - 1
  <1> DEFINE c == Cardinality(S)
             f == [n \in S |-> Cardinality(Newer(S, n))]
  <1>1. c \in Nat
    BY FS_CardinalityType
  <1>2. \A n \in S : Cardinality(Newer(S, n)) \in 0..(c - 1)
    BY NewerCounts
  <1>3. f \in Injection(S, 0..(c - 1))
    BY <1>2, NewerCounts DEF Injection, IsInjective
  <1>4. IsFiniteSet(0..(c - 1)) /\ Cardinality(0..(c - 1)) = c
    <2>1. 0 \in Int /\ c - 1 \in Int /\ (0 > c - 1 => c = 0)
      BY <1>1
    <2> HIDE DEF c
    <2>2. /\ IsFiniteSet(0..(c - 1))
          /\ Cardinality(0..(c - 1)) = IF 0 > c - 1 THEN 0 ELSE (c - 1) - 0 + 1
      BY <2>1, FS_Interval
    <2> QED BY <1>1, <2>1, <2>2
  <1>5. f \in Surjection(S, 0..(c - 1))
    BY <1>3, <1>4, FS_Injection
  <1> HIDE DEF c
  <1>6. \A k \in 1..c : \E n \in S : Cardinality(Newer(S, n)) = k - 1
    <2> TAKE k \in 1..c
    <2>1. k - 1 \in 0..(c - 1)
      BY <1>1
    <2>2. PICK n \in S : f[n] = k - 1
      BY <1>5, <2>1 DEF Surjection
    <2> QED BY <2>2
  <1>7. Sorted(S) = [k \in 1..c |-> CHOOSE n \in S : Cardinality(Newer(S, n)) = k - 1]
    BY DEF Sorted, c
  <1>8. \A k \in 1..c : Sorted(S)[k] \in S /\ Cardinality(Newer(S, Sorted(S)[k])) = k - 1
    <2> TAKE k \in 1..c
    <2>1. Sorted(S)[k] = CHOOSE n \in S : Cardinality(Newer(S, n)) = k - 1
      BY <1>7
    <2> QED BY <1>6, <2>1
  <1>9. Sorted(S) \in Seq(S) /\ Len(Sorted(S)) = c
    <2>1. Sorted(S) \in [1..c -> S]
      BY <1>7, <1>8
    <2> HIDE DEF Sorted
    <2> QED BY <1>1, <2>1
  <1>10. ASSUME NEW n \in S PROVE n \in On(Sorted(S))
    <2> DEFINE k == Cardinality(Newer(S, n)) + 1
    <2>1. k \in 1..c /\ k - 1 = Cardinality(Newer(S, n))
      BY <1>1, <1>2
    <2> HIDE DEF k
    <2>2. Sorted(S)[k] = n
      BY <1>8, <2>1, NewerCounts
    <2> QED BY <1>9, <2>1, <2>2 DEF On
  <1>11. On(Sorted(S)) \subseteq S
    BY <1>8, <1>9 DEF On
  <1> QED BY <1>8, <1>9, <1>10, <1>11 DEF c

LEMMA Greatests ==
  ASSUME NEW S \in SUBSET Int, IsFiniteSet(S), S # {}
  PROVE  \E n \in S : \A m \in S : m <= n
  <1> DEFINE n == Sorted(S)[1]
  <1>1. Cardinality(S) \in Nat /\ Cardinality(S) # 0
    BY FS_CardinalityType, FS_EmptySet
  <1>2. n \in S /\ Cardinality(Newer(S, n)) = 0
    <2>1. 1 \in 1..Cardinality(S) /\ 1 - 1 = 0
      BY <1>1
    <2> QED BY <2>1, SortedLists
  <1>3. Newer(S, n) \in SUBSET S
    BY DEF Newer
  <1> HIDE DEF n
  <1>4. Newer(S, n) = {}
    BY <1>2, <1>3, FS_Subset, FS_EmptySet
  <1>5. \A m \in S : ~ (m > n)
    BY <1>4 DEF Newer
  <1> QED BY <1>2, <1>5

Down(lo, hi) == [k \in 1..(hi - lo + 1) |-> hi + 1 - k]
Up(lo, hi)   == [k \in 1..(hi - lo + 1) |-> lo + k - 1]

\* Both run through the interval, and the first is what an interval is sorted to.
LEMMA Runs ==
  ASSUME NEW lo \in Int, NEW hi \in Int, lo <= hi
  PROVE  /\ \A s \in {Down(lo, hi), Up(lo, hi)} :
              s \in Seq(lo..hi) /\ Len(s) = hi - lo + 1 /\ On(s) = lo..hi /\ s # <<>>
         /\ Sorted(lo..hi) = Down(lo, hi)
  <1> DEFINE n == hi - lo + 1
  <1>1. n \in Nat \ {0}
    OBVIOUS
  <1>2. ASSUME NEW s \in {Down(lo, hi), Up(lo, hi)}
        PROVE  s \in Seq(lo..hi) /\ Len(s) = n /\ On(s) = lo..hi /\ s # <<>>
    <2>1. s \in [1..n -> lo..hi]
      BY <1>2 DEF Down, Up
    <2>2. s \in Seq(lo..hi) /\ Len(s) = n
      <3> HIDE DEF n
      <3> QED BY <1>1, <2>1
    <2>3. ASSUME NEW e \in lo..hi PROVE \E k \in 1..n : s[k] = e
      <3>1. CASE s = Down(lo, hi)
        <4>1. hi + 1 - e \in 1..n /\ s[hi + 1 - e] = e
          BY <3>1 DEF Down
        <4> QED BY <4>1
      <3>2. CASE s = Up(lo, hi)
        <4>1. e - lo + 1 \in 1..n /\ s[e - lo + 1] = e
          BY <3>2 DEF Up
        <4> QED BY <4>1
      <3> QED BY <3>1, <3>2
    <2>4. On(s) = lo..hi
      BY <2>1, <2>2, <2>3 DEF On
    <2> QED BY <1>1, <2>2, <2>4
  <1>3. IsFiniteSet(lo..hi) /\ Cardinality(lo..hi) = n
    BY FS_Interval
  <1>4. ASSUME NEW k \in 1..n
        PROVE  (CHOOSE e \in lo..hi : Cardinality(Newer(lo..hi, e)) = k - 1) = hi + 1 - k
    <2>1. \A e \in lo..hi : Newer(lo..hi, e) = (e + 1)..hi
      BY DEF Newer
    <2>2. \A e \in lo..hi : Cardinality(Newer(lo..hi, e)) = hi - e
      <3> TAKE e \in lo..hi
      <3>1. Cardinality((e + 1)..hi) = hi - e
        <4>1. Cardinality((e + 1)..hi) = IF e + 1 > hi THEN 0 ELSE hi - (e + 1) + 1
          BY FS_Interval
        <4> QED BY <4>1
      <3> QED BY <2>1, <3>1
    <2>3. hi + 1 - k \in lo..hi /\ hi - (hi + 1 - k) = k - 1
      OBVIOUS
    <2>4. \A e \in lo..hi : hi - e = k - 1 => e = hi + 1 - k
      OBVIOUS
    <2> QED BY <2>2, <2>3, <2>4
  <1>5. Sorted(lo..hi) = Down(lo, hi)
    BY <1>3, <1>4 DEF Sorted, Down
  <1> QED BY <1>2, <1>5

(***************************************************************************)
(* The page.                                                               *)
(***************************************************************************)
\* A page that reaches down to its cursor, or the first page, ends at it; one
\* that reaches up begins at it, and passes the current epoch only when it
\* begins beyond it.
Ends(c, d, now) ==
  LET F == FirstOf(c, d, now)
      L == LastOf(c, d, now)
  IN  /\ F \in Nat /\ L \in Nat /\ F <= L /\ L < F + PageSize
      /\ c = NoEpoch => L = now /\ F = Greatest(0, now - (PageSize - 1))
      /\ c # NoEpoch /\ d = "older" /\ c <= now => L = c
      /\ c # NoEpoch /\ d = "newer" => F = c /\ (c <= now => L <= now)

LEMMA PageEnds ==
  ASSUME NEW c, c = NoEpoch \/ c \in Nat, NEW d \in {"older", "newer"}, NEW now \in Nat
  PROVE  Ends(c, d, now)
  <1>1. PageSize \in Nat \ {0}
    BY PageAssumption
  <1>2. CASE c = NoEpoch
    BY <1>1, <1>2 DEF Ends, FirstOf, LastOf, Least, Greatest
  <1>3. CASE c # NoEpoch /\ d = "older"
    BY <1>1, <1>3 DEF Ends, FirstOf, LastOf, Least, Greatest
  <1>4. CASE c # NoEpoch /\ d = "newer"
    BY <1>1, <1>4 DEF Ends, FirstOf, LastOf, Least, Greatest
  <1> QED BY <1>2, <1>3, <1>4

\* The page lists its epochs, each once.
LEMMA PageListed ==
  ASSUME NEW c, c = NoEpoch \/ c \in Nat, NEW d \in {"older", "newer"}, NEW now \in Nat
  PROVE  LET F == FirstOf(c, d, now)
             L == LastOf(c, d, now)
         IN  /\ Listed(c, d, now) = IF d = "newer" THEN Up(F, L) ELSE Down(F, L)
             /\ EpochsOf(c, d, now) = F..L
             /\ Listed(c, d, now) \in Seq(F..L)
             /\ Listed(c, d, now) # <<>>
             /\ On(Listed(c, d, now)) = F..L
  <1> DEFINE F == FirstOf(c, d, now)
             L == LastOf(c, d, now)
  <1>1. F \in Nat /\ L \in Nat /\ F <= L
    BY PageEnds DEF Ends
  <1>2. EpochsOf(c, d, now) = F..L
    BY DEF EpochsOf
  <1>3. Listed(c, d, now) =
          [k \in 1..Cardinality(F..L) |-> IF d = "newer" THEN F + k - 1 ELSE L + 1 - k]
    BY <1>2 DEF Listed
  <1> HIDE DEF F, L
  <1>4. Cardinality(F..L) = L - F + 1
    BY <1>1, FS_Interval
  <1>5. Listed(c, d, now) = IF d = "newer" THEN Up(F, L) ELSE Down(F, L)
    BY <1>3, <1>4 DEF Up, Down
  <1>6. /\ Listed(c, d, now) \in Seq(F..L) /\ Listed(c, d, now) # <<>>
        /\ On(Listed(c, d, now)) = F..L
    <2>1. Listed(c, d, now) \in {Down(F, L), Up(F, L)}
      BY <1>5
    <2> QED BY <1>1, <2>1, Runs
  <1> QED BY <1>2, <1>5, <1>6 DEF F, L

Merged(s, list) == IF s = <<>> THEN list ELSE Sorted(On(s) \cup On(list))

\* What is on the screen after a merge: all that was, and the page.
LEMMA MergeAdds ==
  ASSUME NEW s \in Seq(Nat), NEW list \in Seq(Nat), list # <<>>
  PROVE  /\ On(Merged(s, list)) = On(s) \cup On(list)
         /\ Merged(s, list) \in Seq(On(s) \cup On(list))
         /\ Merged(s, list) # <<>>
  <1> DEFINE U == On(s) \cup On(list)
  <1>1. /\ On(list) \in SUBSET U /\ On(list) # {} /\ U \in SUBSET Int
        /\ IsFiniteSet(On(s)) /\ IsFiniteSet(On(list))
    <2>1. ASSUME NEW q \in Seq(Nat) PROVE On(q) \in SUBSET Int /\ IsFiniteSet(On(q))
      <3> DEFINE n == Len(q)
                 g == [k \in 1..n |-> q[k]]
      <3>1. n \in Nat /\ \A k \in 1..n : q[k] \in Nat
        OBVIOUS
      <3>2. IsFiniteSet(1..n)
        BY <3>1, FS_Interval
      <3>3. On(q) = {q[k] : k \in 1..n}
        BY DEF On
      <3> HIDE DEF n
      <3>4. g \in Surjection(1..n, On(q))
        BY <3>3 DEF Surjection
      <3>5. IsFiniteSet(On(q))
        BY <3>2, <3>4, FS_Surjection
      <3>6. On(q) \in SUBSET Int
        BY <3>1, <3>3
      <3> QED BY <3>5, <3>6
    <2>2. list[1] \in On(list)
      <3>1. 1 \in 1..Len(list)
        OBVIOUS
      <3> QED BY <3>1 DEF On
    <2> QED BY <2>1, <2>2
  <1>2. IsFiniteSet(U)
    BY <1>1, FS_Union
  <1> HIDE DEF U
  <1>3. CASE s = <<>>
    <2>1. On(s) = {}
      BY <1>3 DEF On
    <2>2. \A k \in 1..Len(list) : list[k] \in On(list)
      BY DEF On
    <2>3. list \in Seq(On(list))
      BY <2>2
    <2> QED BY <1>3, <2>1, <2>3 DEF Merged
  <1>4. CASE s # <<>>
    <2>1. Merged(s, list) = Sorted(U)
      BY <1>4 DEF Merged, U
    <2>2. Sorted(U) \in Seq(U) /\ On(Sorted(U)) = U
      BY <1>1, <1>2, SortedLists
    <2>3. On(<<>>) = {}
      BY DEF On
    <2>4. U # {}
      BY <1>1
    <2>5. Sorted(U) # <<>>
      BY <2>2, <2>3, <2>4
    <2> QED BY <2>1, <2>2, <2>5 DEF U
  <1> QED BY <1>3, <1>4

-----------------------------------------------------------------------------
(***************************************************************************)
(* The invariant.                                                          *)
(***************************************************************************)
\* A replica is an epoch behind at most.  A cursor is next to an epoch on the
\* screen, and one that was passed on by a page never leads past the chain.
Near ==
  /\ FirstEpoch <= epoch
  /\ \A r \in Replica : cached[r] # NoEpoch => /\ FirstEpoch <= cached[r]
                                               /\ cached[r] \in {epoch - 1, epoch}
  /\ shown # <<>> => /\ next # NoEpoch => next + 1 \in OnScreen /\ next < epoch
                     /\ prev # NoEpoch => prev - 1 \in OnScreen /\ prev <= epoch
  /\ cursor # NoEpoch => IF dir = "older" THEN cursor + 1 \in OnScreen /\ cursor < epoch
                         ELSE cursor - 1 \in OnScreen /\ cursor <= epoch

\* No other entry bears the time of a delegation.
OwnSlots ==
  /\ IsFiniteSet(stored)
  /\ \A x, y \in stored : x.epoch = y.epoch /\ x.slot = y.slot /\ x.type \in Bundled => x = y

\* An item is one entry of its epoch, or a bundle of delegations.
WellFormed(i, n) ==
  /\ i # {} /\ i \subseteq stored
  /\ \A a, b \in i : a.epoch = n /\ (a = b \/ (a.type = b.type /\ a.type \in Bundled))

ItemsShaped == \A n \in Epoch : \A i \in items[n] : WellFormed(i, n)

\* The direction is "newer" after a click on newer, and a screen that is
\* cleared since has cost another step.
Turned == dir = "newer" => steps >= 1 /\ (shown = <<>> => steps >= 2)

\* The screen shows an interval that begins about where the page was opened.
Unbroken ==
  epoch <= FirstEpoch + PageSize /\ shown # <<>> =>
    \E lo, hi \in Epoch :
      /\ lo <= hi /\ lo <= FirstEpoch + 1 /\ FirstEpoch <= hi
      /\ \/ shown = Down(lo, hi)
         \/ shown = Up(lo, hi) /\ hi - lo < PageSize /\ steps >= 2

Sound == TimelineTypeOK /\ Near /\ EndsHonest

TimelineInv == Sound /\ OwnSlots /\ ItemsShaped /\ NothingHidden /\ Turned /\ Unbroken

LEMMA TimelineFirst == TimelineInit => TimelineInv
  <1> SUFFICES ASSUME TimelineInit PROVE TimelineInv
    OBVIOUS
  <1> USE PageAssumption, EpochAssumption, StepsAssumption, NoEpochAssumption
  <1>1. TimelineTypeOK
    <2>1. /\ epoch \in 0..MaxEpoch /\ steps \in 0..MaxSteps
          /\ cached \in [Replica -> (0..MaxEpoch) \cup {NoEpoch}]
          /\ tip \in (0..MaxEpoch) \cup {NoEpoch}
      BY DEF TimelineInit
    <2>2. /\ shown \in Seq(Epoch) /\ items \in [Epoch -> SUBSET SUBSET Entry]
          /\ stored \subseteq Entry /\ received \subseteq Entry
          /\ {cursor, next, prev} \subseteq Epoch \cup {NoEpoch}
      BY DEF TimelineInit
    <2>3. /\ filter \in Filter /\ dir \in {"older", "newer"} /\ stale \in BOOLEAN
          /\ more \in [next : BOOLEAN, prev : BOOLEAN]
          /\ status \in {"loading", "refreshing", "idle", "failed"}
          /\ answered \subseteq Filter \X (Epoch \cup {NoEpoch}) \X {"older", "newer"}
      BY DEF TimelineInit
    <2> QED BY <2>1, <2>2, <2>3 DEF TimelineTypeOK
  <1>2. Near /\ EndsHonest
    BY DEF TimelineInit, Near, EndsHonest, OnScreen
  <1>3. OwnSlots
    BY FS_EmptySet DEF TimelineInit, OwnSlots
  <1>4. ItemsShaped /\ NothingHidden /\ Turned /\ Unbroken
    BY DEF TimelineInit, ItemsShaped, NothingHidden, Turned, Unbroken
  <1> QED BY <1>1, <1>2, <1>3, <1>4 DEF TimelineInv, Sound

(***************************************************************************)
(* A page is merged.                                                       *)
(***************************************************************************)
\* The epoch the replica answers with, and what its page adds to the screen.
LEMMA PageArrives ==
  ASSUME Sound, NEW r \in Replica, MergePage(r)
  PROVE  LET now == CurrentEpoch(r)
             F == FirstOf(cursor, dir, now)
             L == LastOf(cursor, dir, now)
         IN  /\ now \in 0..MaxEpoch /\ FirstEpoch <= now /\ now \in {epoch - 1, epoch}
             /\ dir \in {"older", "newer"} /\ (cursor = NoEpoch \/ cursor \in Nat)
             /\ F \in Epoch /\ L \in Epoch /\ F <= L /\ F <= epoch /\ L < F + PageSize
             /\ shown' = Merged(shown, Listed(cursor, dir, now))
             /\ shown' \in Seq(Epoch) /\ shown' # <<>>
             /\ OnScreen' = OnScreen \cup F..L
             /\ next' = IF F > 0 THEN F - 1 ELSE NoEpoch
             /\ prev' = IF L < now THEN L + 1 ELSE NoEpoch
             /\ L > now => now < epoch /\ now \in OnScreen
  <1> USE EpochAssumption, PageAssumption, NoEpochAssumption
  <1> DEFINE now == CurrentEpoch(r)
             F == FirstOf(cursor, dir, now)
             L == LastOf(cursor, dir, now)
             list == Listed(cursor, dir, now)
  <1>1. /\ epoch \in 0..MaxEpoch /\ dir \in {"older", "newer"}
        /\ cursor = NoEpoch \/ cursor \in Nat
        /\ shown \in Seq(Epoch)
        /\ cached[r] = NoEpoch \/ cached[r] \in 0..MaxEpoch
    BY DEF Sound, TimelineTypeOK, Epoch
  <1>2. now \in 0..MaxEpoch /\ FirstEpoch <= now /\ now \in {epoch - 1, epoch}
    BY <1>1 DEF CurrentEpoch, Sound, Near
  <1>3. /\ cursor # NoEpoch => IF dir = "older" THEN cursor < epoch
                               ELSE cursor - 1 \in OnScreen /\ cursor <= epoch
    BY DEF Sound, Near
  <1>4. shown' = Merged(shown, list)
    BY DEF MergePage, MergeEpochs, Merged, Sorted, Newer, On, OnScreen
  <1>5. /\ next' = IF F > 0 THEN F - 1 ELSE NoEpoch
        /\ prev' = IF L < now THEN L + 1 ELSE NoEpoch
    BY DEF MergePage, NextCursor, PrevCursor
  <1>6. now \in Nat
    BY <1>2
  <1> HIDE DEF now
  <1>7. /\ F \in Nat /\ L \in Nat /\ F <= L /\ L < F + PageSize
        /\ cursor = NoEpoch => L = now
        /\ cursor # NoEpoch /\ dir = "older" /\ cursor <= now => L = cursor
        /\ cursor # NoEpoch /\ dir = "newer" => F = cursor /\ (cursor <= now => L <= now)
    <2>1. Ends(cursor, dir, now)
      BY <1>1, <1>6, PageEnds
    <2> QED BY <2>1 DEF Ends
  <1>8. list \in Seq(F..L) /\ list # <<>> /\ On(list) = F..L
    BY <1>1, <1>6, PageListed
  <1> HIDE DEF F, L, list
  <1>9. F <= epoch
    BY <1>1, <1>2, <1>3, <1>7
  <1>10. F \in Epoch /\ L \in Epoch
    BY <1>1, <1>7, <1>9 DEF Epoch
  <1>11. L > now => now < epoch /\ now \in OnScreen
    <2>1. CASE cursor = NoEpoch
      BY <1>2, <1>7, <2>1
    <2>2. CASE cursor # NoEpoch /\ dir = "older"
      BY <1>1, <1>2, <1>3, <1>7, <2>2
    <2>3. CASE cursor # NoEpoch /\ dir = "newer"
      <3> SUFFICES ASSUME L > now PROVE now < epoch /\ now \in OnScreen
        OBVIOUS
      <3>1. now = epoch - 1 /\ cursor = epoch
        BY <1>1, <1>2, <1>3, <1>7, <2>3
      <3> QED BY <1>1, <1>3, <2>3, <3>1
    <2> QED BY <1>1, <2>1, <2>2, <2>3
  <1>12. shown' \in Seq(Epoch) /\ shown' # <<>> /\ On(shown') = On(shown) \cup F..L
    <2>1. Epoch \subseteq Nat /\ F..L \subseteq Epoch
      BY <1>10 DEF Epoch
    <2>2. shown \in Seq(Nat) /\ list \in Seq(Nat)
      BY <1>1, <1>8, <2>1, SeqWiden
    <2>3. On(shown) \subseteq Epoch
      BY <1>1 DEF On
    <2>4. /\ On(Merged(shown, list)) = On(shown) \cup On(list)
          /\ Merged(shown, list) \in Seq(On(shown) \cup On(list))
          /\ Merged(shown, list) # <<>>
      BY <1>8, <2>2, MergeAdds
    <2>5. On(shown) \cup On(list) \subseteq Epoch
      BY <1>8, <2>1, <2>3
    <2>6. Merged(shown, list) \in Seq(Epoch)
      BY <2>4, <2>5, SeqWiden
    <2> QED BY <1>4, <1>8, <2>4, <2>6
  <1>13. OnScreen' = OnScreen \cup F..L
    BY <1>12 DEF OnScreen, On
  <1> QED BY <1>1, <1>2, <1>4, <1>5, <1>7, <1>9, <1>10, <1>11, <1>12, <1>13 DEF now, F, L, list

\* The types, the cursors and what is said about the ends survive a merge.
LEMMA MergeSound ==
  ASSUME Sound, NEW r \in Replica, MergePage(r)
  PROVE  Sound'
  <1> USE EpochAssumption, NoEpochAssumption
  <1> DEFINE now0 == CurrentEpoch(r)
             F0   == FirstOf(cursor, dir, now0)
             L0   == LastOf(cursor, dir, now0)
  <1>0. PICK now, F, L : now = now0 /\ F = F0 /\ L = L0
    OBVIOUS
  <1>1. /\ now \in 0..MaxEpoch /\ FirstEpoch <= now /\ now \in {epoch - 1, epoch}
        /\ F \in Epoch /\ L \in Epoch /\ F <= L /\ F <= epoch
        /\ shown' \in Seq(Epoch) /\ shown' # <<>>
        /\ OnScreen' = OnScreen \cup F..L
        /\ next' = IF F > 0 THEN F - 1 ELSE NoEpoch
        /\ prev' = IF L < now THEN L + 1 ELSE NoEpoch
        /\ L > now => now < epoch /\ now \in OnScreen
    BY <1>0, PageArrives
  <1>2. /\ more' = [next |-> next' # NoEpoch, prev |-> prev' # NoEpoch]
        /\ tip' = now
        /\ stale' = (stale \/ now < epoch)
        /\ status' = "idle" /\ answered' = answered \cup {Key}
        /\ cached' \in {[cached EXCEPT ![r] = e] : e \in {cached[r], now}}
        /\ UNCHANGED <<epoch, stored, filter, cursor, dir, steps>>
        /\ items' = [n \in Epoch |-> IF n \in EpochsOf(cursor, dir, now)
                                     THEN MergeItems(items[n], Items(filter, n), dir)
                                     ELSE items[n]]
        /\ received' = received \cup UNION {Found(filter, n) : n \in EpochsOf(cursor, dir, now)}
    BY <1>0 DEF MergePage
  <1> HIDE DEF now0, F0, L0
  <1>3. /\ epoch \in 0..MaxEpoch /\ epoch \in Nat /\ F \in Nat /\ L \in Nat /\ now \in Nat
        /\ cached \in [Replica -> (0..MaxEpoch) \cup {NoEpoch}]
    BY <1>1 DEF Sound, TimelineTypeOK, Epoch
  <1>4. F \in OnScreen' /\ L \in OnScreen' /\ OnScreen \subseteq OnScreen'
    BY <1>1, <1>3
  <1>5. /\ next' # NoEpoch <=> F > 0
        /\ next' # NoEpoch => next' = F - 1
        /\ prev' # NoEpoch <=> L < now
        /\ prev' # NoEpoch => prev' = L + 1
        /\ more'.next <=> next' # NoEpoch
        /\ more'.prev <=> prev' # NoEpoch
    <2>1. /\ next' # NoEpoch <=> F > 0
          /\ next' # NoEpoch => next' = F - 1
          /\ prev' # NoEpoch <=> L < now
          /\ prev' # NoEpoch => prev' = L + 1
      BY <1>1, <1>3
    <2>2. more'.next = (next' # NoEpoch) /\ more'.prev = (prev' # NoEpoch)
      BY <1>2
    <2> QED BY <2>1, <2>2, Zenon
  <1>6. TimelineTypeOK'
    <2>1. /\ epoch' \in 0..MaxEpoch /\ stored' \subseteq Entry /\ filter' \in Filter
          /\ cursor' \in Epoch \cup {NoEpoch} /\ dir' \in {"older", "newer"}
          /\ status' \in {"loading", "refreshing", "idle", "failed"} /\ steps' \in 0..MaxSteps
      BY <1>2 DEF Sound, TimelineTypeOK
    <2>2. cached' \in [Replica -> (0..MaxEpoch) \cup {NoEpoch}] /\ tip' \in 0..MaxEpoch
      BY <1>1, <1>2, <1>3
    <2>3. next' \in Epoch \cup {NoEpoch} /\ prev' \in Epoch \cup {NoEpoch}
      <3>1. F > 0 => F - 1 \in Epoch
        BY <1>1, PageAssumption DEF Epoch
      <3>2. L < now => L + 1 \in Epoch
        BY <1>1, PageAssumption DEF Epoch
      <3> QED BY <1>1, <3>1, <3>2
    <2>4. more' \in [next : BOOLEAN, prev : BOOLEAN]
      BY <1>2
    <2>5. stale' \in BOOLEAN
      BY <1>2, Zenon
    <2>6. \A n : Found(filter, n) \subseteq Entry /\ Items(filter, n) \in SUBSET SUBSET Entry
      <3>1. \A n : Found(filter, n) \subseteq stored
        BY DEF Found, EventsOf, RowsOf
      <3>2. \A n : Found(filter, n) \subseteq Entry
        BY <3>1 DEF Sound, TimelineTypeOK
      <3>3. \A n : Items(filter, n) \in SUBSET SUBSET Found(filter, n)
        BY Zenon DEF Items
      <3> QED BY <3>2, <3>3
    <2>7. received' \subseteq Entry
      BY <1>2, <2>6 DEF Sound, TimelineTypeOK
    <2>8. items' \in [Epoch -> SUBSET SUBSET Entry]
      <3>1. ASSUME NEW old \in SUBSET SUBSET Entry, NEW new \in SUBSET SUBSET Entry, NEW d
            PROVE  MergeItems(old, new, d) \in SUBSET SUBSET Entry
        BY DEF MergeItems
      <3>2. \A n \in Epoch : /\ items[n] \in SUBSET SUBSET Entry
                             /\ MergeItems(items[n], Items(filter, n), dir) \in SUBSET SUBSET Entry
        BY <2>6, <3>1 DEF Sound, TimelineTypeOK
      <3> QED BY <1>2, <3>2
    <2>9. answered' \subseteq Filter \X (Epoch \cup {NoEpoch}) \X {"older", "newer"}
      BY <1>2 DEF Key, Sound, TimelineTypeOK
    <2> QED BY <1>1, <2>1, <2>2, <2>3, <2>4, <2>5, <2>7, <2>8, <2>9 DEF TimelineTypeOK
  <1>7. Near'
    <2>1. FirstEpoch <= epoch'
      BY <1>2 DEF Sound, Near
    <2>2. ASSUME NEW q \in Replica, cached'[q] # NoEpoch
          PROVE  FirstEpoch <= cached'[q] /\ cached'[q] \in {epoch' - 1, epoch'}
      <3>1. cached'[q] = cached[q] \/ cached'[q] = now
        BY <1>2, <1>3
      <3> QED BY <1>1, <1>2, <2>2, <3>1 DEF Sound, Near
    <2>3. next' # NoEpoch => next' + 1 \in OnScreen' /\ next' < epoch'
      BY <1>1, <1>2, <1>3, <1>4, <1>5
    <2>4. prev' # NoEpoch => prev' - 1 \in OnScreen' /\ prev' <= epoch'
      BY <1>1, <1>2, <1>3, <1>4, <1>5
    <2>5. cursor' # NoEpoch => IF dir' = "older" THEN cursor' + 1 \in OnScreen' /\ cursor' < epoch'
                               ELSE cursor' - 1 \in OnScreen' /\ cursor' <= epoch'
      BY <1>2, <1>4 DEF Sound, Near
    <2> QED BY <2>1, <2>2, <2>3, <2>4, <2>5 DEF Near
  <1>8. EndsHonest'
    <2>1. ~ more'.next => 0 \in OnScreen'
      BY <1>2, <1>3, <1>4, <1>5
    <2>2. ~ more'.prev => tip' \in OnScreen'
      BY <1>1, <1>2, <1>3, <1>4, <1>5
    <2>3. ASSUME NEW n \in OnScreen', n > epoch' PROVE stale'
      <3>1. CASE n \in OnScreen
        BY <1>2, <2>3, <3>1 DEF Sound, EndsHonest
      <3>2. CASE n \in F..L
        <4>1. L > now
          BY <1>1, <1>2, <1>3, <2>3, <3>2
        <4> QED BY <1>1, <1>2, <4>1
      <3> QED BY <1>1, <3>1, <3>2
    <2> QED BY <2>1, <2>2, <2>3 DEF EndsHonest
  <1> QED BY <1>6, <1>7, <1>8 DEF Sound

(***************************************************************************)
(* Nothing is hidden by a merge.                                           *)
(***************************************************************************)
Covered(e, all) ==
  \E i \in all : \/ e \in i
                 \/ e.type \in Bundled /\ Newest(i).type = e.type /\ Newest(i).slot > e.slot

\* An item has a newest entry.
LEMMA HasNewest ==
  ASSUME stored \subseteq Entry, IsFiniteSet(stored), NEW n, NEW i, WellFormed(i, n)
  PROVE  Newest(i) \in i /\ \A b \in i : b.slot <= Newest(i).slot
  <1> DEFINE T == {a.slot : a \in i}
             f == [a \in i |-> a.slot]
  <1>1. i \subseteq Entry /\ IsFiniteSet(i) /\ i # {}
    BY FS_Subset DEF WellFormed
  <1>2. \A a \in i : a.slot \in Nat
    BY <1>1, SlotAssumption DEF Entry
  <1>3. f \in Surjection(i, T)
    BY DEF Surjection
  <1>4. T \in SUBSET Int /\ T # {}
    BY <1>1, <1>2
  <1>5. IsFiniteSet(T)
    <2> HIDE DEF T, f
    <2> QED BY <1>1, <1>3, FS_Surjection
  <1>6. PICK t \in T : \A m \in T : m <= t
    <2> HIDE DEF T
    <2> QED BY <1>4, <1>5, Greatests
  <1>7. PICK a \in i : a.slot = t
    OBVIOUS
  <1>8. \A b \in i : b.slot <= a.slot
    BY <1>6, <1>7
  <1> QED BY <1>8 DEF Newest

\* Every entry found is in an item, and the items are shaped.
LEMMA ItemsOfPage ==
  ASSUME NEW f, NEW n
  PROVE  /\ \A i \in Items(f, n) : WellFormed(i, n)
         /\ \A e \in Found(f, n) : e.epoch = n /\ Covered(e, Items(f, n))
  <1> DEFINE E == Found(f, n)
             item(a) == {b \in E : Adjacent(a, b, E)}
  <1>1. E \subseteq stored /\ \A a \in E : a.epoch = n
    BY DEF Found, EventsOf, RowsOf
  <1>2. Items(f, n) = {item(a) : a \in E}
    BY DEF Items
  <1> HIDE DEF E
  <1>3. ASSUME NEW a \in E
        PROVE  /\ a \in item(a) /\ item(a) \subseteq E
               /\ \A b \in item(a) : a = b \/ (a.type = b.type /\ a.type \in Bundled)
    BY DEF Adjacent
  <1> HIDE DEF item
  <1>4. ASSUME NEW i \in Items(f, n) PROVE WellFormed(i, n)
    <2>1. PICK a \in E : i = item(a)
      BY <1>2
    <2>2. \A b, c \in item(a) : b = c \/ (b.type = c.type /\ b.type \in Bundled)
      BY <1>3
    <2> QED BY <1>1, <1>3, <2>1, <2>2 DEF WellFormed
  <1>5. \A e \in E : Covered(e, Items(f, n))
    BY <1>2, <1>3 DEF Covered
  <1> QED BY <1>1, <1>4, <1>5 DEF E

\* What an item covered is covered after the merge: an item is left out only
\* for one with the same newest entry.
LEMMA MergeCovers ==
  ASSUME OwnSlots, stored \subseteq Entry, NEW n, NEW old, NEW new, NEW d,
         \A i \in old \cup new : WellFormed(i, n),
         NEW e, Covered(e, old) \/ Covered(e, new)
  PROVE  Covered(e, MergeItems(old, new, d))
  <1>1. PICK i \in old \cup new :
          \/ e \in i
          \/ e.type \in Bundled /\ Newest(i).type = e.type /\ Newest(i).slot > e.slot
    BY DEF Covered
  <1>2. PICK j \in MergeItems(old, new, d) : j \in old \cup new /\ Newest(j) = Newest(i)
    <2>1. CASE i \in MergeItems(old, new, d)
      BY <2>1
    <2>2. CASE i \notin MergeItems(old, new, d)
      <3>1. PICK j \in (IF d = "newer" THEN new ELSE old) : ItemId(i) = ItemId(j)
        BY <2>2 DEF MergeItems
      <3>2. Newest(j) = Newest(i)
        BY <3>1 DEF ItemId
      <3>3. j \in MergeItems(old, new, d)
        BY <3>1 DEF MergeItems
      <3> QED BY <3>1, <3>2, <3>3
    <2> QED BY <2>1, <2>2
  <1>3. /\ Newest(i) \in i /\ Newest(j) \in j
        /\ \A b \in i : b.slot <= Newest(i).slot
    BY <1>2, HasNewest DEF OwnSlots
  <1>4. CASE e \in i
    <2>1. CASE e = Newest(i)
      BY <1>2, <1>3, <2>1 DEF Covered
    <2>2. CASE e # Newest(i)
      <3>1. /\ e \in stored /\ Newest(i) \in stored /\ e.epoch = Newest(i).epoch
            /\ e.type = Newest(i).type /\ e.type \in Bundled
        BY <1>3, <1>4, <2>2 DEF WellFormed
      <3>2. e.slot # Newest(i).slot
        BY <2>2, <3>1 DEF OwnSlots
      <3>3. e.slot \in Nat /\ Newest(i).slot \in Nat
        BY <3>1, SlotAssumption DEF Entry
      <3>4. Newest(j).slot > e.slot
        BY <1>2, <1>3, <1>4, <3>2, <3>3
      <3> QED BY <1>2, <3>1, <3>4 DEF Covered
    <2> QED BY <2>1, <2>2
  <1>5. CASE e \notin i
    BY <1>1, <1>2, <1>5 DEF Covered
  <1> QED BY <1>4, <1>5

LEMMA MergeShows ==
  ASSUME Sound, OwnSlots, ItemsShaped, NothingHidden, NEW r \in Replica, MergePage(r)
  PROVE  OwnSlots' /\ ItemsShaped' /\ NothingHidden'
  <1> DEFINE now0 == CurrentEpoch(r)
             F0   == FirstOf(cursor, dir, now0)
             L0   == LastOf(cursor, dir, now0)
  <1>0. PICK now, F, L : now = now0 /\ F = F0 /\ L = L0
    OBVIOUS
  <1>1. EpochsOf(cursor, dir, now) = F..L /\ F..L \subseteq Epoch
    <2>1. F \in Epoch /\ L \in Epoch
      BY <1>0, PageArrives
    <2> QED BY <1>0, <2>1, PageAssumption, EpochAssumption DEF EpochsOf, Epoch
  <1>2. OnScreen' = OnScreen \cup F..L
    BY <1>0, PageArrives
  <1>3. /\ items' = [n \in Epoch |-> IF n \in F..L
                                     THEN MergeItems(items[n], Items(filter, n), dir)
                                     ELSE items[n]]
        /\ received' = received \cup UNION {Found(filter, n) : n \in F..L}
        /\ stored' = stored
    BY <1>0, <1>1 DEF MergePage
  <1> HIDE DEF now0, F0, L0
  <1>4. /\ stored \subseteq Entry /\ received \subseteq Entry
        /\ \A n \in Epoch : \A i \in items[n] \cup Items(filter, n) : WellFormed(i, n)
    BY ItemsOfPage DEF Sound, TimelineTypeOK, ItemsShaped, WellFormed
  <1>5. OwnSlots'
    BY <1>3 DEF OwnSlots
  <1>6. ItemsShaped'
    <2> SUFFICES ASSUME NEW n \in Epoch, NEW i \in items'[n] PROVE WellFormed(i, n)
      BY <1>3 DEF ItemsShaped, WellFormed
    <2>1. i \in items[n] \cup Items(filter, n)
      BY <1>3 DEF MergeItems
    <2> QED BY <1>4, <2>1
  <1>7. ASSUME NEW e \in received' PROVE e.epoch \in OnScreen' /\ Covered(e, items'[e.epoch])
    <2>1. CASE e \in received
      <3>1. e.epoch \in OnScreen /\ e.epoch \in Epoch /\ Covered(e, items[e.epoch])
        BY <1>4, <2>1 DEF NothingHidden, Covered, Entry
      <3>2. CASE e.epoch \in F..L
        <4>1. Covered(e, MergeItems(items[e.epoch], Items(filter, e.epoch), dir))
          BY <1>4, <3>1, MergeCovers
        <4> QED BY <1>2, <1>3, <3>1, <3>2, <4>1
      <3>3. CASE e.epoch \notin F..L
        BY <1>2, <1>3, <3>1, <3>3
      <3> QED BY <3>2, <3>3
    <2>2. CASE e \notin received
      <3>1. PICK n \in F..L : e \in Found(filter, n)
        BY <1>3, <2>2
      <3>2. e.epoch = n /\ n \in Epoch /\ Covered(e, Items(filter, n))
        BY <1>1, <3>1, ItemsOfPage
      <3>3. Covered(e, MergeItems(items[n], Items(filter, n), dir))
        BY <1>4, <3>2, MergeCovers
      <3> QED BY <1>2, <1>3, <3>1, <3>2, <3>3
    <2> QED BY <2>1, <2>2
  <1>8. NothingHidden'
    BY <1>7 DEF NothingHidden, Covered
  <1> QED BY <1>5, <1>6, <1>8

(***************************************************************************)
(* A merge leaves no gap.                                                  *)
(***************************************************************************)
LEMMA IntervalsJoin ==
  ASSUME NEW lo \in Int, NEW hi \in Int, NEW F \in Int, NEW L \in Int,
         lo <= hi, F <= L, F <= hi + 1, lo - 1 <= L
  PROVE  (lo..hi) \cup (F..L) = Least(lo, F)..Greatest(hi, L)
  <1>1. Least(lo, F) \in Int /\ Greatest(hi, L) \in Int
    BY DEF Least, Greatest
  <1>2. ASSUME NEW x \in Int
        PROVE  x \in Least(lo, F)..Greatest(hi, L) <=> x \in lo..hi \/ x \in F..L
    BY DEF Least, Greatest
  <1> QED BY <1>1, <1>2

LEMMA MergeUnbroken ==
  ASSUME Sound, Turned, Unbroken, NEW r \in Replica, MergePage(r)
  PROVE  Unbroken'
  <1> SUFFICES ASSUME epoch <= FirstEpoch + PageSize
               PROVE  \E lo, hi \in Epoch :
                        /\ lo <= hi /\ lo <= FirstEpoch + 1 /\ FirstEpoch <= hi
                        /\ \/ shown' = Down(lo, hi)
                           \/ shown' = Up(lo, hi) /\ hi - lo < PageSize /\ steps >= 2
    BY DEF Unbroken, MergePage
  <1> DEFINE now == CurrentEpoch(r)
             F   == FirstOf(cursor, dir, now)
             L   == LastOf(cursor, dir, now)
             list == Listed(cursor, dir, now)
  <1>1. /\ now \in 0..MaxEpoch /\ FirstEpoch <= now /\ now \in {epoch - 1, epoch}
        /\ dir \in {"older", "newer"} /\ (cursor = NoEpoch \/ cursor \in Nat)
        /\ F \in Epoch /\ L \in Epoch /\ F <= L /\ L < F + PageSize
        /\ shown' = Merged(shown, list)
    BY PageArrives
  <1>2. now \in Nat
    BY <1>1
  <1> HIDE DEF now
  <1>3. /\ cursor = NoEpoch => L = now /\ F = Greatest(0, now - (PageSize - 1))
        /\ cursor # NoEpoch /\ dir = "older" /\ cursor <= now => L = cursor
        /\ cursor # NoEpoch /\ dir = "newer" => F = cursor
    <2>1. Ends(cursor, dir, now)
      BY <1>1, <1>2, PageEnds
    <2> QED BY <2>1 DEF Ends
  <1>4. list = (IF dir = "newer" THEN Up(F, L) ELSE Down(F, L)) /\ On(list) = F..L
    BY <1>1, <1>2, PageListed
  <1> HIDE DEF F, L, list
  <1>5. /\ epoch \in Nat /\ FirstEpoch \in Nat /\ PageSize \in Nat \ {0}
        /\ F \in Nat /\ L \in Nat
    BY <1>1, EpochAssumption, PageAssumption DEF Sound, TimelineTypeOK, Epoch
  <1>6. cursor # NoEpoch => IF dir = "older" THEN cursor + 1 \in OnScreen /\ cursor < epoch
                            ELSE cursor - 1 \in OnScreen
    BY DEF Sound, Near
  <1>7. cursor = NoEpoch => F <= FirstEpoch + 1
    BY <1>1, <1>3, <1>5 DEF Greatest
  <1>8. CASE shown = <<>>
    <2>1. OnScreen = {}
      BY <1>8 DEF OnScreen
    <2>2. cursor = NoEpoch
      BY <1>6, <2>1
    <2>3. shown' = list
      BY <1>1, <1>8 DEF Merged
    <2>4. dir = "newer" => steps >= 2
      BY <1>8 DEF Turned
    <2>5. F <= FirstEpoch + 1 /\ FirstEpoch <= L /\ L - F < PageSize
      BY <1>1, <1>2, <1>3, <1>5, <1>7, <2>2
    <2> QED BY <1>1, <1>4, <2>3, <2>4, <2>5
  <1>9. CASE shown # <<>>
    <2>1. PICK lo \in Epoch, hi \in Epoch :
            /\ lo <= hi /\ lo <= FirstEpoch + 1 /\ FirstEpoch <= hi
            /\ shown \in {Down(lo, hi), Up(lo, hi)}
      BY <1>9 DEF Unbroken
    <2>2. lo \in Nat /\ hi \in Nat
      BY PageAssumption, EpochAssumption DEF Epoch
    <2>3. On(shown) = lo..hi
      <3>1. lo \in Int /\ hi \in Int
        BY <2>2
      <3> QED BY <2>1, <3>1, Runs
    <2>4. OnScreen = lo..hi
      BY <2>3 DEF OnScreen, On
    <2>5. F <= hi + 1 /\ lo - 1 <= L
      <3>1. CASE cursor = NoEpoch
        BY <1>1, <1>2, <1>3, <1>5, <1>7, <2>1, <2>2, <3>1
      <3>2. CASE cursor # NoEpoch /\ dir = "older"
        <4>1. cursor \in Nat /\ cursor + 1 \in lo..hi /\ cursor <= now
          BY <1>1, <1>2, <1>5, <1>6, <2>4, <3>2
        <4>2. L = cursor
          BY <1>3, <3>2, <4>1
        <4> QED BY <1>1, <1>5, <2>2, <4>1, <4>2
      <3>3. CASE cursor # NoEpoch /\ dir = "newer"
        <4>1. cursor \in Nat /\ cursor - 1 \in lo..hi /\ F = cursor
          BY <1>1, <1>3, <1>6, <2>4, <3>3
        <4> QED BY <1>1, <1>5, <2>2, <4>1
      <3> QED BY <1>1, <3>1, <3>2, <3>3
    <2> DEFINE lo1 == Least(lo, F)
               hi1 == Greatest(hi, L)
    <2>6. (lo..hi) \cup (F..L) = lo1..hi1
      <3>1. lo \in Int /\ hi \in Int /\ F \in Int /\ L \in Int
        BY <1>5, <2>2
      <3> QED BY <1>1, <2>1, <2>5, <3>1, IntervalsJoin
    <2>7. /\ lo1 \in Epoch /\ hi1 \in Epoch
          /\ lo1 <= hi1 /\ lo1 <= FirstEpoch + 1 /\ FirstEpoch <= hi1
      BY <1>1, <1>5, <2>1, <2>2 DEF Least, Greatest
    <2> HIDE DEF lo1, hi1
    <2>8. lo1 \in Int /\ hi1 \in Int
      BY <2>7, PageAssumption, EpochAssumption DEF Epoch
    <2>9. shown' = Sorted(lo1..hi1)
      BY <1>1, <1>4, <1>9, <2>3, <2>6 DEF Merged
    <2>10. shown' = Down(lo1, hi1)
      BY <2>7, <2>8, <2>9, Runs
    <2> QED BY <2>7, <2>10
  <1> QED BY <1>8, <1>9

(***************************************************************************)
(* The other steps.                                                        *)
(***************************************************************************)
\* What depends on the screen alone is kept while it stays.
LEMMA ScreenStays ==
  ASSUME TimelineInv, epoch' >= epoch, stored \subseteq stored', steps' >= steps,
         UNCHANGED <<shown, items, received>>, TimelineTypeOK'
  PROVE  ItemsShaped' /\ NothingHidden' /\ Unbroken'
  <1>1. ItemsShaped'
    BY DEF TimelineInv, ItemsShaped, WellFormed
  <1>2. NothingHidden'
    BY DEF TimelineInv, NothingHidden, OnScreen
  <1>3. Unbroken'
    <2>1. epoch \in Nat /\ epoch' \in Nat /\ steps \in Int /\ steps' \in Int
      BY EpochAssumption, StepsAssumption DEF TimelineInv, Sound, TimelineTypeOK
    <2> SUFFICES ASSUME epoch' <= FirstEpoch + PageSize, shown # <<>>
                 PROVE  \E lo, hi \in Epoch :
                          /\ lo <= hi /\ lo <= FirstEpoch + 1 /\ FirstEpoch <= hi
                          /\ \/ shown = Down(lo, hi)
                             \/ shown = Up(lo, hi) /\ hi - lo < PageSize /\ steps' >= 2
      BY DEF Unbroken
    <2>2. epoch <= FirstEpoch + PageSize
      BY <2>1, EpochAssumption, PageAssumption
    <2>3. PICK lo \in Epoch, hi \in Epoch :
            /\ lo <= hi /\ lo <= FirstEpoch + 1 /\ FirstEpoch <= hi
            /\ \/ shown = Down(lo, hi)
               \/ shown = Up(lo, hi) /\ hi - lo < PageSize /\ steps >= 2
      BY <2>2 DEF TimelineInv, Unbroken
    <2>4. steps >= 2 => steps' >= 2
      BY <2>1
    <2> QED BY <2>3, <2>4
  <1> QED BY <1>1, <1>2, <1>3

\* The chain goes on, a replica forgets, an entry is stored.
LEMMA SurroundingsKeep ==
  ASSUME TimelineInv,
         EpochBegins \/ (\E r \in Replica : CacheExpires(r)) \/ (\E e \in Entry : Store(e))
  PROVE  TimelineInv'
  <1> USE EpochAssumption, StepsAssumption, NoEpochAssumption
  <1>0. /\ epoch \in 0..MaxEpoch /\ steps \in 0..MaxSteps
        /\ cached \in [Replica -> (0..MaxEpoch) \cup {NoEpoch}]
        /\ {cursor, next, prev} \subseteq Epoch \cup {NoEpoch} /\ Epoch \subseteq Nat
    BY PageAssumption DEF TimelineInv, Sound, TimelineTypeOK, Epoch
  <1>1. /\ UNCHANGED <<screen, cursors, query>>
        /\ steps' \in {steps, steps + 1} /\ (steps' = steps \/ steps < MaxSteps)
        /\ epoch' \in {epoch, epoch + 1} /\ (epoch' = epoch \/ epoch < MaxEpoch)
        /\ stored \subseteq stored' /\ stored' \subseteq Entry
    BY <1>0 DEF EpochBegins, CacheExpires, Store, Bounded, TimelineInv, Sound, TimelineTypeOK
  <1>2. /\ OnScreen' = OnScreen /\ OnScreen \subseteq Nat
         /\ UNCHANGED <<shown, next, prev, more, tip, stale, cursor, dir>>
    <2>1. UNCHANGED <<shown, next, prev, more, tip, stale, cursor, dir>>
      BY <1>1 DEF screen, cursors, query
    <2>2. shown \in Seq(Epoch)
      BY DEF TimelineInv, Sound, TimelineTypeOK
    <2>3. OnScreen \subseteq Epoch
      BY <2>2 DEF OnScreen
    <2> QED BY <1>0, <2>1, <2>3 DEF OnScreen
  <1>3. /\ cached' \in [Replica -> (0..MaxEpoch) \cup {NoEpoch}]
        /\ \A r \in Replica : cached'[r] # NoEpoch =>
             FirstEpoch <= cached'[r] /\ cached'[r] \in {epoch' - 1, epoch'}
    <2>1. CASE EpochBegins
      BY <1>0, <2>1 DEF EpochBegins, TimelineInv, Sound, Near
    <2>2. CASE \E r \in Replica : CacheExpires(r)
      BY <1>0, <2>2 DEF CacheExpires, TimelineInv, Sound, Near
    <2>3. CASE \E e \in Entry : Store(e)
      BY <1>0, <2>3 DEF Store, TimelineInv, Sound, Near
    <2> QED BY <2>1, <2>2, <2>3
  <1>4. TimelineTypeOK'
    <2>1. epoch' \in 0..MaxEpoch /\ steps' \in 0..MaxSteps
      BY <1>0, <1>1
    <2> QED BY <1>1, <1>3, <2>1 DEF TimelineInv, Sound, TimelineTypeOK, screen, cursors, query
  <1>5. Near'
    <2>1. FirstEpoch <= epoch'
      BY <1>0, <1>1 DEF TimelineInv, Sound, Near
    <2>2. /\ next = NoEpoch \/ next \in Nat
          /\ prev = NoEpoch \/ prev \in Nat
          /\ cursor = NoEpoch \/ cursor \in Nat
          /\ epoch \in Nat /\ epoch' \in Nat /\ epoch <= epoch'
      <3>1. next \in Epoch \cup {NoEpoch} /\ prev \in Epoch \cup {NoEpoch}
            /\ cursor \in Epoch \cup {NoEpoch} /\ Epoch \subseteq Nat
        BY <1>0
      <3>2. epoch \in Nat /\ epoch' \in Nat /\ epoch <= epoch'
        BY <1>0, <1>1
      <3> QED BY <3>1, <3>2
    <2>3. shown # <<>> => /\ next # NoEpoch => next + 1 \in OnScreen /\ next < epoch'
                          /\ prev # NoEpoch => prev - 1 \in OnScreen /\ prev <= epoch'
      BY <2>2 DEF TimelineInv, Sound, Near
    <2>4. cursor # NoEpoch => IF dir = "older" THEN cursor + 1 \in OnScreen /\ cursor < epoch'
                              ELSE cursor - 1 \in OnScreen /\ cursor <= epoch'
      BY <2>2 DEF TimelineInv, Sound, Near
    <2> QED BY <1>2, <1>3, <2>1, <2>3, <2>4 DEF Near
  <1>6. EndsHonest'
    <2>1. \A n \in OnScreen' : n \in OnScreen /\ n \in Nat
      BY <1>2
    <2>2. \A n \in OnScreen' : n > epoch' => n > epoch
      BY <1>0, <1>1, <2>1
    <2>3. (\E n \in OnScreen' : n > epoch') => stale'
      BY <1>2, <2>1, <2>2 DEF TimelineInv, Sound, EndsHonest
    <2>4. shown' # <<>> => /\ ~ more'.next => 0 \in OnScreen'
                           /\ ~ more'.prev => tip' \in OnScreen'
      BY <1>2 DEF TimelineInv, Sound, EndsHonest
    <2> QED BY <2>3, <2>4 DEF EndsHonest
  <1>7. OwnSlots'
    <2>1. CASE stored' = stored
      BY <2>1 DEF TimelineInv, OwnSlots
    <2>2. CASE \E e \in Entry : Store(e)
      <3>1. PICK e \in Entry : Store(e)
        BY <2>2
      <3>2. stored' = stored \cup {e}
        BY <3>1 DEF Store
      <3>3. IsFiniteSet(stored')
        BY <3>2, FS_AddElement DEF TimelineInv, OwnSlots
      <3>4. \A x \in stored : x.epoch = e.epoch /\ x.slot = e.slot =>
              x.type \notin Bundled /\ e.type \notin Bundled
        BY <3>1 DEF Store, Entry, Bundled
      <3> QED BY <3>2, <3>3, <3>4 DEF TimelineInv, OwnSlots
    <2> QED BY <2>1, <2>2 DEF EpochBegins, CacheExpires
  <1>8. Turned'
    BY <1>0, <1>1 DEF TimelineInv, Turned, screen, query
  <1>9. ItemsShaped' /\ NothingHidden' /\ Unbroken'
    <2>1. epoch' >= epoch /\ steps' >= steps
      BY <1>0, <1>1
    <2> QED BY <1>1, <1>4, <2>1, ScreenStays DEF screen
  <1> QED BY <1>4, <1>5, <1>6, <1>7, <1>8, <1>9 DEF TimelineInv, Sound

\* The reader clicks, the network fails or comes back: the screen stays.
LEMMA ReaderKeeps ==
  ASSUME TimelineInv, ClickOlder \/ ClickNewer \/ RequestFails \/ Reconnect
  PROVE  TimelineInv'
  <1> USE StepsAssumption, NoEpochAssumption
  <1>1. /\ UNCHANGED <<epoch, cached, stored, shown, items, received, next, prev, more, tip, stale, filter>>
        /\ OnScreen' = OnScreen
    BY DEF ClickOlder, ClickNewer, RequestFails, Reconnect, AskFor, server, screen, cursors, OnScreen
  <1>2. /\ steps' \in 0..MaxSteps /\ steps \in Nat /\ steps' \in {steps, steps + 1}
        /\ answered' = answered
        /\ status' \in {"loading", "refreshing", "idle", "failed"}
    BY DEF ClickOlder, ClickNewer, RequestFails, Reconnect, AskFor, Bounded,
           TimelineInv, Sound, TimelineTypeOK
  <1>3. \/ cursor' = cursor /\ dir' = dir
        \/ cursor' = next /\ next # NoEpoch /\ dir' = "older" /\ shown # <<>>
        \/ cursor' = prev /\ prev # NoEpoch /\ dir' = "newer" /\ shown # <<>> /\ steps' = steps + 1
    BY DEF ClickOlder, ClickNewer, RequestFails, Reconnect, AskFor, Bounded
  <1>4. TimelineTypeOK'
    <2>1. cursor' \in Epoch \cup {NoEpoch} /\ dir' \in {"older", "newer"}
      BY <1>3 DEF TimelineInv, Sound, TimelineTypeOK
    <2> QED BY <1>1, <1>2, <2>1 DEF TimelineInv, Sound, TimelineTypeOK
  <1>5. Near'
    <2>1. cursor' # NoEpoch => IF dir' = "older" THEN cursor' + 1 \in OnScreen /\ cursor' < epoch
                               ELSE cursor' - 1 \in OnScreen /\ cursor' <= epoch
      BY <1>3 DEF TimelineInv, Sound, Near
    <2> QED BY <1>1, <2>1 DEF TimelineInv, Sound, Near
  <1>6. EndsHonest' /\ OwnSlots'
    BY <1>1 DEF TimelineInv, Sound, EndsHonest, OwnSlots
  <1>7. Turned'
    BY <1>1, <1>2, <1>3 DEF TimelineInv, Turned
  <1>8. ItemsShaped' /\ NothingHidden' /\ Unbroken'
    <2>1. epoch' >= epoch /\ steps' >= steps
      BY <1>1, <1>2, EpochAssumption DEF TimelineInv, Sound, TimelineTypeOK
    <2> QED BY <1>1, <1>4, <2>1, ScreenStays
  <1> QED BY <1>4, <1>5, <1>6, <1>7, <1>8 DEF TimelineInv, Sound

\* Another filter: the screen is cleared, and the direction is left as it is.
LEMMA ParamsKeep ==
  ASSUME TimelineInv, NEW f \in Filter, ChangeParams(f)
  PROVE  TimelineInv'
  <1>1. /\ shown' = <<>> /\ received' = {} /\ items' = [n \in Epoch |-> {}]
        /\ stale' = FALSE /\ more' = [next |-> TRUE, prev |-> FALSE]
        /\ filter' = f /\ cursor' = NoEpoch /\ dir' = dir /\ answered' = answered
        /\ status' \in {"loading", "refreshing"}
        /\ steps < MaxSteps /\ steps' = steps + 1
        /\ UNCHANGED <<epoch, cached, stored, next, prev, tip>>
    BY DEF ChangeParams, AskFor, Bounded, server
  <1>2. OnScreen' = {}
    BY <1>1 DEF OnScreen
  <1>3. TimelineTypeOK'
    <2>1. steps' \in 0..MaxSteps
      BY <1>1, StepsAssumption DEF TimelineInv, Sound, TimelineTypeOK
    <2>2. items' \in [Epoch -> SUBSET SUBSET Entry] /\ shown' \in Seq(Epoch)
      BY <1>1
    <2> QED BY <1>1, <2>1, <2>2 DEF TimelineInv, Sound, TimelineTypeOK
  <1>4. Near' /\ EndsHonest'
    BY <1>1, <1>2 DEF TimelineInv, Sound, Near, EndsHonest
  <1>5. OwnSlots' /\ ItemsShaped' /\ NothingHidden' /\ Unbroken'
    BY <1>1 DEF TimelineInv, OwnSlots, ItemsShaped, NothingHidden, Unbroken
  <1>6. Turned'
    BY <1>1, StepsAssumption DEF TimelineInv, Sound, TimelineTypeOK, Turned
  <1> QED BY <1>3, <1>4, <1>5, <1>6 DEF TimelineInv, Sound

LEMMA TimelineStep == TimelineInv /\ [TimelineNext]_timelineVars => TimelineInv'
  <1> SUFFICES ASSUME TimelineInv, [TimelineNext]_timelineVars PROVE TimelineInv'
    OBVIOUS
  <1>1. CASE \E r \in Replica : MergePage(r)
    <2>1. PICK r \in Replica : MergePage(r)
      BY <1>1
    <2>2. Turned'
      <3>1. shown' # <<>> /\ dir' = dir /\ steps' = steps
        BY <2>1, PageArrives DEF MergePage, TimelineInv
      <3> QED BY <3>1 DEF TimelineInv, Turned
    <2> QED BY <2>1, <2>2, MergeSound, MergeShows, MergeUnbroken DEF TimelineInv
  <1>2. CASE EpochBegins \/ (\E r \in Replica : CacheExpires(r)) \/ (\E e \in Entry : Store(e))
    BY <1>2, SurroundingsKeep
  <1>3. CASE ClickOlder \/ ClickNewer \/ RequestFails \/ Reconnect
    BY <1>3, ReaderKeeps
  <1>4. CASE \E f \in Filter : ChangeParams(f)
    BY <1>4, ParamsKeep
  <1>5. CASE UNCHANGED timelineVars
    BY <1>5 DEF timelineVars, server, screen, cursors, query, TimelineInv, Sound, TimelineTypeOK,
                Near, EndsHonest, OwnSlots, ItemsShaped, WellFormed, NothingHidden, Turned, Unbroken,
                OnScreen
  <1> QED BY <1>1, <1>2, <1>3, <1>4, <1>5 DEF TimelineNext

LEMMA TimelineAlways == TimelineSpec => []TimelineInv
  BY TimelineFirst, TimelineStep, PTL DEF TimelineSpec

\* The end of the history is announced only with epoch 0 on the screen, and
\* "caught up" only with the newest epoch the answering replica knew; epochs
\* that have not begun come from a stale cache only.
THEOREM EndsAreHonest == TimelineSpec => []EndsHonest
  <1>1. TimelineInv => EndsHonest
    BY DEF TimelineInv, Sound
  <1> QED BY <1>1, TimelineAlways, PTL

\* No merge of pages hides an entry the backend has sent.
THEOREM MergeHidesNothing == TimelineSpec => []NothingHidden
  <1>1. TimelineInv => NothingHidden
    BY DEF TimelineInv
  <1> QED BY <1>1, TimelineAlways, PTL

\* The screen shows an unbroken run of epochs, for any size of the page, any
\* number of replicas and any order of clicks, failures and refetches.
THEOREM PagesJoin == TimelineSpec => []NoGaps
  <1>1. TimelineInv => NoGaps
    <2> SUFFICES ASSUME TimelineInv, epoch <= FirstEpoch + PageSize
                 PROVE  \E down \in BOOLEAN :
                          /\ \A k \in 1..(Len(shown) - 1) :
                               shown[k + 1] = IF down THEN shown[k] - 1 ELSE shown[k] + 1
                          /\ ~ down => Len(shown) <= PageSize /\ steps >= 2
      BY DEF NoGaps
    <2>1. CASE shown = <<>>
      <3>1. Len(shown) - 1 = -1 /\ 1..(-1) = {}
        BY <2>1
      <3>2. \A k \in 1..(Len(shown) - 1) : shown[k + 1] = shown[k] - 1
        BY <3>1
      <3> QED BY <3>2
    <2>2. CASE shown # <<>>
      <3>1. PICK lo \in Epoch, hi \in Epoch :
              /\ lo <= hi
              /\ \/ shown = Down(lo, hi)
                 \/ shown = Up(lo, hi) /\ hi - lo < PageSize /\ steps >= 2
        BY <2>2 DEF TimelineInv, Unbroken
      <3>2. lo \in Int /\ hi \in Int
        BY PageAssumption, EpochAssumption DEF Epoch
      <3>3. Len(shown) = hi - lo + 1
        BY <3>1, <3>2, Runs
      <3>4. CASE shown = Down(lo, hi)
        <4>1. \A k \in 1..(hi - lo) : shown[k + 1] = shown[k] - 1
          BY <3>2, <3>4 DEF Down
        <4>2. Len(shown) - 1 = hi - lo
          BY <3>2, <3>3
        <4> QED BY <4>1, <4>2
      <3>5. CASE shown = Up(lo, hi) /\ hi - lo < PageSize /\ steps >= 2
        <4>1. \A k \in 1..(hi - lo) : shown[k + 1] = shown[k] + 1
          BY <3>2, <3>5 DEF Up
        <4>2. Len(shown) - 1 = hi - lo /\ Len(shown) <= PageSize
          BY <3>2, <3>3, <3>5, PageAssumption
        <4> QED BY <3>5, <4>1, <4>2
      <3> QED BY <3>1, <3>4, <3>5
    <2> QED BY <2>1, <2>2
  <1> QED BY <1>1, TimelineAlways, PTL
=============================================================================
