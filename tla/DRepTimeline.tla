---------------------------- MODULE DRepTimeline ----------------------------
(***************************************************************************)
(* The activity timeline of a DRep: GovernanceService.getDRepTimeline of   *)
(* the backend, which serves pages of epochs, and useGetDRepTimelineQuery  *)
(* with the DrepTimeline component of the frontend, which pages through    *)
(* them in both directions and merges what arrives.                        *)
(*                                                                         *)
(* Backend replicas cache the current epoch for an hour, so two of them    *)
(* may disagree about it.  A request is answered and merged in one step: a *)
(* page that arrives after its query key was left is never merged, and     *)
(* until then nothing else on the client moves.                            *)
(***************************************************************************)
EXTENDS Integers, FiniteSets, Sequences

CONSTANTS
  Replica,      \* replicas of the backend
  NoEpoch,      \* an empty cache, a null cursor
  PageSize,     \* TIMELINE_EPOCHS_PER_PAGE
  Slot,         \* positions of an event within its epoch, by timestamp
  Type,         \* types of the events of this instance
  Joined,       \* slots whose votes are on a proposal the indexer has stored
  Filter,       \* values of the category parameter in this instance
  FirstEpoch,   \* the epoch of the chain when the page is opened
  MaxEpoch,     \* bound: the last epoch that begins
  MaxSteps      \* bound: epochs that begin, entries stored, filter changes,
                \*   clicks on newer, reconnections and failures, together

ASSUME PageAssumption  == PageSize \in Nat \ {0}
ASSUME SlotAssumption  == Slot \subseteq Nat /\ Joined \subseteq Slot
ASSUME EpochAssumption == FirstEpoch \in Nat /\ MaxEpoch \in Nat /\ FirstEpoch <= MaxEpoch
ASSUME StepsAssumption == MaxSteps \in Nat
ASSUME NoEpochAssumption == NoEpoch \notin Nat

\* A page may reach beyond the current epoch: see LastOf.
Epoch == 0..(MaxEpoch + PageSize)

ASSUME TypeAssumption == Type \subseteq {"vote", "delegation", "undelegation", "note"}

Bundled == {"delegation", "undelegation"}

\* src says which query finds an entry: the timeline events, or the votes
\* (whose entries repeat a timeline event) and the notes.
Entry == [src : {"event", "row"}, type : Type, epoch : Epoch, slot : Slot]

\* The values the filter menu writes into the address, and those the backend
\* knows how to map.
Category == [va |-> "vote", d |-> "delegation", n |-> "note"]
Mapped   == [voting_activity |-> "vote", delegation |-> "delegation"]

ASSUME FilterAssumption == Filter \subseteq ({"all"} \cup DOMAIN Category \cup DOMAIN Mapped)

VARIABLES
  epoch,     \* the current epoch of the chain
  cached,    \* currentEpochCached of every replica
  stored,    \* the entries in the tables behind the timeline
  filter,    \* the category chosen
  cursor,    \* the cursor state of the hook
  dir,       \* loadDirection
  shown,     \* the epochs on the screen, top to bottom
  items,     \* the items shown of each epoch
  next,      \* nextCursor, hasNextPage where it is set
  prev,      \* prevCursor, hasPrevPage where it is set
  more,      \* [next |-> hasNextPage, prev |-> hasPrevPage]
  status,    \* of the query under the current key
  answered,  \* keys that have data in the query cache
  tip,       \* history: the current epoch as the last page knew it
  stale,     \* history: a page on the screen came from an outdated cache
  received,  \* history: the entries of the pages merged since the last reset
  steps      \* number of steps that MaxSteps bounds

server       == <<epoch, cached, stored>>
screen       == <<shown, items, received>>
cursors      == <<next, prev, more, tip, stale>>
query        == <<filter, cursor, dir, status, answered>>
timelineVars == <<server, screen, cursors, query, steps>>

(***************************************************************************)
(* The page: getDRepTimeline.                                              *)
(***************************************************************************)
Least(a, b)    == IF a <= b THEN a ELSE b
Greatest(a, b) == IF a >= b THEN a ELSE b

\* The first epoch of the page, for the current epoch now.
FirstOf(c, d, now) ==
  IF d = "newer" /\ c # NoEpoch THEN c
  ELSE Greatest(0, (IF c = NoEpoch THEN now ELSE c) - (PageSize - 1))

\* The last epoch: a page that starts beyond the current epoch is not cut.
LastOf(c, d, now) ==
  LET asked == IF c = NoEpoch THEN now
               ELSE IF d = "older" THEN c ELSE c + PageSize - 1
      cut   == Least(asked, now)
  IN  IF cut < FirstOf(c, d, now) THEN FirstOf(c, d, now) + PageSize - 1 ELSE cut

EpochsOf(c, d, now) == FirstOf(c, d, now)..LastOf(c, d, now)

\* mapFilterValuesToEventTypes: values it does not know are dropped, and a
\* filter without any known value filters nothing.
EventTypes(f) == IF f \in DOMAIN Mapped THEN {Mapped[f]} ELSE Type

\* The three queries of a page.  A row of the votes table is left out when
\* its transaction was seen among the events; an event whose proposal is known
\* bears the transaction of the proposal by then, and hides no vote.
EventsOf(f, n) == {e \in stored : e.epoch = n /\ e.src = "event" /\ e.type \in EventTypes(f)}
Seen(f, e)     == \E x \in EventsOf(f, e.epoch) : x.slot = e.slot /\ x.slot \notin Joined
RowsOf(f, n)   == {e \in stored : /\ e.epoch = n /\ e.src = "row"
                                  /\ f = "all" \/ (f = "voting_activity" /\ e.type = "vote")
                                  /\ ~ Seen(f, e)}
Found(f, n)    == EventsOf(f, n) \cup RowsOf(f, n)

\* Adjacent delegations of one epoch, and adjacent undelegations, are shown
\* as one item: no entry of another type is between them.
Adjacent(a, b, E) ==
  \/ a = b
  \/ /\ a.type = b.type
     /\ a.type \in Bundled
     /\ \A x \in E : x.slot \in Least(a.slot, b.slot)..Greatest(a.slot, b.slot)
                       => x.type = a.type

Items(f, n) == {{b \in Found(f, n) : Adjacent(a, b, Found(f, n))} : a \in Found(f, n)}

Newest(i) == CHOOSE a \in i : \A b \in i : b.slot <= a.slot

\* An item of one event bears the id of the event, a bundle one made of the
\* id of its newest event.
ItemId(i) == [bundle |-> Cardinality(i) > 1, of |-> Newest(i)]

\* The epochs of a page from the newest on, reversed when newer ones are loaded.
Listed(c, d, now) ==
  [k \in 1..Cardinality(EpochsOf(c, d, now)) |->
     IF d = "newer" THEN FirstOf(c, d, now) + k - 1 ELSE LastOf(c, d, now) + 1 - k]

\* Slip: a cursor to epoch 0 is taken for none, as the number 0 would be.
NextCursorFalsy(c, d, now) ==
  IF FirstOf(c, d, now) > 1 THEN FirstOf(c, d, now) - 1 ELSE NoEpoch

NextCursor(c, d, now) ==
  IF FirstOf(c, d, now) > 0 THEN FirstOf(c, d, now) - 1 ELSE NoEpoch

PrevCursor(c, d, now) ==
  IF LastOf(c, d, now) < now THEN LastOf(c, d, now) + 1 ELSE NoEpoch

(***************************************************************************)
(* The merge of a page into what is shown: onSuccess.                      *)
(***************************************************************************)
OnScreen == {shown[k] : k \in 1..Len(shown)}

\* Slip: what arrives is appended, whichever direction it was loaded in.
MergeAppended(list) == shown \o SelectSeq(list, LAMBDA n : n \notin OnScreen)

\* Every epoch once, sorted from the newest; the first page is kept as it came.
MergeEpochs(list) ==
  LET all == OnScreen \cup {list[k] : k \in 1..Len(list)}
  IN  IF shown = <<>> THEN list
      ELSE [k \in 1..Cardinality(all) |->
              CHOOSE n \in all : Cardinality({m \in all : m > n}) = k - 1]

\* Slip: the items of an epoch that is already shown are left as they are.
KeepItems(old, new, d) == IF old = {} THEN new ELSE old

\* Of two items with the same id the one listed first is kept.
MergeItems(old, new, d) ==
  LET first  == IF d = "newer" THEN new ELSE old
      second == IF d = "newer" THEN old ELSE new
  IN  first \cup {i \in second : \A j \in first : ItemId(i) # ItemId(j)}

Key == <<filter, cursor, dir>>

Loading == status = "loading"

\* The query key changes: without data in the cache the hook is loading, with
\* data it fetches again in the background.
AskFor(f, c, d) ==
  /\ filter' = f /\ cursor' = c /\ dir' = d
  /\ status' \in IF <<f, c, d>> \in answered THEN {"loading", "refreshing"} ELSE {"loading"}
  /\ UNCHANGED answered

TimelineInit ==
  /\ epoch = FirstEpoch
  /\ cached = [r \in Replica |-> NoEpoch]
  /\ stored = {}
  /\ filter \in Filter
  /\ cursor = NoEpoch
  /\ dir = "older"
  /\ shown = <<>>
  /\ items = [n \in Epoch |-> {}]
  /\ next = NoEpoch
  /\ prev = NoEpoch
  /\ more = [next |-> TRUE, prev |-> FALSE]
  /\ status = "loading"
  /\ answered = {}
  /\ tip = NoEpoch
  /\ stale = FALSE
  /\ received = {}
  /\ steps = 0

Bounded == steps < MaxSteps /\ steps' = steps + 1

(***************************************************************************)
(* The chain, the indexer and the replicas.                                *)
(***************************************************************************)
\* An epoch outlasts the hour of the cache: what was cached in an earlier
\* epoch has expired by then.
EpochBegins ==
  /\ epoch < MaxEpoch
  /\ Bounded
  /\ epoch' = epoch + 1
  /\ cached' = [r \in Replica |-> IF cached[r] = epoch THEN epoch ELSE NoEpoch]
  /\ UNCHANGED <<stored, screen, cursors, query>>

CacheExpires(r) ==
  /\ cached[r] # NoEpoch
  /\ cached' = [cached EXCEPT ![r] = NoEpoch]
  /\ UNCHANGED <<epoch, stored, screen, cursors, query, steps>>

\* Events, synthetic undelegations above all, may be stored with a timestamp
\* of the past; the row of a vote comes from a sync of its own.
Store(e) ==
  /\ Bounded
  /\ e.epoch <= epoch
  /\ IF e.src = "event"
     THEN e.type # "note" /\ \A x \in stored : x.epoch = e.epoch => x.slot # e.slot
     ELSE /\ e.type \in {"vote", "note"}
          /\ \A x \in stored : x.epoch = e.epoch /\ x.slot = e.slot
                                  => x.src = "event" /\ x.type = "vote" /\ e.type = "vote"
  /\ stored' = stored \cup {e}
  /\ UNCHANGED <<epoch, cached, screen, cursors, query>>

(***************************************************************************)
(* The hook and the component.                                             *)
(***************************************************************************)
\* getCurrentEpoch on replica r: the cache, Blockfrost, or the clock, whose
\* result is not cached.
CurrentEpoch(r) == IF cached[r] # NoEpoch THEN cached[r] ELSE epoch

\* The page of the current key arrives and is merged.
MergePage(r) ==
  LET now  == CurrentEpoch(r)
      list == Listed(cursor, dir, now)
      page == EpochsOf(cursor, dir, now)
  IN
  /\ status \in {"loading", "refreshing"}
  /\ shown' = MergeEpochs(list)
  /\ items' = [n \in Epoch |-> IF n \in page THEN MergeItems(items[n], Items(filter, n), dir)
                               ELSE items[n]]
  /\ received' = received \cup UNION {Found(filter, n) : n \in page}
  /\ next' = NextCursor(cursor, dir, now)
  /\ prev' = PrevCursor(cursor, dir, now)
  /\ more' = [next |-> next' # NoEpoch, prev |-> prev' # NoEpoch]
  /\ tip' = now
  /\ stale' = (stale \/ now < epoch)
  /\ status' = "idle"
  /\ answered' = answered \cup {Key}
  /\ cached' \in {[cached EXCEPT ![r] = e] : e \in {cached[r], now}}
  /\ UNCHANGED <<epoch, stored, filter, cursor, dir, steps>>

\* The request and its retries fail.
RequestFails ==
  /\ status \in {"loading", "refreshing"}
  /\ Bounded
  /\ status' = "failed"
  /\ UNCHANGED <<server, screen, cursors, filter, cursor, dir, answered>>

\* loadMoreData.  After a failure the cursor is already the one of the page
\* that failed: setting it again changes no key, and nothing is requested.
ClickOlder ==
  /\ shown # <<>>
  /\ more.next /\ ~ Loading /\ next # NoEpoch
  /\ <<next, "older">> # <<cursor, dir>>
  /\ AskFor(filter, next, "older")
  /\ UNCHANGED <<server, screen, cursors, steps>>

\* loadNewerData
ClickNewer ==
  /\ shown # <<>>
  /\ more.prev /\ ~ Loading /\ prev # NoEpoch
  /\ <<prev, "newer">> # <<cursor, dir>>
  /\ Bounded
  /\ AskFor(filter, prev, "newer")
  /\ UNCHANGED <<server, screen, cursors>>

\* The filter, the wallet or the DRep changes: everything but the direction
\* and the two cursors is reset, and the first page asked for.
ChangeParams(f) ==
  /\ f # filter
  /\ Bounded
  /\ AskFor(f, NoEpoch, dir)
  /\ shown' = <<>>
  /\ items' = [n \in Epoch |-> {}]
  /\ received' = {}
  /\ stale' = FALSE
  /\ more' = [next |-> TRUE, prev |-> FALSE]
  /\ UNCHANGED <<server, next, prev, tip>>

\* The network comes back: the query client fetches the current key again.
Reconnect ==
  /\ status \in {"idle", "failed"}
  /\ Bounded
  /\ status' = IF Key \in answered THEN "refreshing" ELSE "loading"
  /\ UNCHANGED <<server, screen, cursors, filter, cursor, dir, answered>>

TimelineNext ==
  \/ EpochBegins \/ (\E r \in Replica : CacheExpires(r) \/ MergePage(r))
  \/ \E e \in Entry : Store(e)
  \/ RequestFails \/ ClickOlder \/ ClickNewer \/ Reconnect
  \/ \E f \in Filter : ChangeParams(f)

TimelineSpec == TimelineInit /\ [][TimelineNext]_timelineVars

\* A request is answered, and the reader goes on paging back.
Answered  == \E r \in Replica : MergePage(r)
PagesBack == ClickOlder
-----------------------------------------------------------------------------
TimelineTypeOK ==
  /\ epoch \in 0..MaxEpoch
  /\ cached \in [Replica -> (0..MaxEpoch) \cup {NoEpoch}]
  /\ stored \subseteq Entry
  /\ filter \in Filter
  /\ {cursor, next, prev} \subseteq Epoch \cup {NoEpoch}
  /\ dir \in {"older", "newer"}
  /\ shown \in Seq(Epoch)
  /\ items \in [Epoch -> SUBSET SUBSET Entry]
  /\ more \in [next : BOOLEAN, prev : BOOLEAN]
  /\ status \in {"loading", "refreshing", "idle", "failed"}
  /\ answered \subseteq Filter \X (Epoch \cup {NoEpoch}) \X {"older", "newer"}
  /\ tip \in (0..MaxEpoch) \cup {NoEpoch}
  /\ stale \in BOOLEAN
  /\ received \subseteq Entry
  /\ steps \in 0..MaxSteps

\* However the reader pages, and whichever replicas answer, the screen shows
\* an unbroken run of epochs, each once, from the newest down; only a single
\* first page asked for with a direction left over from before is upside down.
\* A page left open while more epochs begin than it holds is out of this: the
\* first page that is then fetched again does not reach down to the old one.
NoGaps ==
  epoch <= FirstEpoch + PageSize =>
    \E down \in BOOLEAN :
      /\ \A k \in 1..(Len(shown) - 1) :
           shown[k + 1] = IF down THEN shown[k] - 1 ELSE shown[k] + 1
      /\ ~ down => Len(shown) <= PageSize /\ steps >= 2

\* "No more history to load" appears only when epoch 0 is on the screen, and
\* "You're all caught up!" only when the newest epoch known to the replica
\* that answered last is.  An epoch that has not begun is shown only when a
\* page came from a replica whose cached epoch was behind the chain.
EndsHonest ==
  /\ shown # <<>> => /\ ~ more.next => 0 \in OnScreen
                     /\ ~ more.prev => tip \in OnScreen
  /\ (\E n \in OnScreen : n > epoch) => stale

\* No merge hides what the backend sent: an entry that arrived is in an item
\* on the screen, or is a delegation that joined, behind its head, a bundle
\* that was shown without it.
NothingHidden ==
  \A e \in received :
    /\ e.epoch \in OnScreen
    /\ \/ \E i \in items[e.epoch] : e \in i
       \/ \E i \in items[e.epoch] : /\ e.type \in Bundled
                                     /\ Newest(i).type = e.type
                                     /\ Newest(i).slot > e.slot

\* A reader who has a page before them and goes on paging back reaches the
\* first epoch, unless a request fails, which leaves the page stuck.
ReachesGenesis == shown # <<>> ~> (0 \in OnScreen \/ status = "failed")

\* A chosen category shows the entries of that category only.
CategoryShown ==
  filter \in DOMAIN Category =>
    \A n \in OnScreen : \A i \in items[n] : Newest(i).type = Category[filter]
=============================================================================
