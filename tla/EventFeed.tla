------------------------------ MODULE EventFeed ------------------------------
(***************************************************************************)
(* What the timeline watcher promises to the syncs it triggers: an         *)
(* at-least-once feed.  An event is published when its row commits, served *)
(* when a sync that starts after it is due or has started, and             *)
(* acknowledged when the persisted position is behind it.  A consumer may  *)
(* acknowledge only what was served; a position saved by a slower consumer *)
(* may take acknowledgements back, never the service itself.               *)
(***************************************************************************)
CONSTANT Event

VARIABLES
  published,  \* events that ask for a sync
  served,     \* events whose sync is due or has started since
  acked       \* events behind the saved position

feed == <<published, served, acked>>

Init == published = {} /\ served = {} /\ acked = {}

\* A sync that is already due when the event arrives serves it as well.
Publish(e) ==
  /\ e \notin published
  /\ published' = published \cup {e}
  /\ served' \in {served, served \cup {e}}
  /\ UNCHANGED acked

Serve(S) ==
  /\ S \subseteq published
  /\ served' = served \cup S
  /\ UNCHANGED <<published, acked>>

Acknowledge(S) ==
  /\ S \subseteq served
  /\ acked' = acked \cup S
  /\ UNCHANGED <<published, served>>

FallBack(S) ==
  /\ acked' = acked \ S
  /\ UNCHANGED <<published, served>>

Next ==
  \/ \E e \in Event : Publish(e)
  \/ \E S \in SUBSET Event : Serve(S) \/ Acknowledge(S) \/ FallBack(S)

Fairness == \A e \in Event : WF_feed(Serve({e})) /\ WF_feed(Acknowledge({e}))

Spec     == Init /\ [][Next]_feed
FairSpec == Spec /\ Fairness
=============================================================================
