---------------------------- MODULE Frontend_proofs ----------------------------
(***************************************************************************)
(* The safety of the components of the frontend: of the transaction modal  *)
(* for any number of callers, of the browser session for any wallets and   *)
(* accounts and any number of page loads, logins, switches and expiries,   *)
(* and, with the timeline, of all three together.                          *)
(***************************************************************************)
EXTENDS MCFrontend, DRepTimeline_proofs

-----------------------------------------------------------------------------
(***************************************************************************)
(* The transaction modal.                                                  *)
(***************************************************************************)
USE KindAssumption, NoTxnAssumption

\* Callers that have been given their promise.
Past == {"pending", "resolved", "cancelled"}

\* Whatever can be clicked belongs to a caller that still waits, and a modal
\* that cannot be clicked yet to one that prepares.
Held ==
  /\ modal.open /\ ~ modal.prepping => caller[modal.holder] = "pending"
  /\ modal.open /\ modal.prepping => \E t \in Txn : caller[t] = "prepping"
  /\ ~ modal.open => modal.step = "initial"
  /\ modal.step = "download" => modal.holder \in Txn /\ caller[modal.holder] = "pending"
  /\ fading # NoTxn => caller[fading] \in Past
  /\ \A f \in flights : caller[f.tx] \in Past

\* A transaction that no other one met is the only one under way ...
Alone == \A t \in Busy : "overlap" \notin excused[t] => Busy \subseteq {t}

\* ... and the modal is its own.
Own ==
  \A t \in Txn : "overlap" \notin excused[t] =>
    /\ caller[t] = "prepping" => /\ modal.open /\ modal.prepping
                                 /\ modal.step = "initial" /\ modal.type = Kind[t]
    /\ caller[t] = "pending"  => /\ modal.open /\ ~ modal.prepping
                                 /\ modal.holder = t /\ modal.type = Kind[t]

Kinded ==
  \A f \in flights :
    /\ f.kind = Kind[f.tx] \/ "overlap" \in excused[f.tx]
    /\ f.file = f.tx \/ ("swapped" \in excused[f.tx] /\ "swapped" \in excused[f.file])
    /\ f.stage = "accepted" => f.file \in submitted

\* While the answer about a transaction that nothing befell is awaited, its
\* caller waits too, and nothing can be clicked.
Flying ==
  \A t \in Txn : excused[t] = {} =>
    /\ t \in InFlight => caller[t] = "pending" /\ loading /\ fading # t
    /\ \A f, g \in flights : f.tx = t /\ g.tx = t => f = g
    /\ t \in submitted => \/ caller[t] = "resolved"
                          \/ \E f \in flights : f.tx = t /\ f.stage = "accepted"

\* Inductive.  None of the properties is by itself: they follow from who holds
\* the modal, which depends on who else is under way.
ModalInv ==
  /\ ModalTypeOK /\ Held /\ Alone /\ Own /\ Kinded /\ Flying /\ RightAnswer

\* Initially there is no caller, no modal and no flight.
LEMMA ModalFirst == ModalInit => ModalInv
  <1> SUFFICES ASSUME ModalInit PROVE ModalInv
    OBVIOUS
  <1>1. ModalTypeOK
    BY DEF ModalInit, ModalTypeOK, Closed, CallerStates, Kinds
  <1>2. /\ \A t \in Txn : caller[t] = "new" /\ excused[t] = {}
        /\ modal = Closed /\ fading = NoTxn /\ flights = {} /\ submitted = {} /\ drafts = {}
    BY DEF ModalInit
  <1>3. Busy = {} /\ InFlight = {}
    BY <1>2 DEF Busy, InFlight
  <1>4. Held /\ Own /\ Kinded
    BY <1>2 DEF Held, Own, Kinded, Closed
  <1>5. Alone /\ Flying /\ RightAnswer
    BY <1>2, <1>3 DEF Alone, Flying, RightAnswer
  <1> QED BY <1>1, <1>4, <1>5 DEF ModalInv

\* A step that starts no transaction leaves the lone one alone.
LEMMA StillAlone ==
  ASSUME ModalInv, Busy' \subseteq Busy, \A t \in Txn : excused[t] \subseteq excused'[t]
  PROVE  Alone'
  <1>1. Busy' \subseteq Txn
    BY DEF ModalInv, ModalTypeOK, Busy
  <1> QED BY <1>1 DEF ModalInv, Alone

\* Nobody but the lone transaction is under way.
LEMMA OnlyOne ==
  ASSUME ModalInv, NEW t \in Busy, "overlap" \notin excused[t], NEW u \in Busy
  PROVE  u = t
  BY DEF ModalInv, Alone

\* What does not touch the flights, nor a caller that waits or was answered,
\* leaves the awaited answers alone.
LEMMA FlyingFrame ==
  ASSUME ModalInv, UNCHANGED <<drafts, flights, loading, fading, submitted>>,
         \A u \in Txn : excused'[u] = {} => excused[u] = {},
         \A u \in Txn : caller[u] \in {"pending", "resolved"} => caller'[u] = caller[u]
  PROVE  Flying'
  <1> SUFFICES ASSUME NEW u \in Txn, excused'[u] = {}
               PROVE  /\ u \in InFlight' => caller'[u] = "pending" /\ loading' /\ fading' # u
                      /\ \A f, g \in flights' : f.tx = u /\ g.tx = u => f = g
                      /\ u \in submitted' => \/ caller'[u] = "resolved"
                                             \/ \E f \in flights' : f.tx = u /\ f.stage = "accepted"
    BY DEF Flying
  <1>1. excused[u] = {} /\ InFlight' = InFlight
    BY DEF InFlight
  <1> QED BY <1>1 DEF ModalInv, Flying

-----------------------------------------------------------------------------
\* A modal that opens is the one of the caller that opened it.
LEMMA OpenKeeps ==
  ASSUME ModalInv, NEW t \in Txn, caller[t] \in {"new", "building"}, OpenTxnModal(t),
         caller[t] = "building" \/ Busy = {} \/ \A u \in Busy \cup {t} : "overlap" \in excused'[u],
         UNCHANGED <<result, loading, fading, drafts, flights, submitted>>,
         \A u \in Txn : excused[u] \subseteq excused'[u],
         excused' \in [Txn -> SUBSET {"overlap", "raced", "lost", "swapped"}],
         Alone'
  PROVE  ModalInv'
  <1>1. /\ caller' = [caller EXCEPT ![t] = "prepping"]
        /\ modal'.open = TRUE /\ modal'.prepping = TRUE /\ modal'.type = Kind[t]
        /\ modal'.holder = modal.holder /\ modal'.step = modal.step
        /\ modal' \in [open : BOOLEAN, prepping : BOOLEAN, holder : Txn \cup {NoTxn},
                        type : Kinds, step : {"initial", "download"}]
    BY DEF OpenTxnModal, ModalInv, ModalTypeOK
  <1>2. /\ caller'[t] = "prepping" /\ \A u \in Txn \ {t} : caller'[u] = caller[u]
        /\ \A u \in Txn : caller[u] \in Past => u # t
    BY <1>1 DEF ModalInv, ModalTypeOK, Past
  <1>3. ModalTypeOK'
    BY <1>1 DEF ModalInv, ModalTypeOK, CallerStates
  <1>4. Held'
    BY <1>1, <1>2 DEF ModalInv, ModalTypeOK, Held, Flight
  <1>5. Own'
    <2> SUFFICES ASSUME NEW u \in Txn, "overlap" \notin excused'[u],
                        caller'[u] \in {"prepping", "pending"}
                 PROVE  u = t /\ modal.step = "initial"
      BY <1>1, <1>2 DEF Own
    <2>1. "overlap" \notin excused[u] /\ (u # t => u \in Busy)
      BY <1>2 DEF Busy
    <2>2. CASE Busy = {}
      <3>1. ~ modal.open
        BY <2>2 DEF ModalInv, ModalTypeOK, Held, Busy
      <3> QED BY <2>1, <2>2, <3>1 DEF ModalInv, Held
    <2>3. CASE Busy # {} /\ caller[t] = "building"
      <3>1. t \in Busy
        BY <2>3 DEF Busy
      <3>2. u = t
        BY <2>1, <3>1, OnlyOne
      <3>3. ~ modal.open
        <4> SUFFICES ASSUME modal.open PROVE FALSE
          OBVIOUS
        <4>1. \E v \in Busy : caller[v] \in {"pending", "prepping"}
          BY DEF ModalInv, ModalTypeOK, Held, Busy
        <4>2. PICK v \in Busy : caller[v] \in {"pending", "prepping"}
          BY <4>1
        <4>3. v = t
          BY <2>1, <3>1, <3>2, OnlyOne
        <4> QED BY <2>3, <4>2, <4>3
      <3> QED BY <3>2, <3>3 DEF ModalInv, Held
    <2> QED BY <2>1, <2>2, <2>3
  <1>6. Kinded' /\ RightAnswer'
    BY <1>2 DEF ModalInv, ModalTypeOK, Kinded, RightAnswer, Flight
  <1>7. Flying'
    BY <1>2, FlyingFrame
  <1> QED BY <1>3, <1>4, <1>5, <1>6, <1>7 DEF ModalInv

\* A new transaction marks whatever it meets, and itself.
LEMMA BeginKeeps ==
  ASSUME ModalInv, NEW t \in Txn, Begin(t)
  PROVE  ModalInv'
  <1>1. /\ caller[t] = "new" /\ UNCHANGED <<result, loading, fading, drafts, flights, submitted>>
        /\ excused' = IF Busy = {} THEN excused ELSE Excuse(Busy \cup {t}, "overlap")
    BY DEF Begin
  <1>2. /\ excused' \in [Txn -> SUBSET {"overlap", "raced", "lost", "swapped"}]
        /\ \A u \in Txn : excused[u] \subseteq excused'[u]
        /\ Busy = {} \/ \A u \in Busy \cup {t} : "overlap" \in excused'[u]
    BY <1>1 DEF Excuse, Busy, ModalInv, ModalTypeOK
  <1>3. Busy' \subseteq Busy \cup {t}
    <2>1. \A u \in Txn \ {t} : caller'[u] = caller[u]
      BY DEF Begin, OpenTxnModal, ModalInv, ModalTypeOK
    <2> QED BY <1>1, <2>1 DEF Busy, InFlight
  <1>4. Alone'
    BY <1>2, <1>3 DEF Alone
  <1>5. CASE OpenTxnModal(t)
    BY <1>1, <1>2, <1>4, <1>5, OpenKeeps
  <1>6. CASE caller' = [caller EXCEPT ![t] = "building"] /\ UNCHANGED modal
    <2>1. /\ caller'[t] = "building" /\ \A u \in Txn \ {t} : caller'[u] = caller[u]
          /\ caller' \in [Txn -> CallerStates]
      BY <1>6 DEF ModalInv, ModalTypeOK, CallerStates
    <2>2. ModalTypeOK'
      BY <1>1, <1>2, <1>6, <2>1 DEF ModalInv, ModalTypeOK
    <2>3. Held'
      BY <1>1, <1>6, <2>1 DEF ModalInv, ModalTypeOK, Held, Past, Flight
    <2>4. Own'
      BY <1>2, <1>6, <2>1 DEF ModalInv, Own
    <2>5. Kinded' /\ RightAnswer'
      <3>1. \A f \in flights : f.tx \in Txn /\ f.file \in Txn
        BY DEF ModalInv, ModalTypeOK, Flight
      <3>2. Kinded'
        BY <1>1, <1>2, <3>1 DEF ModalInv, Kinded
      <3>3. RightAnswer'
        BY <1>1, <1>2, <2>1 DEF ModalInv, RightAnswer
      <3> QED BY <3>2, <3>3
    <2>6. Flying'
      <3>1. \A u \in Txn : excused'[u] = {} => excused[u] = {}
        BY <1>2
      <3>2. \A u \in Txn : caller[u] \in {"pending", "resolved"} => caller'[u] = caller[u]
        BY <1>1, <2>1
      <3> QED BY <1>1, <3>1, <3>2, FlyingFrame
    <2> QED BY <1>4, <2>2, <2>3, <2>4, <2>5, <2>6 DEF ModalInv
  <1> QED BY <1>5, <1>6 DEF Begin

\* A caller that leaves the preparation without the modal leaves it closed, or
\* was not lone; one that gives up tells its caller.
LEMMA GiveUpKeeps ==
  ASSUME ModalInv, NEW t \in Txn, caller[t] \in {"building", "prepping"},
         caller' = [caller EXCEPT ![t] = "failed"],
         \/ caller[t] = "building" /\ modal' = modal
         \/ /\ caller[t] = "prepping"
            /\ modal' = [modal EXCEPT !.open = FALSE, !.prepping = FALSE, !.step = "initial"],
         UNCHANGED <<result, loading, fading, drafts, flights, submitted, excused>>
  PROVE  ModalInv'
  <1>1. /\ caller'[t] = "failed" /\ \A u \in Txn \ {t} : caller'[u] = caller[u]
        /\ caller' \in [Txn -> CallerStates]
    BY DEF ModalInv, ModalTypeOK, CallerStates
  <1>2. /\ modal' \in [open : BOOLEAN, prepping : BOOLEAN, holder : Txn \cup {NoTxn},
                       type : Kinds, step : {"initial", "download"}]
        /\ modal' = modal \/ (modal'.open = FALSE /\ modal'.step = "initial")
        /\ modal' # modal => caller[t] = "prepping"
        /\ caller[t] = "prepping" => ~ modal'.open
    <2>1. modal \in [open : BOOLEAN, prepping : BOOLEAN, holder : Txn \cup {NoTxn},
                     type : Kinds, step : {"initial", "download"}]
      BY DEF ModalInv, ModalTypeOK
    <2> QED BY <2>1
  <1>3. ModalTypeOK'
    BY <1>1, <1>2 DEF ModalInv, ModalTypeOK
  <1>4. Held'
    BY <1>1, <1>2 DEF ModalInv, ModalTypeOK, Held, Past, Flight
  <1>5. Busy' \subseteq Busy
    BY <1>1 DEF Busy, InFlight
  <1>6. Alone'
    BY <1>5, StillAlone
  <1>7. Own'
    <2> SUFFICES ASSUME NEW u \in Txn, "overlap" \notin excused[u],
                        caller'[u] \in {"prepping", "pending"}
                 PROVE  FALSE
      BY DEF Own
    <2>1. u # t /\ u \in Busy /\ t \in Busy
      BY <1>1 DEF Busy
    <2> QED BY <2>1, OnlyOne
  <1>8. Kinded' /\ RightAnswer'
    BY <1>1 DEF ModalInv, ModalTypeOK, Kinded, RightAnswer, Flight
  <1>9. Flying'
    <2>1. \A u \in Txn : caller[u] \in {"pending", "resolved"} => caller'[u] = caller[u]
      BY <1>1
    <2> QED BY <2>1, FlyingFrame
  <1> QED BY <1>3, <1>4, <1>6, <1>7, <1>8, <1>9 DEF ModalInv

\* The promise is made.
LEMMA PreparedKeeps ==
  ASSUME ModalInv, NEW t \in Txn, Prepared(t)
  PROVE  ModalInv'
  <1>1. /\ caller[t] = "prepping" /\ UNCHANGED <<result, loading, fading, drafts, flights, submitted, excused>>
        /\ caller'[t] = "pending" /\ \A u \in Txn \ {t} : caller'[u] = caller[u]
        /\ caller' \in [Txn -> CallerStates]
    BY DEF Prepared, ModalInv, ModalTypeOK, CallerStates
  <1>2. /\ modal'.open = modal.open /\ modal'.prepping = FALSE /\ modal'.holder = t
        /\ modal'.type = modal.type /\ modal'.step = modal.step
        /\ modal' \in [open : BOOLEAN, prepping : BOOLEAN, holder : Txn \cup {NoTxn},
                       type : Kinds, step : {"initial", "download"}]
    BY DEF Prepared, ModalInv, ModalTypeOK
  <1>3. ModalTypeOK'
    BY <1>1, <1>2 DEF ModalInv, ModalTypeOK
  <1>4. Held'
    BY <1>1, <1>2 DEF ModalInv, ModalTypeOK, Held, Past, Flight
  <1>5. Busy' \subseteq Busy /\ t \in Busy
    BY <1>1 DEF Busy, InFlight
  <1>6. Alone'
    BY <1>1, <1>5, StillAlone
  <1>7. Own'
    <2> SUFFICES ASSUME NEW u \in Txn, "overlap" \notin excused[u],
                        caller'[u] \in {"prepping", "pending"}
                 PROVE  u = t /\ modal.open /\ modal.type = Kind[t]
      BY <1>1, <1>2 DEF Own
    <2>1. u \in Busy
      BY <1>1 DEF Busy
    <2>2. u = t
      BY <1>5, <2>1, OnlyOne
    <2> QED BY <1>1, <2>2 DEF ModalInv, Own
  <1>8. Kinded' /\ RightAnswer'
    BY <1>1 DEF ModalInv, ModalTypeOK, Kinded, RightAnswer, Flight
  <1>9. Flying'
    <2>1. \A u \in Txn : caller[u] \in {"pending", "resolved"} => caller'[u] = caller[u]
      BY <1>1
    <2> QED BY <1>1, <2>1, FlyingFrame
  <1> QED BY <1>3, <1>4, <1>6, <1>7, <1>8, <1>9 DEF ModalInv

-----------------------------------------------------------------------------
\* The modal is closed and the caller h told: no lone caller is left behind,
\* and no answer that is still to come.
LEMMA CloseKeeps ==
  ASSUME ModalInv, NEW h \in Txn, h \in Busy, caller[h] \in Past, CloseTxnModal(h),
         \A t \in InFlight : excused'[t] # {},
         fading' \in {fading, NoTxn}, UNCHANGED <<result, drafts, flights, submitted>>,
         \A t \in Txn : /\ excused[t] \subseteq excused'[t]
                        /\ "overlap" \in excused'[t] => "overlap" \in excused[t],
         excused' \in [Txn -> SUBSET {"overlap", "raced", "lost", "swapped"}]
  PROVE  ModalInv'
  <1>1. /\ \A t \in Txn : caller'[t] = IF t = h /\ caller[h] = "pending" THEN "cancelled" ELSE caller[t]
        /\ caller' \in [Txn -> CallerStates] /\ modal' = Closed /\ loading' = FALSE
    BY DEF CloseTxnModal, Settled, ModalInv, ModalTypeOK, CallerStates
  <1>2. ModalTypeOK'
    BY <1>1 DEF ModalInv, ModalTypeOK, Closed, Kinds
  <1>3. Held'
    BY <1>1 DEF ModalInv, ModalTypeOK, Held, Past, Flight, Closed
  <1>4. Busy' \subseteq Busy
    BY <1>1 DEF Busy, InFlight
  <1>5. Alone'
    BY <1>4, StillAlone
  <1>6. Own'
    <2> SUFFICES ASSUME NEW u \in Txn, "overlap" \notin excused'[u],
                        caller'[u] \in {"prepping", "pending"}
                 PROVE  FALSE
      BY DEF Own
    <2>1. caller[u] = caller'[u] /\ "overlap" \notin excused[u] /\ u \in Busy
      BY <1>1 DEF Busy
    <2>2. u = h
      BY <2>1, OnlyOne
    <2> QED BY <1>1, <2>1, <2>2 DEF Past
  <1>7. Kinded' /\ RightAnswer'
    BY <1>1 DEF ModalInv, ModalTypeOK, Kinded, RightAnswer, Flight
  <1>8. Flying'
    <2>1. InFlight' = InFlight
      BY DEF InFlight
    <2>2. ASSUME NEW u \in Txn, excused'[u] = {}
          PROVE  /\ u \notin InFlight
                 /\ u \in submitted => caller'[u] = "resolved"
      <3>1. u \notin InFlight /\ excused[u] = {}
        BY <2>2
      <3>2. \A f \in flights : f.tx # u
        BY <3>1 DEF InFlight
      <3> QED BY <1>1, <3>1, <3>2 DEF ModalInv, Flying
    <2> QED BY <2>1, <2>2 DEF Flying, InFlight
  <1> QED BY <1>2, <1>3, <1>5, <1>6, <1>7, <1>8 DEF ModalInv

\* The buttons that close the modal wait for the answer; the countdown marks
\* what it interrupts.
LEMMA ClosingKeeps ==
  ASSUME ModalInv, Cancel \/ FadeEnds \/ CountdownEnds
  PROVE  ModalInv'
  <1>1. CASE Cancel
    <2> DEFINE h == modal.holder
    <2>1. /\ h \in Txn /\ caller[h] = "pending" /\ ~ loading
          /\ UNCHANGED <<result, fading, drafts, flights, submitted, excused>> /\ CloseTxnModal(h)
      BY <1>1 DEF Cancel, Clickable, ModalInv, ModalTypeOK, Held
    <2>2. h \in Busy /\ caller[h] \in Past
      BY <2>1 DEF Busy, Past
    <2>3. \A t \in InFlight : t \in Txn /\ excused[t] # {}
      BY <2>1 DEF ModalInv, ModalTypeOK, Flying, InFlight, Flight
    <2>4. excused' \in [Txn -> SUBSET {"overlap", "raced", "lost", "swapped"}]
      BY <2>1 DEF ModalInv, ModalTypeOK
    <2> HIDE DEF h
    <2> QED BY <2>1, <2>2, <2>3, <2>4, CloseKeeps
  <1>2. CASE FadeEnds
    <2>1. /\ fading \in Txn /\ fading' = NoTxn /\ CloseTxnModal(fading)
          /\ UNCHANGED <<result, drafts, flights, submitted, excused>>
      BY <1>2 DEF FadeEnds, ModalInv, ModalTypeOK
    <2>2. fading \in Busy /\ caller[fading] \in Past
      BY <2>1 DEF Busy, ModalInv, Held
    <2>3. ASSUME NEW t \in InFlight PROVE excused[t] # {}
      <3>1. t \in Busy /\ t \in Txn
        BY DEF Busy, InFlight, ModalInv, ModalTypeOK, Flight
      <3>2. excused[t] = {} => fading = t
        BY <2>2, <3>1, OnlyOne
      <3> QED BY <3>1, <3>2 DEF ModalInv, Flying
    <2>4. excused' \in [Txn -> SUBSET {"overlap", "raced", "lost", "swapped"}]
      BY <2>1 DEF ModalInv, ModalTypeOK
    <2> QED BY <2>1, <2>2, <2>3, <2>4, CloseKeeps
  <1>3. CASE CountdownEnds
    <2> DEFINE h == modal.holder
    <2>1. /\ modal.open /\ modal.step = "download" /\ CloseTxnModal(h)
          /\ excused' = Excuse(InFlight, "raced") /\ UNCHANGED <<result, fading, drafts, flights, submitted>>
      BY <1>3 DEF CountdownEnds
    <2>2. InFlight \subseteq Txn
      BY DEF InFlight, ModalInv, ModalTypeOK, Flight
    <2>4. h \in Txn /\ h \in Busy /\ caller[h] \in Past
      BY <2>1 DEF ModalInv, Held, Busy, Past
    <2>3. /\ excused' \in [Txn -> SUBSET {"overlap", "raced", "lost", "swapped"}]
          /\ \A t \in Txn : /\ excused[t] \subseteq excused'[t]
                            /\ "overlap" \in excused'[t] => "overlap" \in excused[t]
          /\ \A t \in InFlight : excused'[t] # {}
      BY <2>1, <2>2 DEF Excuse, ModalInv, ModalTypeOK
    <2> HIDE DEF h
    <2> QED BY <2>1, <2>3, <2>4, CloseKeeps
  <1> QED BY <1>1, <1>2, <1>3

-----------------------------------------------------------------------------
\* A step that changes neither a caller nor the modal, nor what was submitted,
\* and marks no overlap.
LEMMA QuietKeeps ==
  ASSUME ModalInv, UNCHANGED <<caller, result, submitted>>, drafts' \subseteq Txn,
         excused' \in [Txn -> SUBSET {"overlap", "raced", "lost", "swapped"}],
         \A t \in Txn : /\ excused[t] \subseteq excused'[t]
                        /\ "overlap" \in excused'[t] => "overlap" \in excused[t],
         modal' \in [open : BOOLEAN, prepping : BOOLEAN, holder : Txn \cup {NoTxn},
                    type : Kinds, step : {"initial", "download"}],
         /\ modal'.open = modal.open /\ modal'.prepping = modal.prepping
         /\ modal'.holder = modal.holder /\ modal'.type = modal.type,
         modal' # modal => modal.open /\ ~ modal.prepping,
         loading' \in BOOLEAN, flights' \subseteq Flight, fading' \in Txn \cup {NoTxn},
         \A f \in flights' : f \in flights \/ (caller[f.tx] = "pending" /\ f.stage = "signing"),
         fading' # NoTxn => caller[fading'] = "pending" \/ fading' = fading,
         Kinded', Flying'
  PROVE  ModalInv'
  <1>1. ModalTypeOK'
    BY DEF ModalInv, ModalTypeOK
  <1>2. Held'
    <2>1. modal'.open /\ ~ modal'.prepping => caller'[modal'.holder] = "pending"
      BY DEF ModalInv, Held
    <2>2. /\ modal'.open /\ modal'.prepping => \E t \in Txn : caller'[t] = "prepping"
          /\ ~ modal'.open => modal'.step = "initial"
      BY DEF ModalInv, Held
    <2>3. modal'.step = "download" => modal'.holder \in Txn /\ caller'[modal'.holder] = "pending"
      BY DEF ModalInv, ModalTypeOK, Held
    <2>4. fading' # NoTxn => caller'[fading'] \in Past
      BY DEF ModalInv, Held, Past
    <2>5. \A f \in flights' : caller'[f.tx] \in Past
      BY DEF ModalInv, Held, Past
    <2> QED BY <2>1, <2>2, <2>3, <2>4, <2>5 DEF Held
  <1>3. Busy' \subseteq Busy
    <2>1. \A t \in Txn : t \in InFlight' => t \in InFlight \/ caller[t] = "pending"
      BY DEF InFlight
    <2>2. fading' # NoTxn => fading' = fading \/ caller[fading'] = "pending"
      OBVIOUS
    <2> QED BY <2>1, <2>2 DEF Busy
  <1>4. Alone'
    BY <1>3, StillAlone
  <1>5. Own'
    <2> SUFFICES ASSUME NEW u \in Txn, "overlap" \notin excused[u]
                 PROVE  /\ caller[u] = "prepping" => /\ modal'.open /\ modal'.prepping
                                 /\ modal'.step = "initial" /\ modal'.type = Kind[u]
                        /\ caller[u] = "pending"  => /\ modal'.open /\ ~ modal'.prepping
                                 /\ modal'.holder = u /\ modal'.type = Kind[u]
      BY DEF Own
    <2> QED BY DEF ModalInv, Own
  <1>6. RightAnswer'
    BY DEF ModalInv, RightAnswer
  <1> QED BY <1>1, <1>2, <1>4, <1>5, <1>6 DEF ModalInv

\* The close icon and the download do nothing while an answer is awaited.
LEMMA ClickKeeps ==
  ASSUME ModalInv, ClickCloseIcon \/ Download
  PROVE  ModalInv'
  <1>1. /\ modal.open /\ ~ modal.prepping /\ fading = NoTxn /\ ~ loading
        /\ modal.holder \in Txn /\ caller[modal.holder] = "pending"
        /\ UNCHANGED <<caller, result, loading, flights, submitted, excused>>
        /\ fading' \in {fading, modal.holder} /\ drafts' \subseteq drafts \cup {modal.holder}
    BY DEF ClickCloseIcon, Download, Clickable, ModalInv, ModalTypeOK, Held
  <1>2. /\ modal' \in [open : BOOLEAN, prepping : BOOLEAN, holder : Txn \cup {NoTxn},
                       type : Kinds, step : {"initial", "download"}]
        /\ modal'.open = modal.open /\ modal'.prepping = modal.prepping
        /\ modal'.holder = modal.holder /\ modal'.type = modal.type
    BY DEF ClickCloseIcon, Download, ModalInv, ModalTypeOK
  <1>3. Kinded'
    BY <1>1 DEF ModalInv, Kinded
  <1>4. Flying'
    <2>1. InFlight' = InFlight
      BY <1>1 DEF InFlight
    <2>2. \A u \in Txn : excused[u] = {} => u \notin InFlight
      BY <1>1 DEF ModalInv, Flying
    <2>3. ASSUME NEW u \in Txn, excused'[u] = {}
          PROVE  /\ \A f, g \in flights' : f.tx = u /\ g.tx = u => f = g
                 /\ u \in submitted' => \/ caller'[u] = "resolved"
                                        \/ \E f \in flights' : f.tx = u /\ f.stage = "accepted"
      BY <1>1, <2>3 DEF ModalInv, Flying
    <2> QED BY <1>1, <2>1, <2>2, <2>3 DEF Flying
  <1>5. /\ flights' \subseteq Flight /\ loading' \in BOOLEAN /\ drafts' \subseteq Txn
        /\ excused' \in [Txn -> SUBSET {"overlap", "raced", "lost", "swapped"}]
    BY <1>1 DEF ModalInv, ModalTypeOK
  <1> QED BY <1>1, <1>2, <1>3, <1>4, <1>5, QuietKeeps

\* A signature is asked for.
LEMMA LaunchKeeps ==
  ASSUME ModalInv, WalletSign \/ \E file \in drafts : SubmitSignedFile(file)
  PROVE  ModalInv'
  <1> DEFINE h == modal.holder
  <1>0. h \in Txn /\ caller[h] = "pending"
    BY DEF WalletSign, SubmitSignedFile, Launch, Clickable, ModalInv, ModalTypeOK, Held
  <1>1. PICK c \in Txn, k \in {Kind[h], modal.type} :
          /\ Launch(c, k)
          /\ excused' = IF c = h THEN excused ELSE Excuse({c, h}, "swapped")
    <2>1. CASE WalletSign
      BY <1>0, <2>1 DEF WalletSign
    <2>2. CASE \E file \in drafts : SubmitSignedFile(file)
      BY <2>2 DEF SubmitSignedFile, ModalInv, ModalTypeOK
    <2> QED BY <2>1, <2>2
  <1> DEFINE n == [tx |-> h, file |-> c, kind |-> k, stage |-> "signing"]
  <1>2. /\ modal.open /\ ~ modal.prepping /\ fading = NoTxn /\ ~ loading
        /\ h \in Txn /\ caller[h] = "pending" /\ loading' = TRUE /\ flights' = flights \cup {n}
        /\ UNCHANGED <<caller, result, modal, fading, drafts, submitted>>
    BY <1>0, <1>1 DEF Launch, Clickable
  <1>3. k \in Kinds /\ (k = Kind[h] \/ "overlap" \in excused[h])
    BY <1>2 DEF ModalInv, ModalTypeOK, Own
  <1>4. n \in Flight
    BY <1>2, <1>3 DEF Flight
  <1>5. n.tx = h /\ n.file = c /\ n.kind = k /\ n.stage = "signing"
    OBVIOUS
  <1>10. /\ excused' \in [Txn -> SUBSET {"overlap", "raced", "lost", "swapped"}]
         /\ \A t \in Txn : /\ excused[t] \subseteq excused'[t]
                           /\ "overlap" \in excused'[t] => "overlap" \in excused[t]
         /\ c = h \/ ("swapped" \in excused'[h] /\ "swapped" \in excused'[c])
    <2>1. excused \in [Txn -> SUBSET {"overlap", "raced", "lost", "swapped"}]
      BY DEF ModalInv, ModalTypeOK
    <2>2. CASE c = h
      BY <1>1, <2>1, <2>2
    <2>3. CASE c # h
      <3>1. excused' = [t \in Txn |-> IF t \in {c, h} THEN excused[t] \cup {"swapped"}
                                     ELSE excused[t]]
        BY <1>1, <2>3 DEF Excuse
      <3> QED BY <1>0, <2>1, <3>1
    <2> QED BY <2>2, <2>3
  <1> HIDE DEF h, n
  <1>6. Kinded'
    <2>1. \A f \in flights : f.tx \in Txn /\ f.file \in Txn
      BY DEF ModalInv, ModalTypeOK, Flight
    <2>2. \A f \in flights' : f = n \/ f \in flights
      BY <1>2
    <2> QED BY <1>2, <1>3, <1>5, <1>10, <2>1, <2>2 DEF ModalInv, Kinded
  <1>7. \A u \in Txn : excused[u] = {} => u \notin InFlight
    BY <1>2 DEF ModalInv, Flying
  <1>8. Flying'
    <2> SUFFICES ASSUME NEW u \in Txn, excused'[u] = {}
                 PROVE  /\ u \in InFlight' => caller'[u] = "pending" /\ loading' /\ fading' # u
                        /\ \A f, g \in flights' : f.tx = u /\ g.tx = u => f = g
                        /\ u \in submitted' => \/ caller'[u] = "resolved"
                                               \/ \E f \in flights' : f.tx = u /\ f.stage = "accepted"
      BY DEF Flying
    <2>0. excused[u] = {}
      BY <1>10
    <2>1. \A f \in flights : f.tx # u
      BY <1>2, <1>7, <2>0 DEF InFlight
    <2>2. \A f \in flights' : f.tx = u => f = n /\ u = h
      BY <1>2, <1>5, <2>1
    <2>3. u \in InFlight' => u = h
      BY <2>2 DEF InFlight
    <2>4. u \in submitted => caller[u] = "resolved"
      BY <1>2, <2>0, <2>1 DEF ModalInv, Flying
    <2> QED BY <1>2, <2>2, <2>3, <2>4
  <1>9. /\ flights' \subseteq Flight /\ loading' \in BOOLEAN /\ drafts' \subseteq Txn
        /\ modal \in [open : BOOLEAN, prepping : BOOLEAN, holder : Txn \cup {NoTxn},
                      type : Kinds, step : {"initial", "download"}]
    BY <1>2, <1>4 DEF ModalInv, ModalTypeOK
  <1> QED BY <1>2, <1>5, <1>6, <1>8, <1>9, <1>10, QuietKeeps

-----------------------------------------------------------------------------
\* A lone transaction in flight is the only one, and in flight once.
LEMMA LoneFlight ==
  ASSUME ModalInv, NEW f \in flights, NEW t \in Txn, t \in Busy,
         "overlap" \notin excused[t]
  PROVE  /\ f.tx = t
         /\ excused[t] = {} => /\ \A g \in flights : g = f
                               /\ caller[t] = "pending" /\ loading /\ fading # t
  <1>1. f \in Flight /\ f.tx \in Txn
    BY DEF ModalInv, ModalTypeOK, Flight
  <1>2. f.tx \in InFlight /\ f.tx \in Busy
    BY <1>1 DEF InFlight, Busy
  <1>3. f.tx = t
    BY <1>2, OnlyOne
  <1>4. \A g \in flights : g.tx = t
    <2>1. \A g \in flights : g.tx \in Busy
      BY DEF InFlight, Busy, ModalInv, ModalTypeOK, Flight
    <2> QED BY <2>1, OnlyOne
  <1> QED BY <1>2, <1>3, <1>4 DEF ModalInv, Flying

\* An attempt fails: whoever had only that one may try again.
LEMMA ErrsKeeps ==
  ASSUME ModalInv, NEW f \in flights, SigningFails(f) \/ SubmissionRefused(f) \/ AnswerLost(f)
  PROVE  ModalInv'
  <1>1. /\ flights' = flights \ {f} /\ loading' = FALSE
        /\ UNCHANGED <<caller, result, modal, fading, drafts, submitted>>
        /\ f.tx \in Txn /\ f.file \in Txn
    BY DEF SigningFails, SubmissionRefused, AnswerLost, Errs, ModalInv, ModalTypeOK, Flight
  <1>2. /\ excused' \in [Txn -> SUBSET {"overlap", "raced", "lost", "swapped"}]
        /\ \A t \in Txn : /\ excused[t] \subseteq excused'[t]
                          /\ "overlap" \in excused'[t] => "overlap" \in excused[t]
        /\ f.stage = "accepted" => excused'[f.file] # {}
    <2>1. excused \in [Txn -> SUBSET {"overlap", "raced", "lost", "swapped"}]
      BY DEF ModalInv, ModalTypeOK
    <2>2. CASE SigningFails(f) \/ SubmissionRefused(f)
      BY <2>1, <2>2 DEF SigningFails, SubmissionRefused
    <2>3. CASE AnswerLost(f)
      <3>1. excused' = [t \in Txn |-> IF t \in {f.file} THEN excused[t] \cup {"lost"}
                                     ELSE excused[t]]
        BY <2>3 DEF AnswerLost, Excuse
      <3> QED BY <1>1, <2>1, <3>1
    <2> QED BY <2>2, <2>3
  <1>3. ModalTypeOK'
    BY <1>1, <1>2 DEF ModalInv, ModalTypeOK
  <1>4. Held' /\ Kinded' /\ RightAnswer'
    <2>1. Held'
      BY <1>1 DEF ModalInv, Held
    <2>2. \A g \in flights' : g \in flights /\ g.tx \in Txn /\ g.file \in Txn
      BY <1>1 DEF ModalInv, ModalTypeOK, Flight
    <2>3. Kinded'
      BY <1>1, <1>2, <2>2 DEF ModalInv, Kinded
    <2>4. RightAnswer'
      BY <1>1, <1>2 DEF ModalInv, RightAnswer
    <2> QED BY <2>1, <2>3, <2>4
  <1>5. Busy' \subseteq Busy
    BY <1>1 DEF Busy, InFlight
  <1>6. Alone'
    BY <1>2, <1>5, StillAlone
  <1>7. Own'
    BY <1>1, <1>2 DEF ModalInv, Own
  <1>8. Flying'
    <2> SUFFICES ASSUME NEW u \in Txn, excused'[u] = {}
                 PROVE  /\ u \notin InFlight'
                        /\ u \in submitted => \/ caller[u] = "resolved"
                                              \/ \E g \in flights' : g.tx = u /\ g.stage = "accepted"
      BY <1>1 DEF Flying, InFlight
    <2>1. excused[u] = {}
      BY <1>2
    <2>2. u \notin InFlight'
      <3> SUFFICES ASSUME NEW g \in flights', g.tx = u PROVE FALSE
        BY DEF InFlight
      <3>1. g \in flights /\ g # f
        BY <1>1
      <3>2. u \in Busy
        BY <3>1 DEF Busy, InFlight
      <3> QED BY <2>1, <3>1, <3>2, LoneFlight
    <2>3. ASSUME u \in submitted, caller[u] # "resolved" PROVE FALSE
      <3>1. PICK g \in flights : g.tx = u /\ g.stage = "accepted"
        BY <2>1, <2>3 DEF ModalInv, Flying
      <3>2. u \in Busy
        BY <3>1 DEF Busy, InFlight
      <3>3. g = f
        BY <2>1, <3>1, <3>2, LoneFlight
      <3>4. f.file = u
        BY <2>1, <3>1, <3>3 DEF ModalInv, Kinded
      <3> QED BY <1>2, <3>1, <3>3, <3>4
    <2> QED BY <2>2, <2>3
  <1> QED BY <1>3, <1>4, <1>6, <1>7, <1>8 DEF ModalInv

\* The answer reaches the caller the promise was taken from.
LEMMA ResolveKeeps ==
  ASSUME ModalInv, NEW f \in flights, Resolve(f), UNCHANGED <<drafts, submitted, excused>>,
         Kind[f.tx] = "submit" => f.file \in submitted \/ "overlap" \in excused[f.tx]
  PROVE  ModalInv'
  <1>1. /\ f.tx \in Txn /\ f.file \in Txn /\ modal' = Closed /\ loading' = FALSE /\ flights' = flights \ {f}
        /\ fading' = fading
        /\ \A t \in Txn : /\ caller'[t] = IF t = f.tx /\ caller[t] = "pending" THEN "resolved" ELSE caller[t]
                          /\ result'[t] = IF t = f.tx /\ caller[t] = "pending" THEN f.file ELSE result[t]
        /\ caller' \in [Txn -> CallerStates] /\ result' \in [Txn -> Txn \cup {NoTxn}]
    BY DEF Resolve, Settled, ModalInv, ModalTypeOK, Flight, CallerStates
  <1>2. ModalTypeOK'
    BY <1>1 DEF ModalInv, ModalTypeOK, Closed, Kinds
  <1>3. Held'
    BY <1>1 DEF ModalInv, ModalTypeOK, Held, Past, Flight, Closed
  <1>4. Busy' \subseteq Busy
    BY <1>1 DEF Busy, InFlight
  <1>5. Alone'
    BY <1>4, StillAlone
  <1>6. Own'
    <2> SUFFICES ASSUME NEW u \in Txn, "overlap" \notin excused[u],
                        caller'[u] \in {"prepping", "pending"}
                 PROVE  FALSE
      BY DEF Own
    <2>1. caller[u] = caller'[u] /\ u \in Busy
      BY <1>1 DEF Busy
    <2>2. u = f.tx
      BY <2>1, LoneFlight
    <2> QED BY <1>1, <2>1, <2>2 DEF ModalInv, Held, Past
  <1>7. Kinded'
    BY <1>1 DEF ModalInv, Kinded
  <1>8. RightAnswer'
    <2>1. f.file = f.tx \/ "swapped" \in excused[f.tx]
      BY DEF ModalInv, Kinded
    <2> QED BY <1>1, <2>1 DEF ModalInv, RightAnswer
  <1>9. Flying'
    <2> SUFFICES ASSUME NEW u \in Txn, excused[u] = {}
                 PROVE  u \notin InFlight' /\ (u \in submitted => caller'[u] = "resolved")
      BY <1>1 DEF Flying, InFlight
    <2>1. ASSUME NEW g \in flights, g.tx = u PROVE g = f /\ caller'[u] = "resolved"
      <3>1. u \in Busy
        BY <2>1 DEF Busy, InFlight
      <3> QED BY <1>1, <2>1, <3>1, LoneFlight
    <2> QED BY <1>1, <2>1 DEF ModalInv, Flying, InFlight
  <1> QED BY <1>2, <1>3, <1>5, <1>6, <1>7, <1>8, <1>9 DEF ModalInv

\* A flight goes on to its next stage.
LEMMA StageKeeps ==
  ASSUME ModalInv, NEW f \in flights, NEW s \in {"submitting", "accepted"},
         f.stage # "accepted",
         flights' = (flights \ {f}) \cup {[f EXCEPT !.stage = s]},
         UNCHANGED <<caller, result, modal, loading, fading, excused>>,
         drafts' = drafts,
         submitted' = IF s = "accepted" THEN submitted \cup {f.file} ELSE submitted
  PROVE  ModalInv'
  <1> DEFINE n == [f EXCEPT !.stage = s]
  <1>1. f \in Flight /\ f.tx \in Txn /\ f.file \in Txn
    BY DEF ModalInv, ModalTypeOK, Flight
  <1>2. n \in Flight /\ n.tx = f.tx /\ n.file = f.file /\ n.kind = f.kind /\ n.stage = s
    BY <1>1 DEF Flight
  <1>3. flights' = (flights \ {f}) \cup {n}
    OBVIOUS
  <1> HIDE DEF n
  <1>4. ModalTypeOK'
    BY <1>1, <1>2, <1>3 DEF ModalInv, ModalTypeOK
  <1>5. Held' /\ Kinded' /\ RightAnswer'
    BY <1>1, <1>2, <1>3 DEF ModalInv, Held, Kinded, RightAnswer
  <1>6. InFlight' = InFlight
    BY <1>2, <1>3 DEF InFlight
  <1>7. Busy' \subseteq Busy
    BY <1>6 DEF Busy
  <1>8. Alone' /\ Own'
    BY <1>7, StillAlone DEF ModalInv, Own
  <1>9. Flying'
    <2> SUFFICES ASSUME NEW u \in Txn, excused[u] = {}
                 PROVE  /\ u \in InFlight => caller[u] = "pending" /\ loading /\ fading # u
                        /\ \A g, h \in flights' : g.tx = u /\ h.tx = u => g = h
                        /\ u \in submitted' => \/ caller[u] = "resolved"
                                               \/ \E g \in flights' : g.tx = u /\ g.stage = "accepted"
      BY <1>6 DEF Flying
    <2>1. CASE f.tx = u
      <3>1. \A g \in flights : g = f
        <4>1. u \in Busy
          BY <2>1 DEF Busy, InFlight
        <4> QED BY <4>1, LoneFlight
      <3>2. flights' = {n} /\ ~ \E g \in flights : g.stage = "accepted"
        BY <1>3, <3>1
      <3> QED BY <1>2, <2>1, <3>2 DEF ModalInv, Flying
    <2>2. CASE f.tx # u
      <3>0. f.file # u
        BY <2>2 DEF ModalInv, Kinded
      <3>1. \A g \in flights' : g.tx = u <=> g \in flights /\ g.tx = u
        BY <1>2, <1>3, <2>2
      <3>2. \A g \in flights : g.tx = u => g \in flights'
        BY <1>3, <2>2
      <3> QED BY <2>2, <3>0, <3>1, <3>2 DEF ModalInv, Flying
    <2> QED BY <2>1, <2>2
  <1> QED BY <1>4, <1>5, <1>8, <1>9 DEF ModalInv

\* Every step keeps the invariant.
LEMMA ModalStep == ModalInv /\ [ModalNext]_modalVars => ModalInv'
  <1> SUFFICES ASSUME ModalInv, [ModalNext]_modalVars PROVE ModalInv'
    OBVIOUS
  <1>1. ASSUME NEW t \in Txn, BuilderReady(t) PROVE ModalInv'
    <2>1. /\ caller[t] = "building" /\ UNCHANGED <<result, loading, fading, drafts, flights, submitted, excused>>
          /\ OpenTxnModal(t) \/ (caller' = [caller EXCEPT ![t] = "failed"] /\ modal' = modal)
      BY <1>1 DEF BuilderReady
    <2>2. CASE OpenTxnModal(t)
      <3>1. Busy' \subseteq Busy
        BY <2>1, <2>2 DEF Busy, InFlight, OpenTxnModal, ModalInv, ModalTypeOK
      <3>2. Alone' /\ excused' \in [Txn -> SUBSET {"overlap", "raced", "lost", "swapped"}]
        BY <2>1, <3>1, StillAlone DEF ModalInv, ModalTypeOK
      <3> QED BY <2>1, <2>2, <3>2, OpenKeeps
    <2> QED BY <2>1, <2>2, GiveUpKeeps
  <1>2. ASSUME NEW t \in Txn, PreparationFails(t) PROVE ModalInv'
    BY <1>2, GiveUpKeeps DEF PreparationFails
  <1>3. ASSUME NEW f \in flights, Signed(f) PROVE ModalInv'
    <2>1. CASE f.kind \in Login
      <3>1. Kind[f.tx] = "submit" => "overlap" \in excused[f.tx]
        BY <2>1 DEF ModalInv, Kinded, Login
      <3> QED BY <1>3, <2>1, <3>1, ResolveKeeps DEF Signed
    <2>2. CASE f.kind \notin Login
      <3>1. f.stage # "accepted"
        BY <1>3 DEF Signed
      <3> QED BY <1>3, <2>2, <3>1, StageKeeps DEF Signed
    <2> QED BY <2>1, <2>2
  <1>4. ASSUME NEW f \in flights, Accepted(f) PROVE ModalInv'
    BY <1>4, StageKeeps DEF Accepted
  <1>5. ASSUME NEW f \in flights, HashArrives(f) PROVE ModalInv'
    <2>1. f.file \in submitted
      BY <1>5 DEF HashArrives, ModalInv, Kinded
    <2> QED BY <1>5, <2>1, ResolveKeeps DEF HashArrives
  <1>6. CASE UNCHANGED modalVars
    BY <1>6 DEF modalVars, ModalInv, ModalTypeOK, Held, Alone, Own, Kinded, Flying,
                RightAnswer, Busy, InFlight
  <1> QED BY <1>1, <1>2, <1>3, <1>4, <1>5, <1>6, BeginKeeps, PreparedKeeps, ClosingKeeps,
             ClickKeeps, LaunchKeeps, ErrsKeeps
          DEF ModalNext

\* The invariant holds throughout.
LEMMA ModalAlways == ModalSpec => []ModalInv
  BY ModalFirst, ModalStep, PTL DEF ModalSpec

\* A promise of useTransactionHandler is resolved with the result of its own
\* transaction, or of the one whose file was handed in for it; and one for a
\* transaction to submit with the hash of one the network accepted, unless
\* another caller changed the modal's type meanwhile.  For any number of
\* callers that open, close and overlap.
THEOREM Answers == ModalSpec => []RightAnswer
  <1>1. ModalInv => RightAnswer
    BY DEF ModalInv
  <1> QED BY <1>1, ModalAlways, PTL

\* A caller that waits, and that no other transaction met, has the modal in
\* front of it in which it can be answered.
THEOREM NobodyLeftWaiting == ModalSpec => []CallersAnswered
  <1>1. ModalInv => CallersAnswered
    BY DEF ModalInv, Own, CallersAnswered
  <1> QED BY <1>1, ModalAlways, PTL

\* No transaction that was submitted is reported as cancelled, unless its file
\* was handed in for another one, another one met it, the countdown ran out
\* under it or its answer was lost.
THEOREM CancelIsHonest == ModalSpec => []NoFalseCancel
  <1>1. ModalInv => NoFalseCancel
    <2> SUFFICES ASSUME ModalInv, NEW t \in submitted, caller[t] = "cancelled", excused[t] = {}
                 PROVE  FALSE
      BY DEF NoFalseCancel
    <2>1. t \in Txn
      BY DEF ModalInv, ModalTypeOK
    <2>2. PICK f \in flights : f.tx = t
      BY <2>1 DEF ModalInv, Flying
    <2>3. t \in InFlight
      BY <2>2 DEF InFlight
    <2> QED BY <2>1, <2>3 DEF ModalInv, Flying
  <1> QED BY <1>1, ModalAlways, PTL

-----------------------------------------------------------------------------
(***************************************************************************)
(* The session of the wallet.                                              *)
(***************************************************************************)
USE NobodyAssumption, StartsAssumption

\* What the stages of a reconnection or a login know.
Shaped ==
  \A f \in flows :
    /\ f.kind # "file" => f.wallet \in Wallet
    /\ f.silent => f.kind = "reconnect"
    /\ f.kind = "file" => f.stage = "wallet"
    /\ f.stage = "backend" => f.account \in Account

\* Unless two have overlapped, one is under way at most ...
One == "overlap" \notin apart => \A f, g \in flows : f = g

\* ... and the wallet it is about, once it has answered, is the one named in
\* the local storage; a reconnection is about that one from the start.
Named ==
  "overlap" \notin apart =>
    \A f \in flows : f.kind = "reconnect" \/ f.stage = "backend" => f.wallet = storage.name

\* Unless something has set them apart, a flow carries the account that is
\* selected in its wallet ...
Current ==
  apart = {} => \A f \in flows : f.stage = "backend" => f.account = selected[f.wallet]

Replacing == \E f \in flows : f.kind = "login" /\ f.stage = "backend"

\* ... and the stored token was issued to the account that is selected in the
\* stored wallet, unless a login is just about to replace both.
Owned ==
  apart = {} /\ storage.token # NoToken /\ ~ Replacing =>
    storage.name \in Wallet /\ selected[storage.name] = storage.token.owner

SessionInv ==
  /\ SessionTypeOK /\ Shaped /\ One /\ Named /\ Current /\ Owned
  /\ TokenMatchesAccount /\ LogoutHolds

-----------------------------------------------------------------------------
LEMMA InitSession == SessionInit => SessionInv
  <1> SUFFICES ASSUME SessionInit PROVE SessionInv
    OBVIOUS
  <1>1. SessionTypeOK
    <2>1. /\ Empty \in [provider : {Provider, Nobody}, name : Wallet \cup {Nobody},
                       token : Token \cup {NoToken}]
          /\ Idle \in [active : {Provider, Nobody}, account : Who]
          /\ SignedOut \in [in : BOOLEAN, account : Who, busy : BOOLEAN]
      BY DEF Empty, Idle, SignedOut, Who
    <2>2. [connected |-> FALSE, account |-> Nobody] \in [connected : BOOLEAN, account : Who]
      BY DEF Who
    <2>3. prompt \in BOOLEAN /\ loggedOut \in BOOLEAN /\ selected \in [Wallet -> Account]
      BY Zenon DEF SessionInit
    <2>4. storage = Empty /\ service = Idle /\ auth = SignedOut
          /\ card = [connected |-> FALSE, account |-> Nobody]
      BY DEF SessionInit
    <2>5. starts \in 0..MaxStarts /\ events \in 0..MaxEvents
      BY DEF SessionInit
    <2>6. flows \subseteq Flow /\ apart \subseteq {"overlap", "failed", "switched"}
      BY DEF SessionInit
    <2> QED BY <2>1, <2>2, <2>3, <2>4, <2>5, <2>6 DEF SessionTypeOK
  <1>2. Shaped /\ One /\ Named /\ Current
    BY DEF SessionInit, Shaped, One, Named, Current
  <1>3. Owned /\ TokenMatchesAccount /\ LogoutHolds
    BY DEF SessionInit, Owned, TokenMatchesAccount, LogoutHolds, Empty, SignedOut
  <1> QED BY <1>1, <1>2, <1>3 DEF SessionInv

\* The wallet state stays of its type through the refreshing effect.
LEMMA BecomeTyped ==
  ASSUME SessionTypeOK, NEW a \in [in : BOOLEAN, account : Who, busy : BOOLEAN], Become(a)
  PROVE  /\ auth' = a
         /\ auth' \in [in : BOOLEAN, account : Who, busy : BOOLEAN]
         /\ card' \in [connected : BOOLEAN, account : Who]
  <1>1. auth' = a
    BY DEF Become
  <1>2. CASE a.in /\ ~ a.busy /\ a.account # Nobody
    <2>1. card' = [connected |-> TRUE, account |-> a.account]
      BY <1>2 DEF Become
    <2> QED BY <1>1, <2>1
  <1>3. CASE ~ (a.in /\ ~ a.busy /\ a.account # Nobody)
    <2>1. card' = [card EXCEPT !.connected = a.in]
      BY <1>3 DEF Become
    <2> QED BY <1>1, <2>1 DEF SessionTypeOK
  <1> QED BY <1>2, <1>3

\* A new flow waits for its wallet.
LEMMA StartTyped ==
  ASSUME SessionTypeOK, NEW kind \in {"reconnect", "login", "file"},
         NEW w \in Wallet \cup {Nobody}, NEW silent \in BOOLEAN, Started
  PROVE  /\ Start(kind, w, silent) \in Flow
         /\ starts' \in 0..MaxStarts
         /\ Start(kind, w, silent).stage = "wallet"
         /\ Start(kind, w, silent).kind = kind
         /\ Start(kind, w, silent).wallet = w
         /\ Start(kind, w, silent).silent = silent
  <1>1. starts + 1 \in 1..MaxStarts /\ starts' \in 0..MaxStarts
    BY DEF Started, SessionTypeOK
  <1> QED BY <1>1 DEF Start, Flow, Who

\* What a step that starts, answers or ends no flow has to show.
LEMMA NoFlowMoves ==
  ASSUME SessionInv, UNCHANGED <<flows, selected, apart, storage>>
  PROVE  Shaped' /\ One' /\ Named' /\ Current' /\ Owned'
  BY DEF SessionInv, Shaped, One, Named, Current, Owned, Replacing

-----------------------------------------------------------------------------
LEMMA LoadKeeps ==
  ASSUME SessionInv, LoadPage
  PROVE  SessionInv'
  <1> DEFINE n == Start("reconnect", storage.name, storage.token.live)
             none == storage.provider = Nobody \/ storage.name = Nobody
  <1>1. /\ service' = Idle /\ auth' = SignedOut
        /\ card' = [connected |-> FALSE, account |-> Nobody] /\ prompt' = FALSE
        /\ flows' = IF none THEN {} ELSE {n}
        /\ UNCHANGED <<storage, selected, loggedOut, events>>
        /\ Started
    BY DEF LoadPage
  <1>2. /\ apart' \subseteq {"overlap", "failed", "switched"} /\ apart \subseteq apart'
        /\ "overlap" \in apart' => "overlap" \in apart
        /\ apart' = {} => ~ Replacing
    BY DEF LoadPage, SessionInv, SessionTypeOK, Replacing
  <1>3. /\ storage.name \in Wallet \cup {Nobody} /\ storage.token.live \in BOOLEAN
        /\ n.stage = "wallet" /\ n.kind = "reconnect" /\ n.wallet = storage.name /\ n \in Flow
        /\ starts' \in 0..MaxStarts
    <2>1. storage.name \in Wallet \cup {Nobody} /\ storage.token \in Token \cup {NoToken}
      BY DEF SessionInv, SessionTypeOK
    <2>2. storage.token.live \in BOOLEAN
      <3>1. CASE storage.token \in Token
        BY <3>1 DEF Token
      <3>2. CASE storage.token = NoToken
        <4>1. NoToken.live = FALSE
          BY DEF NoToken
        <4> QED BY <3>2, <4>1, Zenon
      <3> QED BY <2>1, <3>1, <3>2
    <2> QED BY <2>1, <2>2, <1>1, StartTyped DEF SessionInv
  <1> HIDE DEF n
  <1>4. SessionTypeOK'
    BY <1>1, <1>2, <1>3 DEF SessionInv, SessionTypeOK, Idle, SignedOut, Who
  <1>5. \A f \in flows' : f = n /\ storage.name \in Wallet
    BY <1>1, <1>3
  <1>6. Shaped' /\ One' /\ Named' /\ Current'
    BY <1>1, <1>3, <1>5 DEF Shaped, One, Named, Current
  <1>7. Owned'
    BY <1>1, <1>2 DEF SessionInv, Owned
  <1>8. TokenMatchesAccount'
    BY <1>1 DEF TokenMatchesAccount, SignedOut
  <1>9. LogoutHolds'
    BY <1>1 DEF SessionInv, LogoutHolds, SignedOut, Empty
  <1> QED BY <1>4, <1>6, <1>7, <1>8, <1>9 DEF SessionInv

LEMMA OpenLoginKeeps ==
  ASSUME SessionInv, OpenLogin
  PROVE  SessionInv'
  <1>1. SessionTypeOK'
    BY DEF OpenLogin, SessionInv, SessionTypeOK
  <1>2. TokenMatchesAccount' /\ LogoutHolds'
    BY DEF OpenLogin, SessionInv, TokenMatchesAccount, LogoutHolds
  <1> QED BY <1>1, <1>2, NoFlowMoves DEF OpenLogin, SessionInv

\* A login is begun, through a wallet or a file.
LEMMA ChooseKeeps ==
  ASSUME SessionInv, NEW kind \in {"login", "file"}, NEW w \in Wallet \cup {Nobody},
         kind = "login" => w \in Wallet, Started,
         flows' = flows \cup {Start(kind, w, FALSE)},
         Become([auth EXCEPT !.busy = TRUE]), apart' = Overlap, loggedOut' = FALSE,
         UNCHANGED <<storage, service, prompt, selected, events>>
  PROVE  SessionInv'
  <1> DEFINE n == Start(kind, w, FALSE)
  <1>1. /\ n \in Flow /\ n.stage = "wallet" /\ n.kind = kind /\ n.wallet = w /\ ~ n.silent
        /\ starts' \in 0..MaxStarts
    <2>1. starts + 1 \in 1..MaxStarts /\ starts' \in 0..MaxStarts
      BY DEF Started, SessionInv, SessionTypeOK
    <2> QED BY <2>1 DEF Start, Flow, Who
  <1>2. flows' = flows \cup {n}
    OBVIOUS
  <1> HIDE DEF n
  <1>3. /\ apart' \in SUBSET {"overlap", "failed", "switched"} /\ apart \subseteq apart'
        /\ "overlap" \notin apart' => flows = {}
    BY DEF Overlap, SessionInv, SessionTypeOK
  <1>4. /\ auth'.in = auth.in /\ auth'.account = auth.account
        /\ auth' \in [in : BOOLEAN, account : Who, busy : BOOLEAN]
        /\ card' \in [connected : BOOLEAN, account : Who]
    <2>1. [auth EXCEPT !.busy = TRUE] \in [in : BOOLEAN, account : Who, busy : BOOLEAN]
      BY DEF SessionInv, SessionTypeOK
    <2>2. auth' = [auth EXCEPT !.busy = TRUE]
      BY DEF Become
    <2> QED BY <2>1, <2>2, BecomeTyped DEF SessionInv, SessionTypeOK
  <1>5. SessionTypeOK'
    <2>1. SessionTypeOK
      BY DEF SessionInv
    <2>2. flows' \subseteq Flow
      BY <1>1, <1>2, <2>1 DEF SessionTypeOK
    <2>3. prompt' \in BOOLEAN /\ loggedOut' \in BOOLEAN
      BY <2>1, Zenon DEF SessionTypeOK
    <2> QED BY <1>1, <1>3, <1>4, <2>1, <2>2, <2>3 DEF SessionTypeOK
  <1>6. Shaped'
    BY <1>1, <1>2 DEF SessionInv, Shaped
  <1>7. One' /\ Named'
    BY <1>1, <1>2, <1>3 DEF One, Named
  <1>8. Current'
    BY <1>1, <1>2, <1>3 DEF SessionInv, Current
  <1>9. Owned'
    BY <1>1, <1>2, <1>3 DEF SessionInv, Owned, Replacing
  <1>10. TokenMatchesAccount'
    BY <1>3, <1>4 DEF SessionInv, TokenMatchesAccount
  <1> QED BY <1>5, <1>6, <1>7, <1>8, <1>9, <1>10 DEF SessionInv, LogoutHolds

-----------------------------------------------------------------------------
\* What is known of a flow when nothing has set the token and the account
\* apart, and that it rules out having logged out.
LEMMA FlowFacts ==
  ASSUME SessionInv, NEW f \in flows
  PROVE  /\ f \in Flow /\ ~ loggedOut
         /\ "overlap" \notin apart => flows = {f}
         /\ f.kind # "file" => f.wallet \in Wallet /\ selected[f.wallet] \in Account
         /\ f.stage = "backend" => f.account \in Account
  BY DEF SessionInv, SessionTypeOK, Shaped, One, LogoutHolds

\* A flow ends, and neither the local storage nor the wallets change.
LEMMA FlowEnds ==
  ASSUME SessionInv, NEW f \in flows, flows' = flows \ {f}, UNCHANGED <<storage, selected>>,
         apart \subseteq apart', apart' # {} \/ f.kind # "login" \/ f.stage # "backend"
  PROVE  Shaped' /\ One' /\ Named' /\ Current' /\ Owned'
  <1>1. Shaped' /\ One' /\ Named' /\ Current'
    BY DEF SessionInv, Shaped, One, Named, Current
  <1>2. apart' = {} /\ Replacing => Replacing'
    BY DEF Replacing
  <1>3. Owned'
    BY <1>2 DEF SessionInv, Owned
  <1> QED BY <1>1, <1>3

LEMMA WalletAnswersKeeps ==
  ASSUME SessionInv, NEW f \in flows, WalletAnswers(f)
  PROVE  SessionInv'
  <1> DEFINE a == selected[f.wallet]
             g == [f EXCEPT !.stage = "backend", !.account = a]
  <1>1. /\ f.kind # "file" /\ f.stage = "wallet"
        /\ storage' = [storage EXCEPT !.name = f.wallet,
                         !.provider = IF f.kind = "reconnect" THEN Provider ELSE @]
        /\ service' = [active  |-> IF f.kind = "reconnect" THEN Provider ELSE service.active,
                       account |-> a]
        /\ UNCHANGED <<prompt, selected, loggedOut, apart, starts, events>>
    BY DEF WalletAnswers
  <1>2. /\ f \in Flow /\ ~ loggedOut /\ f.wallet \in Wallet /\ a \in Account
        /\ "overlap" \notin apart => flows = {f}
    BY <1>1, FlowFacts
  <1>3. /\ storage'.name = f.wallet /\ storage'.token = storage.token
        /\ storage' \in [provider : {Provider, Nobody}, name : Wallet \cup {Nobody},
                         token : Token \cup {NoToken}]
        /\ service' \in [active : {Provider, Nobody}, account : Who]
    BY <1>1, <1>2 DEF SessionInv, SessionTypeOK, Who
  <1>4. /\ g \in Flow /\ g.stage = "backend" /\ g.account = a /\ g.kind = f.kind
        /\ g.wallet = f.wallet /\ g.silent = f.silent
    BY <1>2 DEF Flow, Who
  <1>5. CASE f.silent
    <2>1. flows' = flows \ {f} /\ Become([auth EXCEPT !.in = TRUE, !.account = a])
      BY <1>5 DEF WalletAnswers
    <2>2. f.kind = "reconnect"
      BY <1>5 DEF SessionInv, Shaped
    <2> HIDE DEF a, g
    <2>3. /\ auth'.account = a
          /\ auth' \in [in : BOOLEAN, account : Who, busy : BOOLEAN]
          /\ card' \in [connected : BOOLEAN, account : Who]
      <3> DEFINE b == [auth EXCEPT !.in = TRUE, !.account = a]
      <3>1. b \in [in : BOOLEAN, account : Who, busy : BOOLEAN] /\ b.account = a
        BY <1>2 DEF SessionInv, SessionTypeOK, Who
      <3> HIDE DEF b
      <3>2. Become(b)
        BY <2>1 DEF b
      <3> QED BY <3>1, <3>2, BecomeTyped DEF SessionInv
    <2>4. SessionTypeOK'
      BY <1>1, <1>3, <2>1, <2>3 DEF SessionInv, SessionTypeOK
    <2>5. Shaped'
      BY <2>1 DEF SessionInv, Shaped
    <2>6. "overlap" \notin apart => flows' = {} /\ storage.name = f.wallet
      BY <1>2, <2>1, <2>2 DEF SessionInv, Named
    <2>7. One' /\ Named'
      BY <1>1, <2>6 DEF One, Named
    <2>8. Current'
      BY <1>1, <2>6 DEF Current
    <2>9. apart = {} /\ storage.token # NoToken =>
            storage.name \in Wallet /\ selected[storage.name] = storage.token.owner
      BY <1>2, <2>2 DEF SessionInv, Owned, Replacing
    <2>10. Owned'
      BY <1>1, <1>2, <1>3, <2>6, <2>9 DEF Owned
    <2>11. TokenMatchesAccount'
      BY <1>1, <1>3, <2>3, <2>6, <2>9 DEF TokenMatchesAccount, a
    <2> QED BY <1>1, <1>2, <2>4, <2>5, <2>7, <2>8, <2>10, <2>11 DEF SessionInv, LogoutHolds
  <1>6. CASE ~ f.silent
    <2>1. flows' = (flows \ {f}) \cup {g} /\ UNCHANGED <<auth, card>>
      BY <1>6 DEF WalletAnswers, Step
    <2> HIDE DEF g
    <2>2. SessionTypeOK'
      BY <1>1, <1>3, <1>4, <2>1 DEF SessionInv, SessionTypeOK
    <2>3. Shaped'
      BY <1>1, <1>2, <1>4, <2>1 DEF SessionInv, Shaped
    <2>4. "overlap" \notin apart => flows' = {g}
      BY <1>2, <2>1
    <2>5. One' /\ Named'
      BY <1>1, <1>3, <1>4, <2>4 DEF One, Named
    <2>6. Current'
      BY <1>1, <1>4, <2>4 DEF Current
    <2>7. Owned'
      <3> SUFFICES ASSUME apart = {}, storage.token # NoToken, ~ Replacing'
                   PROVE  f.wallet \in Wallet /\ selected[f.wallet] = storage.token.owner
        BY <1>1, <1>3 DEF Owned
      <3>1. g \in flows' /\ f.kind = "reconnect"
        BY <1>1, <1>2, <1>4, <2>1 DEF Replacing, Flow
      <3>2. storage.name = f.wallet /\ ~ Replacing
        BY <1>1, <1>2, <3>1 DEF SessionInv, Named, Replacing
      <3> QED BY <1>2, <3>2 DEF SessionInv, Owned
    <2>8. TokenMatchesAccount'
      BY <1>1, <1>3, <2>1 DEF SessionInv, TokenMatchesAccount
    <2> QED BY <1>1, <1>2, <2>2, <2>3, <2>5, <2>6, <2>7, <2>8 DEF SessionInv, LogoutHolds
  <1> QED BY <1>5, <1>6

-----------------------------------------------------------------------------
LEMMA AcceptedKeeps ==
  ASSUME SessionInv, NEW f \in flows, LoginAccepted(f)
  PROVE  SessionInv'
  <1> DEFINE b == [in |-> TRUE, account |-> f.account,
                   busy |-> IF f.kind = "login" THEN FALSE ELSE auth.busy]
             same == selected[f.wallet] = f.account /\ "overlap" \notin apart
  <1>1. /\ f.kind # "file" /\ f.stage = "backend" /\ flows' = flows \ {f}
        /\ storage' = SaveToken(f.account) /\ service' = [service EXCEPT !.active = Provider]
        /\ Become(b)
        /\ prompt' = IF f.kind = "login" THEN FALSE ELSE prompt
        /\ apart' = IF same THEN {} ELSE apart
        /\ UNCHANGED <<selected, loggedOut, starts, events>>
    BY DEF LoginAccepted
  <1>2. /\ f \in Flow /\ ~ loggedOut /\ f.account \in Account /\ f.wallet \in Wallet
        /\ "overlap" \notin apart => flows = {f}
    BY <1>1, FlowFacts
  <1>3. /\ storage'.token.owner = f.account /\ storage'.name = storage.name
        /\ storage'.token \in Token
        /\ storage' \in [provider : {Provider, Nobody}, name : Wallet \cup {Nobody},
                         token : Token \cup {NoToken}]
    <2>1. [owner |-> f.account, live |-> TRUE] \in Token
      BY <1>2 DEF Token
    <2>2. storage' = [storage EXCEPT !.token = [owner |-> f.account, live |-> TRUE],
                                     !.provider = Provider]
      BY <1>1 DEF SaveToken
    <2> QED BY <2>1, <2>2 DEF SessionInv, SessionTypeOK
  <1>4. /\ auth'.account = f.account
        /\ auth' \in [in : BOOLEAN, account : Who, busy : BOOLEAN]
        /\ card' \in [connected : BOOLEAN, account : Who]
    <2>1. b \in [in : BOOLEAN, account : Who, busy : BOOLEAN] /\ b.account = f.account
      BY <1>2 DEF SessionInv, SessionTypeOK, Who
    <2> HIDE DEF b
    <2> QED BY <1>1, <2>1, BecomeTyped DEF SessionInv
  <1>5. apart' \in SUBSET {"overlap", "failed", "switched"} /\ service' \in [active : {Provider, Nobody}, account : Who]
        /\ prompt' \in BOOLEAN
    BY <1>1 DEF SessionInv, SessionTypeOK
  <1>6. SessionTypeOK'
    BY <1>1, <1>3, <1>4, <1>5 DEF SessionInv, SessionTypeOK
  <1>7. Shaped'
    BY <1>1 DEF SessionInv, Shaped
  <1>8. "overlap" \notin apart' => flows' = {} /\ storage.name = f.wallet
    BY <1>1, <1>2 DEF SessionInv, Named
  <1>9. One' /\ Named' /\ Current'
    BY <1>1, <1>8 DEF One, Named, Current
  <1>10. apart' = {} => selected[f.wallet] = f.account
    BY <1>1 DEF SessionInv, Current
  <1>11. Owned'
    BY <1>1, <1>2, <1>3, <1>8, <1>10 DEF Owned
  <1>12. TokenMatchesAccount'
    BY <1>3, <1>4 DEF TokenMatchesAccount
  <1> QED BY <1>1, <1>2, <1>6, <1>7, <1>9, <1>11, <1>12 DEF SessionInv, LogoutHolds

LEMMA RefusedKeeps ==
  ASSUME SessionInv, NEW f \in flows, ReconnectRefused(f)
  PROVE  SessionInv'
  <1> DEFINE b == [auth EXCEPT !.in = TRUE, !.account = f.account]
  <1>1. /\ f.kind = "reconnect" /\ f.stage = "backend" /\ flows' = flows \ {f}
        /\ Become(b)
        /\ UNCHANGED <<storage, service, prompt, selected, loggedOut, apart, starts, events>>
    BY DEF ReconnectRefused
  <1>2. /\ f \in Flow /\ ~ loggedOut /\ f.account \in Account
        /\ "overlap" \notin apart => flows = {f}
    BY <1>1, FlowFacts
  <1>3. /\ auth'.account = f.account
        /\ auth' \in [in : BOOLEAN, account : Who, busy : BOOLEAN]
        /\ card' \in [connected : BOOLEAN, account : Who]
    <2>1. b \in [in : BOOLEAN, account : Who, busy : BOOLEAN] /\ b.account = f.account
      BY <1>2 DEF SessionInv, SessionTypeOK, Who
    <2> HIDE DEF b
    <2> QED BY <1>1, <2>1, BecomeTyped DEF SessionInv
  <1>4. SessionTypeOK'
    BY <1>1, <1>3 DEF SessionInv, SessionTypeOK
  <1>5. TokenMatchesAccount'
    <2> SUFFICES ASSUME apart = {}, storage.token # NoToken
                 PROVE  storage.token.owner = f.account
      BY <1>1, <1>3 DEF TokenMatchesAccount
    <2>1. storage.name = f.wallet /\ f.account = selected[f.wallet]
      BY <1>1 DEF SessionInv, Named, Current
    <2>2. ~ Replacing
      BY <1>1, <1>2 DEF Replacing
    <2> QED BY <2>1, <2>2 DEF SessionInv, Owned
  <1>6. Shaped' /\ One' /\ Named' /\ Current' /\ Owned'
    BY <1>1, FlowEnds
  <1> QED BY <1>1, <1>2, <1>4, <1>5, <1>6 DEF SessionInv, LogoutHolds

LEMMA ReconnectFailsKeeps ==
  ASSUME SessionInv, NEW f \in flows, ReconnectFails(f)
  PROVE  SessionInv'
  <1>1. /\ f.stage = "wallet" /\ flows' = flows \ {f} /\ ~ loggedOut
        /\ UNCHANGED <<storage, tab, selected, loggedOut, apart, starts, events>>
    BY FlowFacts DEF ReconnectFails
  <1>2. SessionTypeOK'
    BY <1>1 DEF SessionInv, SessionTypeOK, tab
  <1>3. TokenMatchesAccount'
    BY <1>1 DEF SessionInv, TokenMatchesAccount, tab
  <1>4. Shaped' /\ One' /\ Named' /\ Current' /\ Owned'
    BY <1>1, FlowEnds
  <1> QED BY <1>1, <1>2, <1>3, <1>4 DEF SessionInv, LogoutHolds

LEMMA LoginFailsKeeps ==
  ASSUME SessionInv, NEW f \in flows, LoginFails(f)
  PROVE  SessionInv'
  <1>1. /\ flows' = flows \ {f} /\ Become(SignedOut) /\ ~ loggedOut
        /\ apart' = IF f.stage = "backend" THEN apart \cup {"failed"} ELSE apart
        /\ UNCHANGED <<storage, service, prompt, selected, loggedOut, starts, events>>
    BY FlowFacts DEF LoginFails
  <1>2. /\ auth' = SignedOut
        /\ auth' \in [in : BOOLEAN, account : Who, busy : BOOLEAN]
        /\ card' \in [connected : BOOLEAN, account : Who]
    <2>1. SignedOut \in [in : BOOLEAN, account : Who, busy : BOOLEAN]
      BY DEF SignedOut, Who
    <2> QED BY <1>1, <2>1, BecomeTyped DEF SessionInv
  <1>3. /\ apart' \in SUBSET {"overlap", "failed", "switched"} /\ apart \subseteq apart'
        /\ f.stage = "backend" => apart' # {}
    BY <1>1 DEF SessionInv, SessionTypeOK
  <1>4. SessionTypeOK'
    BY <1>1, <1>2, <1>3 DEF SessionInv, SessionTypeOK
  <1>5. TokenMatchesAccount'
    BY <1>2 DEF TokenMatchesAccount, SignedOut
  <1>6. Shaped' /\ One' /\ Named' /\ Current' /\ Owned'
    BY <1>1, <1>3, FlowEnds
  <1> QED BY <1>1, <1>4, <1>5, <1>6 DEF SessionInv, LogoutHolds

-----------------------------------------------------------------------------
LEMMA LogoutKeeps ==
  ASSUME SessionInv, Logout
  PROVE  SessionInv'
  <1>1. /\ IF service.active = Nobody THEN UNCHANGED <<storage, service>>
           ELSE storage' = Empty /\ service' = Idle
        /\ auth' = [SignedOut EXCEPT !.busy = auth.busy]
        /\ card' = [connected |-> FALSE, account |-> Nobody]
        /\ loggedOut' = (flows = {} /\ service.active # Nobody)
        /\ apart' = IF flows = {} /\ service.active # Nobody THEN {} ELSE Overlap
        /\ UNCHANGED <<prompt, selected, flows, starts, events>>
    BY DEF Logout, Disconnect
  <1>2. /\ auth' = [in |-> FALSE, account |-> Nobody, busy |-> auth.busy]
        /\ auth' \in [in : BOOLEAN, account : Who, busy : BOOLEAN]
        /\ card' \in [connected : BOOLEAN, account : Who]
    BY <1>1 DEF SignedOut, SessionInv, SessionTypeOK, Who
  <1>3. /\ storage' \in [provider : {Provider, Nobody}, name : Wallet \cup {Nobody},
                         token : Token \cup {NoToken}]
        /\ service' \in [active : {Provider, Nobody}, account : Who]
    <2>1. CASE service.active = Nobody
      BY <1>1, <2>1 DEF SessionInv, SessionTypeOK
    <2>2. CASE service.active # Nobody
      BY <1>1, <2>2 DEF Empty, Idle, Who
    <2> QED BY <2>1, <2>2
  <1>4. /\ apart' \in SUBSET {"overlap", "failed", "switched"}
        /\ "overlap" \notin apart' => flows = {}
        /\ apart' = {} => apart = {} \/ storage'.token = NoToken
    BY <1>1 DEF Overlap, Empty, SessionInv, SessionTypeOK
  <1>5. loggedOut' \in BOOLEAN
    BY <1>1, Zenon
  <1>6. SessionTypeOK'
    BY <1>1, <1>2, <1>3, <1>4, <1>5 DEF SessionInv, SessionTypeOK
  <1>7. Shaped'
    BY <1>1 DEF SessionInv, Shaped
  <1>8. One' /\ Named' /\ Current'
    BY <1>1, <1>4 DEF One, Named, Current
  <1>9. Owned'
    <2>1. CASE service.active = Nobody
      BY <1>1, <1>4, <2>1 DEF SessionInv, Owned, Replacing, Overlap
    <2>2. CASE service.active # Nobody
      BY <1>1, <2>2 DEF Owned, Empty
    <2> QED BY <2>1, <2>2
  <1>10. TokenMatchesAccount' /\ LogoutHolds'
    BY <1>1, <1>2 DEF TokenMatchesAccount, LogoutHolds
  <1> QED BY <1>6, <1>7, <1>8, <1>9, <1>10 DEF SessionInv

LEMMA SwitchKeeps ==
  ASSUME SessionInv, NEW w \in Wallet, SwitchAccount(w)
  PROVE  SessionInv'
  <1>1. /\ apart' = apart \cup {"switched"} /\ events' = events + 1 /\ events < MaxEvents
        /\ UNCHANGED <<storage, tab, flows, loggedOut, starts>>
    BY DEF SwitchAccount
  <1>2. selected' \in [Wallet -> Account]
    BY DEF SwitchAccount, SessionInv, SessionTypeOK
  <1>3. events' \in 0..MaxEvents
    BY <1>1 DEF SessionInv, SessionTypeOK
  <1>4. SessionTypeOK'
    BY <1>1, <1>2, <1>3 DEF SessionInv, SessionTypeOK, tab
  <1>5. Shaped' /\ One' /\ Named' /\ Current' /\ Owned' /\ TokenMatchesAccount' /\ LogoutHolds'
    BY <1>1 DEF SessionInv, Shaped, One, Named, Current, Owned, TokenMatchesAccount, LogoutHolds, tab
  <1> QED BY <1>4, <1>5 DEF SessionInv

LEMMA ExpiryKeeps ==
  ASSUME SessionInv, TokenExpires
  PROVE  SessionInv'
  <1>1. /\ storage.token.live /\ events' = events + 1 /\ events < MaxEvents
        /\ storage' = [storage EXCEPT !.token.live = FALSE]
        /\ UNCHANGED <<tab, selected, flows, loggedOut, apart, starts>>
    BY DEF TokenExpires
  <1>2. storage.token # NoToken
    <2>1. ~ NoToken.live
      BY DEF NoToken
    <2> QED BY <1>1, <2>1
  <1>3. storage.token \in Token
    BY <1>2 DEF SessionInv, SessionTypeOK
  <1>4. /\ storage'.token.owner = storage.token.owner /\ storage'.name = storage.name
        /\ storage' \in [provider : {Provider, Nobody}, name : Wallet \cup {Nobody},
                         token : Token \cup {NoToken}]
    BY <1>1, <1>3 DEF SessionInv, SessionTypeOK, Token
  <1>5. events' \in 0..MaxEvents
    BY <1>1 DEF SessionInv, SessionTypeOK
  <1>6. SessionTypeOK'
    BY <1>1, <1>4, <1>5 DEF SessionInv, SessionTypeOK, tab
  <1>7. ~ loggedOut
    BY <1>2 DEF SessionInv, LogoutHolds, Empty
  <1>8. Shaped' /\ One' /\ Named' /\ Current'
    BY <1>1, <1>4 DEF SessionInv, Shaped, One, Named, Current
  <1>9. Owned' /\ TokenMatchesAccount' /\ LogoutHolds'
    BY <1>1, <1>2, <1>4, <1>7 DEF SessionInv, Owned, Replacing, TokenMatchesAccount, LogoutHolds, tab
  <1> QED BY <1>6, <1>8, <1>9 DEF SessionInv

-----------------------------------------------------------------------------
LEMMA SessionStep == SessionInv /\ [SessionNext]_sessionVars => SessionInv'
  <1> SUFFICES ASSUME SessionInv, [SessionNext]_sessionVars PROVE SessionInv'
    OBVIOUS
  <1>1. CASE LoadPage
    BY <1>1, LoadKeeps
  <1>2. CASE OpenLogin
    BY <1>2, OpenLoginKeeps
  <1>3. CASE ChooseFile
    BY <1>3, ChooseKeeps DEF ChooseFile
  <1>4. CASE Logout
    BY <1>4, LogoutKeeps
  <1>5. CASE TokenExpires
    BY <1>5, ExpiryKeeps
  <1>6. CASE \E w \in Wallet : ChooseWallet(w)
    BY <1>6, ChooseKeeps DEF ChooseWallet
  <1>7. CASE \E w \in Wallet : SwitchAccount(w)
    BY <1>7, SwitchKeeps
  <1>8. CASE \E f \in flows : WalletAnswers(f)
    BY <1>8, WalletAnswersKeeps
  <1>9. CASE \E f \in flows : LoginAccepted(f)
    BY <1>9, AcceptedKeeps
  <1>10. CASE \E f \in flows : ReconnectRefused(f)
    BY <1>10, RefusedKeeps
  <1>11. CASE \E f \in flows : ReconnectFails(f)
    BY <1>11, ReconnectFailsKeeps
  <1>12. CASE \E f \in flows : LoginFails(f)
    BY <1>12, LoginFailsKeeps
  <1>13. CASE UNCHANGED sessionVars
    BY <1>13 DEF sessionVars, tab, SessionInv, SessionTypeOK, Shaped, One, Named, Current,
                 Owned, Replacing, TokenMatchesAccount, LogoutHolds
  <1> QED BY <1>1, <1>2, <1>3, <1>4, <1>5, <1>6, <1>7, <1>8, <1>9, <1>10, <1>11, <1>12,
             <1>13 DEF SessionNext

LEMMA SessionSafe == SessionSpec => []SessionInv
  BY InitSession, SessionStep, PTL DEF SessionSpec

\* The state of the tab is always of its type, whatever overlaps.
THEOREM SessionTyped == SessionSpec => []SessionTypeOK
  <1>1. SessionInv => SessionTypeOK
    BY DEF SessionInv
  <1> QED BY <1>1, SessionSafe, PTL

\* The account shown is the one the stored token was issued to, unless the
\* account was switched, two logins overlapped, or one failed half way.
THEOREM TokenIsOwn == SessionSpec => []TokenMatchesAccount
  <1>1. SessionInv => TokenMatchesAccount
    BY DEF SessionInv
  <1> QED BY <1>1, SessionSafe, PTL

\* Who logged out with nothing under way stays out, and leaves nothing behind.
THEOREM LoggedOutForGood == SessionSpec => []LogoutHolds
  <1>1. SessionInv => LogoutHolds
    BY DEF SessionInv
  <1> QED BY <1>1, SessionSafe, PTL

-----------------------------------------------------------------------------
(***************************************************************************)
(* The three together: one moves, and the others rest.                     *)
(***************************************************************************)
FrontendInv == TimelineInv /\ ModalInv /\ SessionInv

LEMMA FrontendStep == FrontendInv /\ [FrontendNext]_frontendVars => FrontendInv'
  <1> SUFFICES ASSUME FrontendInv, [FrontendNext]_frontendVars PROVE FrontendInv'
    OBVIOUS
  <1>1. [TimelineNext]_timelineVars /\ [ModalNext]_modalVars /\ [SessionNext]_sessionVars
    BY DEF FrontendNext, OnTimeline, OnModal, OnSession, frontendVars
  <1> QED BY <1>1, TimelineStep, ModalStep, SessionStep DEF FrontendInv

LEMMA FrontendAlways == FrontendSpec => []FrontendInv
  <1>1. FrontendInit => FrontendInv
    BY TimelineFirst, ModalFirst, InitSession DEF FrontendInit, FrontendInv
  <1> QED BY <1>1, FrontendStep, PTL DEF FrontendSpec

\* The screens of the frontend, together as they are checked, stay within
\* their types, and a modal that can be clicked holds a promise to answer.
THEOREM FrontendTyped == FrontendSpec => []TypesOK
  <1>1. FrontendInv => TypesOK
    BY DEF FrontendInv, TimelineInv, Sound, ModalInv, SessionInv, TypesOK
  <1> QED BY <1>1, FrontendAlways, PTL
=============================================================================
