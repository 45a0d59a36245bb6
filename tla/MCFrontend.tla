----------------------------- MODULE MCFrontend -----------------------------
(***************************************************************************)
(* Instances of the components of the frontend for TLC: the timeline of a  *)
(* DRep, the transaction modal and the session of the wallet.  They share  *)
(* no state and call each other nowhere, so that one of them moves in a    *)
(* behaviour, and the others rest in their first state.                    *)
(***************************************************************************)
EXTENDS DRepTimeline, TransactionModal, WalletSession, TLC

CONSTANTS t1, t2, t3, t4

\* Two transactions to submit, one of which can be handed in for the other, and
\* a login of either sort.
MCKind == (t1 :> "submit") @@ (t2 :> "submit") @@ (t3 :> "loginViaExpiredTxnSigning")
            @@ (t4 :> "loginViaMessageSigning")

VARIABLES
  focus,      \* the component that moves
  asked       \* the transactions the user asks for: three in a behaviour

frontendVars == <<timelineVars, modalVars, sessionVars, focus, asked>>

FrontendInit ==
  /\ focus \in {"timeline", "modal", "session"}
  /\ TimelineInit /\ ModalInit /\ SessionInit
  /\ IF focus = "modal" THEN asked \in {{t1, t2, t3}, {t1, t2, t4}, {t1, t3, t4}} ELSE asked = {}
  /\ focus # "timeline" => filter = "all"
  /\ focus # "session" => selected = [w \in Wallet |-> CHOOSE a \in Account : TRUE]

OnTimeline(A) == focus = "timeline" /\ A /\ UNCHANGED <<modalVars, sessionVars, focus, asked>>
OnModal(A)    == /\ focus = "modal" /\ A /\ UNCHANGED <<timelineVars, sessionVars, focus, asked>>
                 /\ \A t \in Txn \ asked : caller'[t] = "new"
OnSession(A)  == focus = "session"  /\ A /\ UNCHANGED <<timelineVars, modalVars, focus, asked>>

FrontendNext == OnTimeline(TimelineNext) \/ OnModal(ModalNext) \/ OnSession(SessionNext)

\* The fairness of the timeline, in the behaviours in which it moves.
FrontendSpec ==
  /\ FrontendInit /\ [][FrontendNext]_frontendVars
  /\ WF_frontendVars(OnTimeline(Answered))
  /\ WF_frontendVars(OnTimeline(PagesBack))

\* The state of every component stays within its types; a modal that can be
\* clicked holds a promise to answer.
TypesOK == TimelineTypeOK /\ ModalTypeOK /\ SessionTypeOK
=============================================================================
