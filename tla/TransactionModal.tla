-------------------------- MODULE TransactionModal --------------------------
(***************************************************************************)
(* The modal in which a transaction or a login message is signed:          *)
(* useTransactionHandler, whose state is shared by every caller, TxnModal  *)
(* with its two steps and its countdown, and ModalWrapper, whose close     *)
(* icon acts when the modal has faded out.                                 *)
(*                                                                         *)
(* A caller awaits a promise; the modal holds the resolve and reject of    *)
(* the caller prepared last.  Handlers act on the state they were rendered *)
(* with.  While the modal can be clicked, the pending transaction and the  *)
(* holder of the promise are the same, so one field stands for both.       *)
(*                                                                         *)
(* A transaction can also be downloaded, signed elsewhere and uploaded.    *)
(* The file is never compared with the pending transaction: what it holds  *)
(* is submitted, or answers the login.                                     *)
(***************************************************************************)
EXTENDS FiniteSets

CONSTANTS
  Txn,     \* calls of handleTransaction, one each
  NoTxn,   \* no transaction: null
  Kind     \* what each call asks for

Login == {"loginViaMessageSigning", "loginViaExpiredTxnSigning"}
Kinds == Login \cup {"submit"}     \* delegationTxn and submitMetadataTxn

ASSUME KindAssumption  == Kind \in [Txn -> Kinds]
ASSUME NoTxnAssumption == NoTxn \notin Txn

VARIABLES
  caller,      \* how far each caller is: see CallerStates
  result,      \* the transaction whose result a caller was given
  modal,       \* txnModalState, with the step of TxnModal
  loading,     \* isLoading
  fading,      \* whose close the timer of ModalWrapper will make
  drafts,      \* transactions the user has downloaded, to sign elsewhere
  flights,     \* signatures and submissions that have not been answered
  submitted,   \* transactions the network has accepted
  excused      \* history: what befell each transaction

modalVars == <<caller, result, modal, loading, fading, drafts, flights, submitted, excused>>

CallerStates == {"new", "building", "prepping", "pending",
                 "resolved", "cancelled", "failed"}

\* tx is the transaction whose promise waits, file the one that is signed.  A
\* flight keeps the type the modal had when the file was handed in: that path
\* decides by it, the wallet's by the type of the transaction.
Flight == [tx : Txn, file : Txn, kind : Kinds, stage : {"signing", "submitting", "accepted"}]

Closed == [open |-> FALSE, prepping |-> FALSE, holder |-> NoTxn,
           type |-> "submit", step |-> "initial"]

ModalInit ==
  /\ caller = [t \in Txn |-> "new"]
  /\ result = [t \in Txn |-> NoTxn]
  /\ modal = Closed
  /\ loading = FALSE
  /\ fading = NoTxn
  /\ drafts = {}
  /\ flights = {}
  /\ submitted = {}
  /\ excused = [t \in Txn |-> {}]

Excuse(S, why) == [t \in Txn |-> IF t \in S THEN excused[t] \cup {why} ELSE excused[t]]

InFlight   == {f.tx : f \in flights}
Busy       == {t \in Txn : \/ caller[t] \in {"building", "prepping", "pending"}
                          \/ t = fading \/ t \in InFlight}
Reachable  == ~ modal.open \/ fading # NoTxn     \* the page behind the modal
Clickable  == modal.open /\ ~ modal.prepping /\ fading = NoTxn

\* A promise settles once.
Settled(t, how) == IF caller[t] = "pending" THEN [caller EXCEPT ![t] = how] ELSE caller

\* Slip: the caller of the transaction that is closed is not told.
CloseSilently(h) ==
  /\ modal' = Closed
  /\ loading' = FALSE
  /\ UNCHANGED caller

\* closeTxnModal, as rendered when h held the promise; whatever the modal
\* shows by now is closed.
CloseTxnModal(h) ==
  /\ caller' = IF h = NoTxn THEN caller ELSE Settled(h, "cancelled")
  /\ modal' = Closed
  /\ loading' = FALSE

-----------------------------------------------------------------------------
(***************************************************************************)
(* Callers.                                                                *)
(***************************************************************************)
\* openTxnModal up to its await.  A modal that is open already keeps its step.
OpenTxnModal(t) ==
  /\ caller' = [caller EXCEPT ![t] = "prepping"]
  /\ modal' = [modal EXCEPT !.open = TRUE, !.prepping = TRUE, !.type = Kind[t]]

\* The user asks for a transaction.  A message is ready at once; the others
\* await their builder, with nothing on the screen that prevents a second call.
Begin(t) ==
  /\ caller[t] = "new" /\ Reachable
  /\ IF Kind[t] = "loginViaMessageSigning"
     THEN OpenTxnModal(t)
     ELSE caller' = [caller EXCEPT ![t] = "building"] /\ UNCHANGED modal
  /\ excused' = IF Busy = {} THEN excused ELSE Excuse(Busy \cup {t}, "overlap")
  /\ UNCHANGED <<result, loading, fading, drafts, flights, submitted>>

\* initTransactionBuilder
BuilderReady(t) ==
  /\ caller[t] = "building"
  /\ OpenTxnModal(t) \/ (caller' = [caller EXCEPT ![t] = "failed"] /\ UNCHANGED modal)
  /\ UNCHANGED <<result, loading, fading, drafts, flights, submitted, excused>>

\* Slip: the modal is ready before it holds the promise.
PreparedUnheld(t) ==
  /\ caller[t] = "prepping"
  /\ caller' = [caller EXCEPT ![t] = "pending"]
  /\ modal' = [modal EXCEPT !.prepping = FALSE]
  /\ UNCHANGED <<result, loading, fading, drafts, flights, submitted, excused>>

\* prepareTxBody answers: the promise is made, without opening the modal again.
Prepared(t) ==
  /\ caller[t] = "prepping"
  /\ caller' = [caller EXCEPT ![t] = "pending"]
  /\ modal' = [modal EXCEPT !.prepping = FALSE, !.holder = t]
  /\ UNCHANGED <<result, loading, fading, drafts, flights, submitted, excused>>

\* It fails: the modal is closed, whatever it shows, and the caller told.
PreparationFails(t) ==
  /\ caller[t] = "prepping" /\ Kind[t] # "loginViaMessageSigning"
  /\ caller' = [caller EXCEPT ![t] = "failed"]
  /\ modal' = [modal EXCEPT !.open = FALSE, !.prepping = FALSE, !.step = "initial"]
  /\ UNCHANGED <<result, loading, fading, drafts, flights, submitted, excused>>

(***************************************************************************)
(* The modal.                                                              *)
(***************************************************************************)
\* Slip: the Cancel button is live while the answer is awaited.
CancelAnytime ==
  /\ Clickable
  /\ CloseTxnModal(modal.holder)
  /\ UNCHANGED <<result, fading, drafts, flights, submitted, excused>>

Cancel ==
  /\ Clickable /\ ~ loading
  /\ CloseTxnModal(modal.holder)
  /\ UNCHANGED <<result, fading, drafts, flights, submitted, excused>>

\* The close icon: the modal fades and lets clicks through, and its handler
\* runs when the timer ends, whatever is open by then.
ClickCloseIcon ==
  /\ Clickable /\ ~ loading
  /\ fading' = modal.holder
  /\ UNCHANGED <<caller, result, modal, loading, drafts, flights, submitted, excused>>

FadeEnds ==
  /\ fading # NoTxn
  /\ CloseTxnModal(fading)
  /\ fading' = NoTxn
  /\ UNCHANGED <<result, drafts, flights, submitted, excused>>

Download ==
  /\ Clickable /\ ~ loading /\ modal.step = "initial"
  /\ modal' = [modal EXCEPT !.step = "download"]
  /\ drafts' = drafts \cup {modal.holder}
  /\ UNCHANGED <<caller, result, loading, fading, flights, submitted, excused>>

\* Sixty minutes after the download of a transaction to be submitted the modal
\* closes itself, also while a submission is awaited.
CountdownEnds ==
  /\ modal.open /\ modal.step = "download" /\ modal.type = "submit"
  /\ CloseTxnModal(modal.holder)
  /\ excused' = Excuse(InFlight, "raced")
  /\ UNCHANGED <<result, fading, drafts, flights, submitted>>

Launch(file, kind) ==
  /\ Clickable /\ ~ loading
  /\ loading' = TRUE
  /\ flights' = flights \cup {[tx |-> modal.holder, file |-> file, kind |-> kind,
                              stage |-> "signing"]}
  /\ UNCHANGED <<caller, result, modal, fading, drafts, submitted>>

\* handleWalletSign, up to its first await
WalletSign ==
  /\ modal.step = "initial"
  /\ Launch(modal.holder, Kind[modal.holder])
  /\ UNCHANGED excused

\* handleSubmitSignedTxFile, up to its first await: the user hands in a signed
\* file, of the pending transaction or of one that was downloaded before.
SubmitSignedFile(file) ==
  /\ modal.step = "download"
  /\ file \in drafts
  /\ Launch(file, modal.type)
  /\ excused' = IF file = modal.holder THEN excused ELSE Excuse({file, modal.holder}, "swapped")

(***************************************************************************)
(* Answers of the wallet, of the backend and of the network.               *)
(***************************************************************************)
\* Any error leaves the modal open, for another attempt.
Errs(f) ==
  /\ flights' = flights \ {f}
  /\ loading' = FALSE
  /\ UNCHANGED <<caller, result, modal, fading>>

\* The wallet refuses, or the file does not hold a signature.
SigningFails(f) ==
  /\ f.stage = "signing"
  /\ Errs(f)
  /\ UNCHANGED <<drafts, submitted, excused>>

\* Slip: the promise that is resolved is the one the modal holds by now.
ResolveLatest(f) ==
  LET t == IF modal.holder = NoTxn THEN f.tx ELSE modal.holder
  IN  /\ result' = IF caller[t] = "pending" THEN [result EXCEPT ![t] = f.file] ELSE result
      /\ caller' = Settled(t, "resolved")
      /\ modal' = Closed
      /\ loading' = FALSE
      /\ flights' = flights \ {f}
      /\ UNCHANGED fading

\* The promise the modal held when the button was clicked is resolved, with the
\* signature or the hash of what was signed, and the modal closed.
Resolve(f) ==
  /\ result' = IF caller[f.tx] = "pending" THEN [result EXCEPT ![f.tx] = f.file] ELSE result
  /\ caller' = Settled(f.tx, "resolved")
  /\ modal' = Closed
  /\ loading' = FALSE
  /\ flights' = flights \ {f}
  /\ UNCHANGED fading

\* A signed message is no transaction; and where a message is pending no
\* transaction is read, whatever the file holds.
Usable(f) ==
  IF Kind[f.tx] = "loginViaMessageSigning" THEN f.kind = Kind[f.tx]
  ELSE Kind[f.file] # "loginViaMessageSigning"

Signed(f) ==
  /\ f.stage = "signing" /\ Usable(f)
  /\ IF f.kind \in Login
     THEN Resolve(f)
     ELSE /\ flights' = (flights \ {f}) \cup {[f EXCEPT !.stage = "submitting"]}
          /\ UNCHANGED <<caller, result, modal, loading, fading>>
  /\ UNCHANGED <<drafts, submitted, excused>>

SubmissionRefused(f) ==
  /\ f.stage = "submitting"
  /\ Errs(f)
  /\ UNCHANGED <<drafts, submitted, excused>>

\* The network accepts a transaction once, its inputs being spent by then, and
\* never the one of a login, which is built to be expired.
Accepted(f) ==
  /\ f.stage = "submitting" /\ Kind[f.file] = "submit" /\ f.file \notin submitted
  /\ submitted' = submitted \cup {f.file}
  /\ flights' = (flights \ {f}) \cup {[f EXCEPT !.stage = "accepted"]}
  /\ UNCHANGED <<caller, result, modal, loading, fading, drafts, excused>>

AnswerLost(f) ==
  /\ f.stage = "accepted"
  /\ Errs(f)
  /\ excused' = Excuse({f.file}, "lost")
  /\ UNCHANGED <<drafts, submitted>>

HashArrives(f) ==
  /\ f.stage = "accepted"
  /\ Resolve(f)
  /\ UNCHANGED <<drafts, submitted, excused>>

ModalNext ==
  \/ \E t \in Txn : Begin(t) \/ BuilderReady(t) \/ Prepared(t) \/ PreparationFails(t)
  \/ Cancel \/ ClickCloseIcon \/ FadeEnds \/ Download \/ CountdownEnds
  \/ WalletSign \/ \E file \in drafts : SubmitSignedFile(file)
  \/ \E f \in flights : \/ SigningFails(f) \/ Signed(f) \/ SubmissionRefused(f)
                        \/ Accepted(f) \/ AnswerLost(f) \/ HashArrives(f)

ModalSpec == ModalInit /\ [][ModalNext]_modalVars
-----------------------------------------------------------------------------
ModalTypeOK ==
  /\ caller \in [Txn -> CallerStates]
  /\ result \in [Txn -> Txn \cup {NoTxn}]
  /\ modal \in [open : BOOLEAN, prepping : BOOLEAN, holder : Txn \cup {NoTxn},
                type : Kinds, step : {"initial", "download"}]
  /\ modal.open /\ ~ modal.prepping => modal.holder \in Txn
  /\ loading \in BOOLEAN
  /\ fading \in Txn \cup {NoTxn}
  /\ drafts \subseteq Txn
  /\ flights \subseteq Flight
  /\ submitted \subseteq Txn
  /\ excused \in [Txn -> SUBSET {"overlap", "raced", "lost", "swapped"}]

\* A transaction reported as cancelled has not been submitted, unless its file
\* was handed in for another one, the countdown closed the modal while it was
\* signed or submitted, the answer of the submission was lost, or another
\* transaction was under way meanwhile.
NoFalseCancel ==
  \A t \in submitted : caller[t] = "cancelled" => excused[t] # {}

\* A promise is resolved with the result of its own transaction, whatever
\* else was opened or closed meanwhile, unless the file of another one was
\* handed in for it; and the hash given for a transaction that is to be
\* submitted is always one that was, unless another one changed the modal's type.
RightAnswer ==
  \A t \in Txn : caller[t] = "resolved" =>
    /\ result[t] = t \/ "swapped" \in excused[t]
    /\ Kind[t] = "submit" => result[t] \in submitted \/ "overlap" \in excused[t]

\* A caller is never left waiting for good: the modal that can answer it is
\* open, unless another transaction took its place.
CallersAnswered ==
  \A t \in Txn : caller[t] = "pending" /\ "overlap" \notin excused[t] =>
    modal.open /\ ~ modal.prepping /\ modal.holder = t
=============================================================================
