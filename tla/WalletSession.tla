---------------------------- MODULE WalletSession ----------------------------
(***************************************************************************)
(* The session of a browser tab: AuthenticationService with its wallet and *)
(* login-file providers, AuthContext, and the wallet state of the global   *)
(* context.  What survives a page load is in the local storage: the        *)
(* provider, the name of the wallet and the token of the backend.          *)
(*                                                                         *)
(* A login and the reconnection of a page load each await the wallet and   *)
(* then the backend, and nothing makes one wait for the other.             *)
(***************************************************************************)
EXTENDS Naturals, FiniteSets

CONSTANTS
  Wallet,      \* extensions of the browser, by name
  Account,     \* stake keys
  Nobody,      \* null
  MaxStarts,   \* bound: page loads and logins, together
  MaxEvents    \* bound: accounts switched and tokens expired, together

ASSUME NobodyAssumption == Nobody \notin Wallet \cup Account
ASSUME StartsAssumption == MaxStarts \in Nat /\ MaxEvents \in Nat

VARIABLES
  storage,     \* the local storage
  service,     \* AuthenticationService and CardanoMeshProvider
  auth,        \* the state of AuthContext
  card,        \* the wallet state the components read
  prompt,      \* the login modal is open
  selected,    \* the account selected in each extension
  flows,       \* reconnections and logins under way
  loggedOut,   \* history: logged out with nothing under way, no login since
  apart,       \* history: what may set the token and the account apart
  starts,      \* page loads and logins so far
  events       \* switches and expiries so far

tab         == <<service, auth, card, prompt>>
sessionVars == <<storage, tab, selected, flows, loggedOut, apart, starts, events>>

Token    == [owner : Account, live : BOOLEAN]
NoToken  == [owner |-> Nobody, live |-> FALSE]
Who      == Account \cup {Nobody}

Empty    == [provider |-> Nobody, name |-> Nobody, token |-> NoToken]
Idle     == [active |-> Nobody, account |-> Nobody]
SignedOut == [in |-> FALSE, account |-> Nobody, busy |-> FALSE]
Provider == "hot_wallet"      \* AuthMethod.HOT_WALLET

\* silent: a reconnection that needs no signature, its token being live.
Flow == [id : 1..MaxStarts, kind : {"reconnect", "login", "file"}, wallet : Wallet \cup {Nobody},
         silent : BOOLEAN, stage : {"wallet", "backend"}, account : Who]

SessionInit ==
  /\ storage = Empty
  /\ service = Idle
  /\ auth = SignedOut
  /\ card = [connected |-> FALSE, account |-> Nobody]
  /\ prompt = FALSE
  /\ selected \in [Wallet -> Account]
  /\ flows = {}
  /\ loggedOut = FALSE
  /\ apart = {}
  /\ starts = 0
  /\ events = 0

\* Every change of the context is followed by the effect that refreshes the
\* wallet state; it keeps the old account where there is no new one.
Become(a) ==
  /\ auth' = a
  /\ card' = IF a.in /\ ~ a.busy /\ a.account # Nobody
             THEN [connected |-> TRUE, account |-> a.account]
             ELSE [card EXCEPT !.connected = a.in]

Started == starts < MaxStarts /\ starts' = starts + 1

Start(kind, w, silent) ==
  [id |-> starts + 1, kind |-> kind, wallet |-> w, silent |-> silent,
   stage |-> "wallet", account |-> Nobody]

Overlap == IF flows = {} THEN apart ELSE apart \cup {"overlap"}

Step(f, stage, a) == (flows \ {f}) \cup {[f EXCEPT !.stage = stage, !.account = a]}

-----------------------------------------------------------------------------
\* The page is loaded again: what was in memory is gone, and AuthProvider
\* reconnects with the last provider.
LoadPage ==
  /\ Started
  /\ service' = Idle
  /\ auth' = SignedOut
  /\ card' = [connected |-> FALSE, account |-> Nobody]
  /\ prompt' = FALSE
  /\ flows' = IF storage.provider = Nobody \/ storage.name = Nobody THEN {}
              ELSE {Start("reconnect", storage.name, storage.token.live)}
  /\ apart' = IF \E f \in flows : f.kind = "login" /\ f.stage = "backend"
                THEN apart \cup {"failed"} ELSE apart
  /\ UNCHANGED <<storage, selected, loggedOut, events>>

\* The login modal is offered while nobody is connected, and stays when a
\* reconnection succeeds behind it.
OpenLogin ==
  /\ ~ card.connected /\ ~ prompt
  /\ prompt' = TRUE
  /\ UNCHANGED <<storage, service, auth, card, selected, flows, loggedOut,
                 apart, starts, events>>

\* WalletOptionButton: refused while another wallet is being connected.
ChooseWallet(w) ==
  /\ prompt /\ ~ auth.busy
  /\ Started
  /\ flows' = flows \cup {Start("login", w, FALSE)}
  /\ Become([auth EXCEPT !.busy = TRUE])
  /\ apart' = Overlap
  /\ loggedOut' = FALSE
  /\ UNCHANGED <<storage, service, prompt, selected, events>>

\* The login file, which has no such guard.  One file at a time.
ChooseFile ==
  /\ prompt /\ \A f \in flows : f.kind # "file"
  /\ Started
  /\ flows' = flows \cup {Start("file", Nobody, FALSE)}
  /\ Become([auth EXCEPT !.busy = TRUE])
  /\ apart' = Overlap
  /\ loggedOut' = FALSE
  /\ UNCHANGED <<storage, service, prompt, selected, events>>

\* CardanoMeshProvider.connect: the account that is selected now is read, and
\* the name of the wallet saved, before the backend has agreed.  A silent
\* reconnection is over by then, and is given the token it finds.
WalletAnswers(f) ==
  LET a == selected[f.wallet] IN
  /\ f.kind # "file" /\ f.stage = "wallet"
  /\ storage' = [storage EXCEPT !.name = f.wallet,
                                !.provider = IF f.kind = "reconnect" THEN Provider ELSE @]
  /\ service' = [active  |-> IF f.kind = "reconnect" THEN Provider ELSE service.active,
                 account |-> a]
  /\ IF f.silent
     THEN flows' = flows \ {f} /\ Become([auth EXCEPT !.in = TRUE, !.account = a])
     ELSE flows' = Step(f, "backend", a) /\ UNCHANGED <<auth, card>>
  /\ UNCHANGED <<prompt, selected, loggedOut, apart, starts, events>>

\* Slip: a token that is there is not replaced.
KeepToken(a) ==
  [storage EXCEPT !.token = IF @ = NoToken THEN [owner |-> a, live |-> TRUE] ELSE @,
                  !.provider = Provider]

\* The token of a login is stored, and its provider made the active one.
SaveToken(a) ==
  [storage EXCEPT !.token = [owner |-> a, live |-> TRUE], !.provider = Provider]

\* The backend accepts the signature.
LoginAccepted(f) ==
  /\ f.kind # "file" /\ f.stage = "backend"
  /\ flows' = flows \ {f}
  /\ storage' = SaveToken(f.account)
  /\ service' = [service EXCEPT !.active = Provider]
  /\ Become([in |-> TRUE, account |-> f.account,
             busy |-> IF f.kind = "login" THEN FALSE ELSE auth.busy])
  /\ prompt' = IF f.kind = "login" THEN FALSE ELSE prompt
  /\ apart' = IF selected[f.wallet] = f.account /\ "overlap" \notin apart
                THEN {} ELSE apart
  /\ UNCHANGED <<selected, loggedOut, starts, events>>

\* A reconnection whose login the backend refuses is shown as connected all
\* the same, with the token it had.
ReconnectRefused(f) ==
  /\ f.kind = "reconnect" /\ f.stage = "backend"
  /\ flows' = flows \ {f}
  /\ Become([auth EXCEPT !.in = TRUE, !.account = f.account])
  /\ UNCHANGED <<storage, service, prompt, selected, loggedOut, apart, starts, events>>

\* The wallet refuses a reconnection.
ReconnectFails(f) ==
  /\ f.kind = "reconnect" /\ f.stage = "wallet"
  /\ flows' = flows \ {f}
  /\ UNCHANGED <<storage, tab, selected, loggedOut, apart, starts, events>>

\* A login fails: the wallet refuses, or the backend, which refuses every
\* login by file, since the request names no address.  The context is cleared,
\* the local storage and the service are not: the name of the wallet stays.
LoginFails(f) ==
  /\ f.kind # "reconnect"
  /\ flows' = flows \ {f}
  /\ Become(SignedOut)
  /\ apart' = IF f.stage = "backend" THEN apart \cup {"failed"} ELSE apart
  /\ UNCHANGED <<storage, service, prompt, selected, loggedOut, starts, events>>

\* Slip: the token outlives the session.
DisconnectLeaving == [storage EXCEPT !.provider = Nobody, !.name = Nobody]

Disconnect == Empty

\* disconnectWallet: logout, then the null wallet state.
Logout ==
  /\ card.connected
  /\ IF service.active = Nobody THEN UNCHANGED <<storage, service>>
     ELSE storage' = Disconnect /\ service' = Idle
  /\ auth' = [SignedOut EXCEPT !.busy = auth.busy]
  /\ card' = [connected |-> FALSE, account |-> Nobody]
  /\ loggedOut' = (flows = {} /\ service.active # Nobody)
  /\ apart' = IF flows = {} /\ service.active # Nobody THEN {} ELSE Overlap
  /\ UNCHANGED <<prompt, selected, flows, starts, events>>

(***************************************************************************)
(* Around the page.                                                        *)
(***************************************************************************)
SwitchAccount(w) ==
  /\ events < MaxEvents /\ events' = events + 1
  /\ \E a \in Account \ {selected[w]} : selected' = [selected EXCEPT ![w] = a]
  /\ apart' = apart \cup {"switched"}
  /\ UNCHANGED <<storage, tab, flows, loggedOut, starts>>

TokenExpires ==
  /\ storage.token.live
  /\ events < MaxEvents /\ events' = events + 1
  /\ storage' = [storage EXCEPT !.token.live = FALSE]
  /\ UNCHANGED <<tab, selected, flows, loggedOut, apart, starts>>

SessionNext ==
  \/ LoadPage \/ OpenLogin \/ ChooseFile \/ Logout \/ TokenExpires
  \/ \E w \in Wallet : ChooseWallet(w) \/ SwitchAccount(w)
  \/ \E f \in flows : \/ WalletAnswers(f) \/ LoginAccepted(f) \/ ReconnectRefused(f)
                      \/ ReconnectFails(f) \/ LoginFails(f)

SessionSpec == SessionInit /\ [][SessionNext]_sessionVars
-----------------------------------------------------------------------------
SessionTypeOK ==
  /\ storage \in [provider : {Provider, Nobody}, name : Wallet \cup {Nobody},
                  token : Token \cup {NoToken}]
  /\ service \in [active : {Provider, Nobody}, account : Who]
  /\ auth \in [in : BOOLEAN, account : Who, busy : BOOLEAN]
  /\ card \in [connected : BOOLEAN, account : Who]
  /\ prompt \in BOOLEAN
  /\ selected \in [Wallet -> Account]
  /\ flows \subseteq Flow
  /\ loggedOut \in BOOLEAN
  /\ apart \subseteq {"overlap", "failed", "switched"}
  /\ starts \in 0..MaxStarts
  /\ events \in 0..MaxEvents

\* The account a connected user sees is the one the stored token was issued
\* to, after any number of page loads and logins, unless the account was
\* switched in the wallet since, two logins overlapped, or one failed or was
\* abandoned after the wallet had answered.
TokenMatchesAccount ==
  auth.in /\ storage.token # NoToken /\ apart = {} =>
    storage.token.owner = auth.account

\* Who has logged out stays out, unless a reconnection or a login was still
\* under way: no page load brings the session back, and nothing of it is left
\* in the browser.
LogoutHolds ==
  loggedOut => /\ ~ auth.in /\ ~ card.connected
               /\ storage = Empty
               /\ flows = {}
=============================================================================
