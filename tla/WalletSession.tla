--------------------------- MODULE WalletSession ---------------------------
(***************************************************************************)
(* The browser's side of a wallet session (pipeline/wallet-session.ts): a  *)
(* revision number that every interruption raises, the account the session *)
(* is bound to, and the page's requests that are under way.  A request     *)
(* remembers the revision it started under; the wallet is asked for its    *)
(* account before and after every call to the service.                     *)
(***************************************************************************)
EXTENDS Integers, FiniteSets

CONSTANTS
  WalletAccounts,
  NoWallet,       \* no account: the wallet is locked, or the session unbound
  MaxConnects,    \* connections of the page, each of which is one flow
  MaxSwitches     \* account changes in the wallet

VARIABLES
  selected,    \* the account the wallet has selected
  switches,
  heard,       \* the page has been told of the account
  fence,     \* the WalletSession object
  tasks,       \* requests under way
  holder,      \* the account each flow was opened for
  connects

sessionVars == <<selected, switches, heard, fence, tasks, holder, connects>>

ASSUME WalletAssumption == NoWallet \notin WalletAccounts /\ MaxConnects \in Nat

FlowIds == 1 .. MaxConnects
NoFlow == 0

SessionInit ==
  /\ selected \in WalletAccounts /\ switches = 0 /\ heard = TRUE
  /\ fence = [revision |-> 0, attached |-> FALSE, address |-> NoWallet,
                observed |-> NoWallet, authorized |-> FALSE]
  /\ tasks = {} /\ holder = [f \in FlowIds |-> NoWallet] /\ connects = 0

\* A request made in a flow, about a request of that or an earlier flow.
Task(kind, at, flow, about) ==
  [kind |-> kind, at |-> at, revision |-> fence.revision, flow |-> flow, about |-> about,
   got |-> "nothing"]

\* The request is waiting for the wallet.
AtWallet(t) == t.at \in {"permit", "sign", "check", "recheck"}

Current(t) == t.revision = fence.revision

\* dispose: what waits for the wallet is settled, what waits for the service is not.
Disposed ==
  [revision |-> fence.revision + 1, attached |-> FALSE, address |-> NoWallet,
   observed |-> NoWallet, authorized |-> FALSE]
Cancelled == {t \in tasks : ~AtWallet(t)}

Dispose ==
  /\ fence' = Disposed /\ tasks' = Cancelled /\ heard' = TRUE
  /\ UNCHANGED <<selected, switches, holder, connects>>

\* attach, then the permission prompt; the page numbers its flows.
Attach(kind) ==
  /\ connects < MaxConnects
  /\ fence' = [Disposed EXCEPT !.attached = TRUE]
  /\ connects' = connects + 1 /\ heard' = TRUE
  /\ tasks' = Cancelled \cup
       {[Task(kind, "permit", connects + 1, connects + 1) EXCEPT !.revision = fence.revision + 1]}
  /\ UNCHANGED <<selected, switches, holder>>

\* bind, with the account the wallet permits
Binds == selected # NoWallet /\ fence.observed \in {NoWallet, selected}

Replaced(t, u) == (tasks \ {t}) \cup {u}

Bind(t, next) ==
  /\ t.at = "permit" /\ Binds
  /\ fence' = [fence EXCEPT !.address = selected, !.observed = selected]
  /\ holder' = [holder EXCEPT ![t.flow] = selected]
  /\ tasks' = Replaced(t, next)
  /\ UNCHANGED <<selected, switches, heard, connects>>

\* The wallet answers eth_accounts with the account of the fence.
Checks == selected = fence.address

TaskStep(t, next) ==
  /\ tasks' = Replaced(t, next)
  /\ UNCHANGED <<selected, switches, heard, fence, holder, connects>>

TaskEnds(t) ==
  /\ tasks' = tasks \ {t}
  /\ UNCHANGED <<selected, switches, heard, fence, holder, connects>>

\* authorize: the proof's lifetime runs from before the request was sent.
Authorized == [fence EXCEPT !.authorized = TRUE]

-----------------------------------------------------------------------------
\* The user selects another account in the wallet, or locks it.
SwitchAccount(a) ==
  /\ switches < MaxSwitches /\ a # selected
  /\ selected' = a /\ switches' = switches + 1 /\ heard' = ~fence.attached
  /\ UNCHANGED <<fence, tasks, holder, connects>>

\* accountsChanged: it ends a bound session unless it names the same account.
Foreign == ~heard /\ fence.address # NoWallet /\ selected # fence.address

AccountsHeard ==
  /\ ~heard /\ ~Foreign
  /\ heard' = TRUE /\ fence' = [fence EXCEPT !.observed = selected]
  /\ UNCHANGED <<selected, switches, tasks, holder, connects>>

\* chainChanged, disconnect
WalletGone == fence.attached

\* A prompt is declined, times out, or answers for another account.
PromptFails(t) ==
  /\ AtWallet(t)
  /\ \/ t.at \in {"check", "recheck"} /\ ~Checks
     \/ t.at = "permit" /\ ~Binds
     \/ t.at \in {"permit", "sign"}

\* expireIfNeeded, on a timer and in every check
Expires == fence.authorized
=============================================================================
