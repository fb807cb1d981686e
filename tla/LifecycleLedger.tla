-------------------------- MODULE LifecycleLedger --------------------------
(***************************************************************************)
(* What the hub promises its readers about holders, with no cursors and no *)
(* handlers: the hub holds a set of delivered receipts, and what it shows  *)
(* of a holder is determined by that set alone, by source order, never by  *)
(* the order of delivery.  A receipt is delivered as a whole.              *)
(***************************************************************************)
EXTENDS SourceLog

CONSTANTS
  Subjects,       \* holders
  NoCredential,   \* what the hub shows of a holder without a usable credential
  NoContract      \* no source contract is pinned yet

VARIABLES
  trusted,     \* the contract whose logs count, or NoContract
  delivered,   \* the receipts delivered so far
  view         \* what readers see of each holder

ledgerVars == <<trusted, delivered, view>>

ViewsAgree(V, R, c) == \A s \in Subjects : IsView(V[s], EntriesOf(R, s, c))

Init ==
  /\ trusted = NoContract
  /\ delivered = {}
  /\ ViewsAgree(view, {}, NoContract)

Pin ==
  /\ trusted = NoContract
  /\ trusted' # NoContract
  /\ UNCHANGED <<delivered, view>>

Deliver(r) ==
  /\ trusted # NoContract
  /\ r \notin delivered
  /\ delivered' = delivered \cup {r}
  /\ ViewsAgree(view', delivered', trusted)
  /\ UNCHANGED trusted

Next == Pin \/ \E r \in delivered' : Deliver(r)

Spec == Init /\ [][Next]_ledgerVars
=============================================================================
