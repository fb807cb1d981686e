-------------------------- MODULE ProviderSession --------------------------
(***************************************************************************)
(* One hosted verification (Sumsub).  The provider reviews the applicant   *)
(* and sends a signed callback for every change; the server keeps what it  *)
(* last learned in a Redis record, written by status polls and callbacks   *)
(* that race each other.  A poll reads the provider's REST interface,      *)
(* which may lag, and a callback may come late, twice or never.            *)
(***************************************************************************)
EXTENDS Integers, FiniteSets, Sequences

CONSTANTS
  Callers,        \* concurrent requests: status polls and callbacks
  ApplyTries,     \* rounds of applyWebhook against a moving record
  ReviewKinds,    \* the changes the provider may make
  MaxReviews,     \* changes at the provider
  MaxRevision,
  MaxExpiries,    \* times the record's lifetime ends
  NoSession

Restrictive == {"hold", "retry", "reject"}

Kinds == Restrictive \cup {"green"}

ASSUME ProviderAssumption ==
  /\ ReviewKinds \subseteq Kinds
  /\ {ApplyTries, MaxReviews, MaxRevision, MaxExpiries} \subseteq Nat

VARIABLES
  reviews,     \* what the provider has decided, oldest first
  callbacks,   \* the callbacks it has sent
  session,     \* the sealed record: its revision and the evidence last kept
  fenceHash,   \* the hash beside it: revision and newest callback's time
  committed,   \* callbacks claimed by the store, while its hash lives
  call,        \* call[c]: a request under way
  withdrawn,   \* the policies the record names are no longer in force
  expiries

providerVars ==
  <<reviews, callbacks, session, fenceHash, committed, call, withdrawn, expiries>>

\* What evaluate makes of a review; 0 stands for a missing review date or fence.
Evidence ==
  [decision : {"not-started", "review", "approved", "rejected"}, reviewed : Nat, fence : Nat]

NoEvidence == [decision |-> "not-started", reviewed |-> 0, fence |-> 0]

Callbacks == [kind : Kinds, at : Nat]

Resting == [at |-> "idle"]

FreshSession == [revision |-> 1, latest |-> NoEvidence]

ProviderInit ==
  /\ reviews = <<NoEvidence>>
  /\ callbacks = {} /\ committed = {}
  /\ session = NoSession
  /\ fenceHash = [revision |-> 0, eventAt |-> 0]
  /\ call = [c \in Callers |-> Resting]
  /\ withdrawn = FALSE /\ expiries = 0
-----------------------------------------------------------------------------
\* The provider's clock: two ticks a review, so that a callback can follow its review.
Clock == 2 * Len(reviews)

DecisionOf(kind) ==
  CASE kind = "green" -> "approved"
    [] kind \in {"hold", "retry"} -> "review"     \* under way again, or RED with another try
    [] kind = "reject" -> "rejected"              \* RED and FINAL

\* A change at the provider: only a completed review has a date, and its callback may be later.
Review(kind) ==
  /\ Len(reviews) <= MaxReviews
  /\ reviews' = Append(reviews, [decision |-> DecisionOf(kind), fence |-> 0,
                                 reviewed |-> IF kind = "hold" THEN 0 ELSE Clock])
  /\ \E at \in {Clock, Clock + 1} : callbacks' = callbacks \cup {[kind |-> kind, at |-> at]}
  /\ UNCHANGED <<session, fenceHash, committed, call, withdrawn, expiries>>

\* createSdkToken: the record is made once; the hash keeps its newest callback.
CreateSession ==
  /\ session = NoSession /\ ~withdrawn
  /\ session' = FreshSession
  /\ fenceHash' = [fenceHash EXCEPT !.revision = 1]
  /\ UNCHANGED <<reviews, callbacks, committed, call, withdrawn, expiries>>

\* A callback renews the hash and not the record, so the record expires first.
Expire ==
  /\ session # NoSession /\ expiries < MaxExpiries
  /\ expiries' = expiries + 1
  /\ session' = NoSession
  /\ \/ UNCHANGED <<fenceHash, committed>>
     \/ fenceHash' = [revision |-> 0, eventAt |-> 0] /\ committed' = {}
  /\ UNCHANGED <<reviews, callbacks, call, withdrawn>>

\* currentPolicies: the operator's policies change under the record.
Withdraw ==
  /\ ~withdrawn /\ expiries = 0 /\ withdrawn' = TRUE
  /\ UNCHANGED <<reviews, callbacks, session, fenceHash, committed, call, expiries>>
-----------------------------------------------------------------------------
\* retainSumsubWebhookFence: a fence stands until a review at least as new is read.
Retain(current, previous) ==
  IF previous.fence = 0 \/ current.reviewed >= previous.fence
    THEN current
    ELSE [current EXCEPT !.decision = previous.decision, !.fence = previous.fence]

\* applySumsubWebhookFence: a callback may only make the reading less permissive.
ApplyFence(current, callback) ==
  IF callback.kind \in Restrictive
    THEN [current EXCEPT !.decision = DecisionOf(callback.kind), !.fence = callback.at]
    ELSE current

Accepts(c) == call[c] = Resting /\ session # NoSession /\ ~withdrawn

\* currentSumsubStatus and acceptSumsubWebhook begin by reading the record.
Poll(c) ==
  /\ Accepts(c)
  /\ call' = [call EXCEPT ![c] = [at |-> "evaluate", op |-> "poll", revision |-> session.revision,
                                  previous |-> session.latest]]
  /\ UNCHANGED <<reviews, callbacks, session, fenceHash, committed, withdrawn, expiries>>

Deliver(c, callback) ==
  /\ Accepts(c)
  /\ call' = [call EXCEPT ![c] = [at |-> "evaluate", op |-> "callback", callback |-> callback,
                                  previous |-> session.latest]]
  /\ UNCHANGED <<reviews, callbacks, session, fenceHash, committed, withdrawn, expiries>>

\* evaluate: any review the provider has made so far may be what it answers.
Evaluate(c) ==
  /\ call[c].at = "evaluate"
  /\ \E i \in DOMAIN reviews :
       IF call[c].op = "poll"
         THEN call' = [call EXCEPT ![c] =
                [at |-> "save", evidence |-> Retain(reviews[i], @.previous), revision |-> @.revision]]
         ELSE call' = [call EXCEPT ![c] =
                [at |-> "read", evidence |-> Retain(ApplyFence(reviews[i], @.callback), @.previous),
                 callback |-> @.callback, tries |-> 0]]
  /\ UNCHANGED <<reviews, callbacks, session, fenceHash, committed, withdrawn, expiries>>

Hangup(c) ==
  /\ call[c] # Resting
  /\ call' = [call EXCEPT ![c] = Resting]
  /\ UNCHANGED <<reviews, callbacks, session, fenceHash, committed, withdrawn, expiries>>
-----------------------------------------------------------------------------
\* Faulty variant: the revision alone protects the record.
OpenToAnyPoll(evidence) == TRUE

\* The script's fence on polls: the newest callback, whatever it said.
OpenToPoll(evidence) ==
  fenceHash.eventAt <= evidence.reviewed \/ fenceHash.eventAt <= evidence.fence

\* saveObservation
Save(c) ==
  /\ call[c].at = "save" /\ session # NoSession /\ session.revision < MaxRevision
  /\ LET k == call[c]
         same == session.revision = k.revision /\ fenceHash.revision = k.revision
     IN IF same /\ OpenToPoll(k.evidence)
          THEN /\ session' = [revision |-> k.revision + 1, latest |-> k.evidence]
               /\ fenceHash' = [fenceHash EXCEPT !.revision = @ + 1]
          ELSE UNCHANGED <<session, fenceHash>>
  /\ call' = [call EXCEPT ![c] = Resting]
  /\ UNCHANGED <<reviews, callbacks, committed, withdrawn, expiries>>

\* applyWebhook, one round: read the record and merge into it ...
ApplyRead(c) ==
  /\ call[c].at = "read" /\ session # NoSession
  /\ call' = [call EXCEPT ![c] =
       [at |-> "claim", callback |-> @.callback, evidence |-> @.evidence, tries |-> @.tries,
        revision |-> session.revision, merged |-> Retain(@.evidence, session.latest)]]
  /\ UNCHANGED <<reviews, callbacks, session, fenceHash, committed, withdrawn, expiries>>

\* Neither a duplicate nor older than the newest callback.
IsNewest(callback) == callback \notin committed /\ fenceHash.eventAt < callback.at

\* ... and claim the callback and write, unless the record has moved on.
ApplyClaim(c) ==
  /\ call[c].at = "claim" /\ session # NoSession /\ session.revision < MaxRevision
  /\ LET k == call[c]
         moved == fenceHash.revision # k.revision
     IN \/ /\ moved /\ k.callback \notin committed /\ k.tries + 1 < ApplyTries
           /\ call' = [call EXCEPT ![c] = [at |-> "read", callback |-> k.callback,
                                           evidence |-> k.evidence, tries |-> k.tries + 1]]
           /\ UNCHANGED <<session, fenceHash, committed>>
        \/ /\ ~moved /\ IsNewest(k.callback)
           /\ session' = [revision |-> k.revision + 1, latest |-> k.merged]
           /\ fenceHash' = [revision |-> k.revision + 1, eventAt |-> k.callback.at]
           /\ committed' = committed \cup {k.callback}
           /\ call' = [call EXCEPT ![c] = Resting]
        \/ /\ k.callback \in committed \/ (moved /\ k.tries + 1 = ApplyTries)
                \/ (~moved /\ ~IsNewest(k.callback))
           /\ call' = [call EXCEPT ![c] = Resting]
           /\ UNCHANGED <<session, fenceHash, committed>>
  /\ UNCHANGED <<reviews, callbacks, withdrawn, expiries>>

ProviderNext ==
  \/ \E kind \in ReviewKinds : Review(kind)
  \/ CreateSession \/ Expire \/ Withdraw
  \/ \E c \in Callers :
       \/ Poll(c) \/ Evaluate(c) \/ Hangup(c) \/ Save(c) \/ ApplyRead(c) \/ ApplyClaim(c)
       \/ \E callback \in callbacks : Deliver(c, callback)

ProviderSpec == ProviderInit /\ [][ProviderNext]_providerVars
-----------------------------------------------------------------------------
ProviderTypeOK ==
  /\ session \in [revision : 1 .. MaxRevision, latest : Evidence] \cup {NoSession}
  /\ fenceHash \in [revision : 0 .. MaxRevision, eventAt : Nat]
  /\ committed \subseteq callbacks /\ callbacks \subseteq Callbacks

Newest == {b \in committed : b.at = fenceHash.eventAt}

(***************************************************************************)
(* An approval on record is never older than a callback that took it back: *)
(* while the newest callback is a hold or a rejection, only a review dated *)
(* at or after it can be kept as approved.  Polls that read the provider   *)
(* before the callback, and callbacks that arrive out of order, race for   *)
(* the same record; the record and the hash move together throughout.      *)
(***************************************************************************)
ApprovalIsFresh ==
  session # NoSession =>
    /\ session.revision = fenceHash.revision
    /\ session.latest.decision = "approved" =>
         \A b \in Newest : b.kind \in Restrictive => session.latest.reviewed >= b.at
=============================================================================
