------------------------------ MODULE KycProof ------------------------------
(***************************************************************************)
(* The guided and the hosted verification, proved: that a flow is handled  *)
(* under the policies its wallet signed for, that no callback of the       *)
(* provider is outlived by an older approval, that a start request pays    *)
(* once, that an issued request says nothing that was not earned, that an  *)
(* accepted export of it is backed, and that the pages show one session at *)
(* a time.  For any number of flows, wallets, handlers, callers,           *)
(* connections, redeployments and exports, and for every identity policy,  *)
(* manifest and schedule.                                                  *)
(***************************************************************************)
EXTENDS ProcessingPolicy, ProviderSession, KycFlow, AuditExport, VerifyPage, ProviderPage,
        WellFoundedInduction, TLAPS

\* The policies of a flow (ProcessingPolicy).

Pairs == [processing : DOMAIN Processing, retention : DOMAIN Retention]

SomeDeadlines ==
  {VaultDeadline(Retention[r], o) : r \in DOMAIN Retention, o \in Outcomes4}

Filings ==
  [processing : DOMAIN Processing, retention : DOMAIN Retention,
   deadline : SomeDeadlines, published : BOOLEAN]

PolicyTypes ==
  /\ running \in [processing : DOMAIN Processing, retention : DOMAIN Retention, vendor : Vendors]
  /\ shown \in [Consents -> Pairs \cup {NoneYet}]
  /\ signed \in [Consents -> Pairs \cup {NoneYet}]
  /\ filed \in [Consents -> Filings \cup {NoneYet}]

\* A pair that a server could run with.
Runs(b) ==
  /\ RunnableProcessing(Processing[b.processing]) /\ RunnableRetention(Retention[b.retention])
  /\ Retention[b.retention].customer = Processing[b.processing].customer

\* The message tells of such a pair, and the signature is of the message.
SignedAsShown ==
  \A f \in Consents :
    /\ shown[f] # NoneYet => Runs(shown[f])
    /\ signed[f] # NoneYet => signed[f] = shown[f]

HandledAsSigned ==
  \A f \in Consents, x \in handled :
    x.flow = f => signed[f] # NoneYet /\ Discloses(Processing[signed[f].processing], x)

\* A filed request was authorised for every stage, the chain's included: what
\* the operator recovers later needs no policy in force.
FiledAsSigned ==
  \A f \in Consents : filed[f] # NoneYet =>
    /\ signed[f] # NoneYet
    /\ \A x \in IssuanceHandlings(f) : Discloses(Processing[signed[f].processing], x)
    /\ filed[f].deadline \in Deadlines(Retention[signed[f].retention])

PolicyInv == PolicyTypes /\ SignedAsShown /\ HandledAsSigned /\ FiledAsSigned

-----------------------------------------------------------------------------
\* Some place of a list comes first.
LEMMA FirstPlace ==
  ASSUME NEW N, N \subseteq Nat, N # {}
  PROVE  \E n \in N : \A m \in N : n <= m
<1>1. PICK n \in N : \A m \in N : ~(<<m, n>> \in OpToRel(<, Nat))
  BY NatLessThanWellFounded, WFMin
<1>2. \A m, k \in Nat : m < k => <<m, k>> \in OpToRel(<, Nat)
  BY DEF OpToRel
<1>3. \A m \in N : ~(m < n)
  BY <1>1, <1>2
<1> QED
  BY <1>3

\* The first chain flow of a manifest in order tells of the publication.
LEMMA PublicationIsTold ==
  ASSUME NEW name \in DOMAIN Processing, FlowsDefined(Processing[name]),
         ChainFlows(Processing[name]) # {}
  PROVE  \E i \in ChainFlows(Processing[name]) :
           TellsOfPublication(Processing[name], Processing[name].flows[i])
<1> DEFINE p == Processing[name]
<1>1. ChainFlows(p) \subseteq Nat
  BY PolicyAssumption DEF ChainFlows
<1>2. PICK i \in ChainFlows(p) : \A j \in ChainFlows(p) : i <= j
  BY <1>1, FirstPlace
<1>3. TellsOfPublication(p, p.flows[i])
  BY <1>2 DEF FlowsDefined
<1> QED
  BY <1>2, <1>3

\* What a manifest in order authorises, it discloses.
LEMMA AuthorizedIsDisclosed ==
  ASSUME NEW name \in DOMAIN Processing, NEW f, NEW stage, NEW recipient, NEW data,
         RunnableProcessing(Processing[name]),
         AuthorizedBy(name, name, stage, recipient, data)
  PROVE  Discloses(Processing[name], Handling(f, stage, recipient, data))
<1> DEFINE p == Processing[name] x == Handling(f, stage, recipient, data)
<1>1. /\ p.status = "approved" /\ RefsDefined(p) /\ ResidentNumberDefined(p)
      /\ FlowsDefined(p) /\ OnchainDefined(p)
  BY DEF RunnableProcessing, DefinedProcessing
<1>2. x.stage = stage /\ x.recipient = recipient /\ x.data = data
  BY DEF Handling
<1>3. \E i \in DOMAIN p.flows : Covers(p.flows[i], stage, recipient, data)
  BY DEF AuthorizedBy
<1>4. p.refs = {"approval", "legal", "contract"}
  BY <1>1 DEF RefsDefined
<1>5. ASSUME stage = OnchainStage
      PROVE  p.onchain.basis /\ \E i \in ChainFlows(p) : TellsOfPublication(p, p.flows[i])
  <2>1. ChainFlows(p) # {}
    BY <1>3, <1>5 DEF ChainFlows, Covers
  <2>2. p.onchain.basis
    BY <1>1 DEF OnchainDefined
  <2> QED
    BY <1>1, <2>1, <2>2, PublicationIsTold
<1>6. RRN \in data => p.rrn.authority
  BY <1>1 DEF AuthorizedBy, ResidentNumberDefined
<1>7. stage # "wallet_consent" => p.model # "sdk-only"
  BY DEF AuthorizedBy
<1> HIDE DEF p, x
<1> QED
  BY <1>1, <1>2, <1>3, <1>4, <1>5, <1>6, <1>7 DEF Discloses, p, x

\* What the server lets pass while it has a pair, the binding discloses.
LEMMA AllowedIsDisclosed ==
  ASSUME PolicyTypes, InForce, NEW b, NEW f, NEW stage, NEW recipient, NEW data,
         Allowed(b, stage, recipient, data)
  PROVE  /\ b.processing = running.processing
         /\ Discloses(Processing[b.processing], Handling(f, stage, recipient, data))
<1>1. b.processing = running.processing
  BY DEF Allowed, AuthorizedBy, Bound
<1>2. running.processing \in DOMAIN Processing /\ RunnableProcessing(Processing[running.processing])
  BY DEF InForce, PolicyTypes
<1> QED
  BY <1>1, <1>2, AuthorizedIsDisclosed DEF Allowed

LEMMA PairRuns ==
  ASSUME PolicyTypes, InForce
  PROVE  Pair \in Pairs /\ Runs(Pair)
BY DEF PolicyTypes, InForce, Pair, Pairs, Runs

LEMMA ShowKeeps ==
  ASSUME PolicyInv, NEW f \in Consents, Show(f)
  PROVE  PolicyInv'
<1>1. /\ shown' = [shown EXCEPT ![f] = Pair] /\ shown[f] = NoneYet /\ InForce
      /\ UNCHANGED <<running, signed, handled, filed>>
  BY DEF Show
<1>2. Pair \in Pairs /\ Runs(Pair)
  BY <1>1, PairRuns DEF PolicyInv
<1>3. PolicyTypes'
  BY <1>1, <1>2 DEF PolicyInv, PolicyTypes
<1>4. shown'[f] = Pair /\ \A g \in Consents : g # f => shown'[g] = shown[g]
  BY <1>1, <1>2 DEF PolicyInv, PolicyTypes
<1>5. signed[f] = NoneYet
  BY <1>1 DEF PolicyInv, SignedAsShown
<1>6. SignedAsShown'
  BY <1>1, <1>2, <1>4, <1>5 DEF PolicyInv, SignedAsShown, Runs
<1> QED
  BY <1>1, <1>3, <1>6 DEF PolicyInv, HandledAsSigned, FiledAsSigned

LEMMA SignKeeps ==
  ASSUME PolicyInv, NEW f \in Consents, Sign(f)
  PROVE  PolicyInv'
<1> DEFINE x == Handling(f, "wallet_consent", "proofmark:web", WalletData) b == shown[f]
<1>1. /\ b # NoneYet /\ InForce /\ signed' = [signed EXCEPT ![f] = b]
      /\ Allowed(b, "wallet_consent", "proofmark:web", WalletData)
      /\ handled' = handled \cup {x} /\ UNCHANGED <<running, shown, filed>>
  BY DEF Sign
<1>2. Discloses(Processing[b.processing], x)
  BY <1>1, AllowedIsDisclosed DEF PolicyInv
<1>3. b \in Pairs
  BY <1>1 DEF PolicyInv, PolicyTypes
<1>4. signed'[f] = b /\ \A g \in Consents : g # f => signed'[g] = signed[g]
  BY <1>1 DEF PolicyInv, PolicyTypes
<1>5. \A g \in Consents : signed[g] # NoneYet => signed'[g] = signed[g]
  BY <1>4 DEF PolicyInv, SignedAsShown
<1>6. PolicyTypes'
  BY <1>1, <1>3 DEF PolicyInv, PolicyTypes
<1>7. SignedAsShown'
  BY <1>1, <1>4 DEF PolicyInv, SignedAsShown, Runs
<1>8. x.flow = f
  BY DEF Handling
<1> HIDE DEF x
<1>9. HandledAsSigned'
  BY <1>1, <1>2, <1>4, <1>5, <1>8 DEF PolicyInv, HandledAsSigned
<1>10. FiledAsSigned'
  BY <1>1, <1>5 DEF PolicyInv, FiledAsSigned
<1> QED
  BY <1>6, <1>7, <1>9, <1>10 DEF PolicyInv

\* Data goes to a vendor under the manifest that was signed.
LEMMA HandKeeps ==
  ASSUME PolicyInv, NEW f \in Consents, NEW stage, NEW data, Hand(f, stage, data)
  PROVE  PolicyInv'
<1> DEFINE x == Handling(f, stage, running.vendor, data)
<1>1. /\ signed[f] # NoneYet /\ InForce /\ Allowed(signed[f], stage, running.vendor, data)
      /\ handled' = handled \cup {x} /\ UNCHANGED <<running, shown, signed, filed>>
  BY DEF Hand
<1>2. Discloses(Processing[signed[f].processing], x)
  BY <1>1, AllowedIsDisclosed DEF PolicyInv
<1>3. x.flow = f
  BY DEF Handling
<1> HIDE DEF x
<1>4. HandledAsSigned'
  BY <1>1, <1>2, <1>3 DEF PolicyInv, HandledAsSigned
<1> QED
  BY <1>1, <1>4 DEF PolicyInv, PolicyTypes, SignedAsShown, FiledAsSigned, Runs

\* What an issuance is allowed to do, its wallet signed for.
LEMMA IssuanceIsDisclosed ==
  ASSUME PolicyTypes, NEW f \in Consents, IssuanceAllowed(f)
  PROVE  \A x \in IssuanceHandlings(f) :
           x.flow = f /\ Discloses(Processing[signed[f].processing], x)
<1>1. ASSUME NEW x \in IssuanceHandlings(f)
      PROVE  x.flow = f /\ x = Handling(f, x.stage, x.recipient, x.data)
  BY DEF IssuanceHandlings, Handling
<1>2. ASSUME NEW x \in IssuanceHandlings(f)
      PROVE  Discloses(Processing[signed[f].processing], x)
  <2>1. InForce /\ Allowed(signed[f], x.stage, x.recipient, x.data)
    BY DEF IssuanceAllowed
  <2>2. Discloses(Processing[signed[f].processing], Handling(f, x.stage, x.recipient, x.data))
    BY <2>1, AllowedIsDisclosed
  <2> QED
    BY <1>1, <2>2
<1> QED
  BY <1>1, <1>2

LEMMA RequestKeeps ==
  ASSUME PolicyInv, NEW f \in Consents, NEW o \in Outcomes4, Request(f, o)
  PROVE  PolicyInv'
<1> DEFINE d == VaultDeadline(Retention[running.retention], o)
           new == [processing |-> running.processing, retention |-> running.retention,
                   deadline |-> d, published |-> FALSE]
<1>1. /\ IssuanceAllowed(f) /\ filed' = [filed EXCEPT ![f] = new]
      /\ handled' \subseteq handled \cup IssuanceHandlings(f)
      /\ UNCHANGED <<running, shown, signed>>
  BY DEF Request
<1>2. \A x \in IssuanceHandlings(f) :
        x.flow = f /\ Discloses(Processing[signed[f].processing], x)
  BY <1>1, IssuanceIsDisclosed DEF PolicyInv
<1>3. signed[f] # NoneYet /\ signed[f].retention = running.retention
  BY <1>1 DEF IssuanceAllowed, Retains
<1>4. d \in SomeDeadlines /\ d \in Deadlines(Retention[signed[f].retention])
  BY <1>3 DEF PolicyInv, PolicyTypes, SomeDeadlines, Deadlines
<1> HIDE DEF d
<1>5. new \in Filings /\ new.deadline = d
  BY <1>4 DEF PolicyInv, PolicyTypes, Filings
<1> HIDE DEF new
<1>6. filed'[f] = new /\ \A g \in Consents : g # f => filed'[g] = filed[g]
  BY <1>1 DEF PolicyInv, PolicyTypes
<1>7. PolicyTypes'
  BY <1>1, <1>5 DEF PolicyInv, PolicyTypes
<1>8. SignedAsShown'
  BY <1>1 DEF PolicyInv, SignedAsShown, Runs
<1>9. HandledAsSigned'
  BY <1>1, <1>2, <1>3 DEF PolicyInv, HandledAsSigned
<1>10. FiledAsSigned'
  <2>1. ASSUME NEW g \in Consents, filed'[g] # NoneYet
        PROVE  /\ signed[g] # NoneYet
               /\ \A x \in IssuanceHandlings(g) : Discloses(Processing[signed[g].processing], x)
               /\ filed'[g].deadline \in Deadlines(Retention[signed[g].retention])
    <3>1. CASE g = f
      BY <1>2, <1>3, <1>4, <1>5, <1>6, <3>1
    <3>2. CASE g # f
      BY <1>6, <2>1, <3>2 DEF PolicyInv, FiledAsSigned
    <3> QED
      BY <3>1, <3>2
  <2> QED
    BY <1>1, <2>1 DEF FiledAsSigned, IssuanceHandlings, Handling
<1> QED
  BY <1>7, <1>8, <1>9, <1>10 DEF PolicyInv

\* The transaction goes on the chain, for the holder or for the operator.
LEMMA PublishKeeps ==
  ASSUME PolicyInv, NEW f \in Consents, Publish(f)
  PROVE  PolicyInv'
<1> DEFINE new == [filed[f] EXCEPT !.published = TRUE]
<1>1. /\ filed[f] # NoneYet /\ filed' = [filed EXCEPT ![f] = new]
      /\ handled' \subseteq handled \cup IssuanceHandlings(f)
      /\ UNCHANGED <<running, shown, signed>>
  BY DEF Publish
<1>2. filed[f] \in Filings
  BY <1>1 DEF PolicyInv, PolicyTypes
<1>3. new \in Filings /\ new.deadline = filed[f].deadline
  BY <1>2 DEF Filings
<1> HIDE DEF new
<1>4. filed'[f] = new /\ \A g \in Consents : g # f => filed'[g] = filed[g]
  BY <1>1 DEF PolicyInv, PolicyTypes
<1>5. PolicyTypes'
  BY <1>1, <1>3 DEF PolicyInv, PolicyTypes
<1>6. SignedAsShown'
  BY <1>1 DEF PolicyInv, SignedAsShown, Runs
<1>7. HandledAsSigned'
  <2>1. \A x \in IssuanceHandlings(f) : x.flow = f
    BY DEF IssuanceHandlings, Handling
  <2>2. /\ signed[f] # NoneYet
        /\ \A x \in IssuanceHandlings(f) : Discloses(Processing[signed[f].processing], x)
    BY <1>1 DEF PolicyInv, FiledAsSigned
  <2> QED
    BY <1>1, <2>1, <2>2 DEF PolicyInv, HandledAsSigned
<1>8. FiledAsSigned'
  <2>1. ASSUME NEW g \in Consents, filed'[g] # NoneYet
        PROVE  /\ signed[g] # NoneYet
               /\ \A x \in IssuanceHandlings(g) : Discloses(Processing[signed[g].processing], x)
               /\ filed'[g].deadline \in Deadlines(Retention[signed[g].retention])
    BY <1>1, <1>3, <1>4, <2>1 DEF PolicyInv, FiledAsSigned
  <2> QED
    BY <1>1, <2>1 DEF FiledAsSigned, IssuanceHandlings, Handling
<1> QED
  BY <1>5, <1>6, <1>7, <1>8 DEF PolicyInv

LEMMA DeployKeeps ==
  ASSUME PolicyInv, Deploy
  PROVE  PolicyInv'
<1>1. running' \in [processing : DOMAIN Processing, retention : DOMAIN Retention, vendor : Vendors]
  BY DEF Deploy, PolicyInv, PolicyTypes
<1> QED
  BY <1>1 DEF Deploy, PolicyInv, PolicyTypes, SignedAsShown, HandledAsSigned, FiledAsSigned, Runs,
              IssuanceHandlings, Handling

\* Whatever the operator deploys between the steps of a flow, what is processed
\* of it is what its wallet signed for, and what is filed with its record is a
\* deadline of the schedule it signed for (privacy-processing-policy.ts and
\* retention-policy.ts, and their uses in the routes of the flow).
THEOREM SignedBeforeProcessed == PolicySpec => []ProcessedAsDisclosed
<1>1. ASSUME PolicyInit
      PROVE  PolicyInv
  BY <1>1 DEF PolicyInit, PolicyInv, PolicyTypes, SignedAsShown, HandledAsSigned, FiledAsSigned
<1>2. ASSUME PolicyInv, [PolicyNext]_policyVars
      PROVE  PolicyInv'
  <2>1. CASE Deploy
    BY <1>2, <2>1, DeployKeeps
  <2>2. ASSUME NEW f \in Consents, Show(f) \/ Sign(f) \/ BankStep(f) \/ Resume(f) \/ Recover(f)
        PROVE  PolicyInv'
    BY <1>2, <2>2, ShowKeeps, SignKeeps, HandKeeps, PublishKeeps DEF BankStep, Resume, Recover
  <2>3. ASSUME NEW f \in Consents, NEW card \in BOOLEAN, DocumentStep(f, card)
        PROVE  PolicyInv'
    BY <1>2, <2>3, HandKeeps DEF DocumentStep
  <2>4. ASSUME NEW f \in Consents, NEW o \in Outcomes4, Request(f, o)
        PROVE  PolicyInv'
    BY <1>2, <2>4, RequestKeeps
  <2>5. CASE UNCHANGED policyVars
    BY <1>2, <2>5 DEF policyVars, PolicyInv, PolicyTypes, SignedAsShown, HandledAsSigned,
                      FiledAsSigned, Runs, IssuanceHandlings, Handling
  <2> QED
    BY <1>2, <2>1, <2>2, <2>3, <2>4, <2>5 DEF PolicyNext
<1>3. ASSUME PolicyInv
      PROVE  ProcessedAsDisclosed
  BY <1>3 DEF PolicyInv, SignedAsShown, HandledAsSigned, FiledAsSigned, Runs, ProcessedAsDisclosed
<1> QED
  BY <1>1, <1>2, <1>3, PTL DEF PolicySpec

-----------------------------------------------------------------------------
\* The hosted verification (ProviderSession).

\* Evidence that a fence changed is never an approval.
FencedEvidence == {e \in Evidence : e.fence # 0 => e.decision # "approved"}

\* What a callback has made of it: a hold or a rejection approves nothing.
MadeBy(callback, evidence) ==
  callback.kind \in Restrictive => evidence.decision # "approved"

Calls ==
  {Resting}
    \cup [at : {"evaluate"}, op : {"poll"}, revision : Nat, previous : FencedEvidence]
    \cup [at : {"evaluate"}, op : {"callback"}, callback : Callbacks, previous : FencedEvidence]
    \cup [at : {"save"}, evidence : FencedEvidence, revision : Nat]
    \cup [at : {"read"}, callback : Callbacks, evidence : FencedEvidence, tries : Nat]
    \cup [at : {"claim"}, callback : Callbacks, evidence : FencedEvidence, tries : Nat,
          revision : Nat, merged : FencedEvidence]

ProviderTypes ==
  /\ reviews \in Seq({e \in Evidence : e.fence = 0})
  /\ callbacks \subseteq Callbacks /\ committed \subseteq Callbacks
  /\ session # NoSession => session \in [revision : Nat, latest : FencedEvidence]
  /\ fenceHash \in [revision : Nat, eventAt : Nat]
  /\ call \in [Callers -> Calls]

\* The hash keeps the time of the newest callback, and no call of a hold or a
\* rejection carries an approval.
CallsFit ==
  /\ \A b \in committed : b.at <= fenceHash.eventAt
  /\ \A c \in Callers :
       /\ call[c].at = "read" => MadeBy(call[c].callback, call[c].evidence)
       /\ call[c].at = "claim" =>
            MadeBy(call[c].callback, call[c].evidence) /\ MadeBy(call[c].callback, call[c].merged)

ProviderInv == ProviderTypes /\ CallsFit /\ ApprovalIsFresh

LEMMA RetainKeeps ==
  ASSUME NEW x \in FencedEvidence, NEW y \in FencedEvidence
  PROVE  /\ Retain(x, y) \in FencedEvidence
         /\ x.decision # "approved" => Retain(x, y).decision # "approved"
BY DEF Retain, FencedEvidence, Evidence

LEMMA ApplyFenceKeeps ==
  ASSUME NEW e \in Evidence, e.fence = 0, NEW b \in Callbacks
  PROVE  ApplyFence(e, b) \in FencedEvidence /\ MadeBy(b, ApplyFence(e, b))
BY DEF ApplyFence, FencedEvidence, Evidence, MadeBy, DecisionOf, Callbacks, Kinds, Restrictive

\* Changing one call leaves the others alone.
LEMMA OneCall ==
  ASSUME ProviderTypes, CallsFit, NEW c \in Callers, NEW x \in Calls, call' = [call EXCEPT ![c] = x],
         x.at = "read" => MadeBy(x.callback, x.evidence),
         x.at = "claim" => MadeBy(x.callback, x.evidence) /\ MadeBy(x.callback, x.merged),
         UNCHANGED <<committed, fenceHash>>
  PROVE  call' \in [Callers -> Calls] /\ CallsFit'
<1>1. call' \in [Callers -> Calls]
  BY DEF ProviderTypes
<1>2. \A d \in Callers : call'[d] = IF d = c THEN x ELSE call[d]
  BY DEF ProviderTypes
<1> QED
  BY <1>1, <1>2 DEF CallsFit

LEMMA PollKeeps ==
  ASSUME ProviderInv, NEW c \in Callers, Poll(c) PROVE ProviderInv'
<1> DEFINE x == [at |-> "evaluate", op |-> "poll", revision |-> session.revision,
                 previous |-> session.latest]
<1>1. x \in Calls
  BY DEF Poll, Accepts, Calls, ProviderInv, ProviderTypes
<1>2. x.at = "evaluate"
  OBVIOUS
<1>3. call' = [call EXCEPT ![c] = x]
  BY DEF Poll
<1> HIDE DEF x
<1>4. call' \in [Callers -> Calls] /\ CallsFit'
  BY <1>1, <1>2, <1>3, OneCall DEF Poll, ProviderInv
<1>5. ProviderTypes'
  BY <1>4 DEF Poll, ProviderInv, ProviderTypes
<1>6. ApprovalIsFresh'
  BY DEF Poll, ProviderInv, ApprovalIsFresh, Newest
<1> QED
  BY <1>4, <1>5, <1>6 DEF ProviderInv

LEMMA DeliverKeeps ==
  ASSUME ProviderInv, NEW c \in Callers, NEW b \in callbacks, Deliver(c, b) PROVE ProviderInv'
<1> DEFINE x == [at |-> "evaluate", op |-> "callback", callback |-> b, previous |-> session.latest]
<1>1. x \in Calls
  BY DEF Deliver, Accepts, Calls, ProviderInv, ProviderTypes
<1>2. x.at = "evaluate"
  OBVIOUS
<1>3. call' = [call EXCEPT ![c] = x]
  BY DEF Deliver
<1> HIDE DEF x
<1>4. call' \in [Callers -> Calls] /\ CallsFit'
  BY <1>1, <1>2, <1>3, OneCall DEF Deliver, ProviderInv
<1>5. ProviderTypes'
  BY <1>4 DEF Deliver, ProviderInv, ProviderTypes
<1>6. ApprovalIsFresh'
  BY DEF Deliver, ProviderInv, ApprovalIsFresh, Newest
<1> QED
  BY <1>4, <1>5, <1>6 DEF ProviderInv

LEMMA EvaluateKeeps ==
  ASSUME ProviderInv, NEW c \in Callers, Evaluate(c) PROVE ProviderInv'
<1> DEFINE k == call[c]
<1>1. PICK i \in DOMAIN reviews :
        IF k.op = "poll"
          THEN call' = [call EXCEPT ![c] =
                 [at |-> "save", evidence |-> Retain(reviews[i], k.previous), revision |-> k.revision]]
          ELSE call' = [call EXCEPT ![c] =
                 [at |-> "read", evidence |-> Retain(ApplyFence(reviews[i], k.callback), k.previous),
                  callback |-> k.callback, tries |-> 0]]
  BY Zenon DEF Evaluate
<1>2. reviews[i] \in Evidence /\ reviews[i].fence = 0 /\ reviews[i] \in FencedEvidence
  BY DEF ProviderInv, ProviderTypes, FencedEvidence
<1>3. k \in Calls /\ k.at = "evaluate"
  BY DEF ProviderInv, ProviderTypes, Evaluate
<1>4. UNCHANGED <<committed, fenceHash>>
  BY DEF Evaluate
<1>5. call' \in [Callers -> Calls] /\ CallsFit'
  <2>1. CASE k.op = "poll"
    <3> DEFINE e == Retain(reviews[i], k.previous)
               x == [at |-> "save", evidence |-> e, revision |-> k.revision]
    <3>1. k.previous \in FencedEvidence /\ k.revision \in Nat
      BY <1>3, <2>1 DEF Calls, Resting
    <3>2. e \in FencedEvidence
      BY <1>2, <3>1, RetainKeeps
    <3>3. x \in Calls /\ x.at = "save"
      BY <3>1, <3>2 DEF Calls
    <3>4. call' = [call EXCEPT ![c] = x]
      BY <1>1, <2>1
    <3> HIDE DEF x
    <3> QED
      BY <1>4, <3>3, <3>4, OneCall DEF ProviderInv
  <2>2. CASE k.op # "poll"
    <3> DEFINE a == ApplyFence(reviews[i], k.callback)
               e == Retain(a, k.previous)
               x == [at |-> "read", evidence |-> e, callback |-> k.callback, tries |-> 0]
    <3>1. k.previous \in FencedEvidence /\ k.callback \in Callbacks
      BY <1>3, <2>2 DEF Calls, Resting
    <3>2. a \in FencedEvidence /\ MadeBy(k.callback, a)
      BY <1>2, <3>1, ApplyFenceKeeps
    <3> HIDE DEF a
    <3>3. e \in FencedEvidence /\ MadeBy(k.callback, e)
      BY <3>1, <3>2, RetainKeeps DEF MadeBy
    <3> HIDE DEF e
    <3>4. x \in Calls /\ x.at = "read" /\ x.evidence = e /\ x.callback = k.callback
      BY <3>1, <3>3 DEF Calls
    <3>5. call' = [call EXCEPT ![c] = x]
      BY <1>1, <2>2 DEF a, e
    <3> HIDE DEF x
    <3> QED
      BY <1>4, <3>3, <3>4, <3>5, OneCall DEF ProviderInv
  <2> QED
    BY <2>1, <2>2
<1>6. ProviderTypes'
  BY <1>5 DEF Evaluate, ProviderInv, ProviderTypes
<1>7. ApprovalIsFresh'
  BY DEF Evaluate, ProviderInv, ApprovalIsFresh, Newest
<1> QED
  BY <1>5, <1>6, <1>7 DEF ProviderInv

LEMMA HangupKeeps ==
  ASSUME ProviderInv, NEW c \in Callers, Hangup(c) PROVE ProviderInv'
<1>1. Resting \in Calls /\ Resting.at = "idle"
  BY DEF Calls, Resting
<1>2. call' \in [Callers -> Calls] /\ CallsFit'
  BY <1>1, OneCall DEF Hangup, ProviderInv
<1>3. ProviderTypes'
  BY <1>2 DEF Hangup, ProviderInv, ProviderTypes
<1>4. ApprovalIsFresh'
  BY DEF Hangup, ProviderInv, ApprovalIsFresh, Newest
<1> QED
  BY <1>2, <1>3, <1>4 DEF ProviderInv

\* A poll that is let through is at least as new as the newest callback, or
\* was itself fenced off.
LEMMA SaveKeeps ==
  ASSUME ProviderInv, NEW c \in Callers, Save(c) PROVE ProviderInv'
<1> DEFINE k == call[c]
<1>1. k \in Calls /\ k.at = "save"
  BY DEF ProviderInv, ProviderTypes, Save
<1>2. k.evidence \in FencedEvidence /\ k.revision \in Nat
  BY <1>1 DEF Calls, Resting
<1>3. Resting \in Calls /\ Resting.at = "idle"
  BY DEF Calls, Resting
<1>4. /\ call' = [call EXCEPT ![c] = Resting]
      /\ UNCHANGED <<reviews, callbacks, committed, withdrawn, expiries>>
  BY DEF Save
<1>5. fenceHash'.eventAt = fenceHash.eventAt /\ fenceHash' \in [revision : Nat, eventAt : Nat]
  BY DEF Save, ProviderInv, ProviderTypes
<1>6. call' \in [Callers -> Calls] /\ CallsFit'
  <2>1. call' \in [Callers -> Calls] /\ \A d \in Callers : call'[d] = IF d = c THEN Resting ELSE call[d]
    BY <1>3, <1>4 DEF ProviderInv, ProviderTypes
  <2> QED
    BY <1>3, <1>4, <1>5, <2>1 DEF ProviderInv, CallsFit
<1>7. CASE UNCHANGED <<session, fenceHash>>
  <2>1. ProviderTypes'
    BY <1>4, <1>6, <1>7 DEF ProviderInv, ProviderTypes
  <2>2. ApprovalIsFresh'
    BY <1>4, <1>7 DEF ProviderInv, ApprovalIsFresh, Newest
  <2> QED
    BY <1>6, <2>1, <2>2 DEF ProviderInv
<1>8. CASE /\ session.revision = k.revision /\ fenceHash.revision = k.revision
           /\ OpenToPoll(k.evidence)
           /\ session' = [revision |-> k.revision + 1, latest |-> k.evidence]
           /\ fenceHash' = [fenceHash EXCEPT !.revision = @ + 1]
  <2>1. ProviderTypes'
    BY <1>2, <1>4, <1>5, <1>6, <1>8 DEF ProviderInv, ProviderTypes
  <2>2. session'.revision = fenceHash'.revision /\ session'.latest = k.evidence
    BY <1>2, <1>8 DEF ProviderInv, ProviderTypes
  <2>3. ASSUME k.evidence.decision = "approved", NEW b \in Newest'
        PROVE  k.evidence.reviewed >= b.at
    <3>1. b \in committed /\ b.at = fenceHash.eventAt /\ b.at \in Nat
      BY <1>4, <1>5, <2>3 DEF Newest, ProviderInv, ProviderTypes, Callbacks
    <3>2. k.evidence.fence = 0 /\ k.evidence.reviewed \in Nat
      BY <1>2, <2>3 DEF FencedEvidence, Evidence
    <3> QED
      BY <1>8, <3>1, <3>2 DEF OpenToPoll
  <2>4. ApprovalIsFresh'
    BY <2>2, <2>3 DEF ApprovalIsFresh
  <2> QED
    BY <1>6, <2>1, <2>4 DEF ProviderInv
<1> QED
  BY <1>7, <1>8 DEF Save

LEMMA ApplyReadKeeps ==
  ASSUME ProviderInv, NEW c \in Callers, ApplyRead(c) PROVE ProviderInv'
<1> DEFINE k == call[c]
           m == Retain(k.evidence, session.latest)
           x == [at |-> "claim", callback |-> k.callback, evidence |-> k.evidence, tries |-> k.tries,
                 revision |-> session.revision, merged |-> m]
<1>1. k \in Calls /\ k.at = "read"
  BY DEF ProviderInv, ProviderTypes, ApplyRead
<1>2. k.callback \in Callbacks /\ k.evidence \in FencedEvidence /\ k.tries \in Nat
  BY <1>1 DEF Calls, Resting
<1>3. session \in [revision : Nat, latest : FencedEvidence]
  BY DEF ProviderInv, ProviderTypes, ApplyRead
<1>4. MadeBy(k.callback, k.evidence)
  BY <1>1 DEF ProviderInv, CallsFit
<1>5. m \in FencedEvidence /\ MadeBy(k.callback, m)
  BY <1>2, <1>3, <1>4, RetainKeeps DEF MadeBy
<1>6. call' = [call EXCEPT ![c] = x] /\ UNCHANGED <<reviews, callbacks, session, fenceHash, committed>>
  BY DEF ApplyRead
<1> HIDE DEF m
<1>7. /\ x \in Calls /\ x.at = "claim"
      /\ x.callback = k.callback /\ x.evidence = k.evidence /\ x.merged = m
  BY <1>2, <1>3, <1>5 DEF Calls
<1> HIDE DEF x
<1>8. call' \in [Callers -> Calls] /\ CallsFit'
  BY <1>4, <1>5, <1>6, <1>7, OneCall DEF ProviderInv
<1>9. ProviderTypes'
  BY <1>6, <1>8 DEF ProviderInv, ProviderTypes
<1>10. ApprovalIsFresh'
  BY <1>6 DEF ProviderInv, ApprovalIsFresh, Newest
<1> QED
  BY <1>8, <1>9, <1>10 DEF ProviderInv

\* A callback that is claimed is the newest, and if it holds or rejects, what
\* is written with it approves nothing.
LEMMA ApplyClaimKeeps ==
  ASSUME ProviderInv, NEW c \in Callers, ApplyClaim(c) PROVE ProviderInv'
<1> DEFINE k == call[c]
<1>1. k \in Calls /\ k.at = "claim"
  BY DEF ProviderInv, ProviderTypes, ApplyClaim
<1>2. /\ k.callback \in Callbacks /\ k.evidence \in FencedEvidence /\ k.tries \in Nat
      /\ k.revision \in Nat /\ k.merged \in FencedEvidence
  BY <1>1 DEF Calls, Resting
<1>3. MadeBy(k.callback, k.evidence) /\ MadeBy(k.callback, k.merged)
  BY <1>1 DEF ProviderInv, CallsFit
<1>4. Resting \in Calls /\ Resting.at = "idle"
  BY DEF Calls, Resting
<1>5. UNCHANGED <<reviews, callbacks>>
  BY DEF ApplyClaim
<1>6. ASSUME UNCHANGED <<session, fenceHash, committed>>, NEW x \in Calls, x.at # "claim",
             call' = [call EXCEPT ![c] = x], x.at = "read" => MadeBy(x.callback, x.evidence)
      PROVE  ProviderInv'
  <2>1. call' \in [Callers -> Calls] /\ CallsFit'
    BY <1>6, OneCall DEF ProviderInv
  <2>2. ProviderTypes'
    BY <1>5, <1>6, <2>1 DEF ProviderInv, ProviderTypes
  <2>3. ApprovalIsFresh'
    BY <1>6 DEF ProviderInv, ApprovalIsFresh, Newest
  <2> QED
    BY <2>1, <2>2, <2>3 DEF ProviderInv
<1>7. CASE /\ call' = [call EXCEPT ![c] = [at |-> "read", callback |-> k.callback,
                                           evidence |-> k.evidence, tries |-> k.tries + 1]]
           /\ UNCHANGED <<session, fenceHash, committed>>
  <2> DEFINE x == [at |-> "read", callback |-> k.callback, evidence |-> k.evidence,
                   tries |-> k.tries + 1]
  <2>1. x \in Calls /\ x.at = "read" /\ x.callback = k.callback /\ x.evidence = k.evidence
    BY <1>2 DEF Calls
  <2>2. call' = [call EXCEPT ![c] = x]
    BY <1>7
  <2> HIDE DEF x
  <2> QED
    BY <1>3, <1>6, <1>7, <2>1, <2>2
<1>8. CASE /\ IsNewest(k.callback) /\ fenceHash.revision = k.revision
           /\ session' = [revision |-> k.revision + 1, latest |-> k.merged]
           /\ fenceHash' = [revision |-> k.revision + 1, eventAt |-> k.callback.at]
           /\ committed' = committed \cup {k.callback}
           /\ call' = [call EXCEPT ![c] = Resting]
  <2>1. call' \in [Callers -> Calls] /\ \A d \in Callers : call'[d] = IF d = c THEN Resting ELSE call[d]
    BY <1>4, <1>8 DEF ProviderInv, ProviderTypes
  <2>2. fenceHash'.eventAt = k.callback.at /\ k.callback.at \in Nat /\ fenceHash.eventAt < k.callback.at
    BY <1>2, <1>8 DEF Callbacks, IsNewest
  <2>3. \A b \in committed : b.at <= fenceHash.eventAt /\ b.at \in Nat
    BY DEF ProviderInv, CallsFit, ProviderTypes, Callbacks
  <2>4. CallsFit'
    BY <1>4, <1>8, <2>1, <2>2, <2>3 DEF ProviderInv, ProviderTypes, CallsFit
  <2>5. ProviderTypes'
    BY <1>2, <1>5, <1>8, <2>1, <2>2 DEF ProviderInv, ProviderTypes
  <2>6. ASSUME NEW b \in Newest'
        PROVE  b = k.callback
    <3>1. b \in committed' /\ b.at = fenceHash'.eventAt
      BY DEF Newest
    <3>2. b \in committed => b.at < k.callback.at
      BY <2>2, <2>3 DEF ProviderInv, ProviderTypes
    <3> QED
      BY <1>8, <2>2, <3>1, <3>2
  <2>7. session'.revision = fenceHash'.revision /\ session'.latest = k.merged
    BY <1>2, <1>8
  <2>8. ApprovalIsFresh'
    BY <1>3, <2>6, <2>7 DEF ApprovalIsFresh, MadeBy
  <2> QED
    BY <2>4, <2>5, <2>8 DEF ProviderInv
<1>9. CASE /\ call' = [call EXCEPT ![c] = Resting] /\ UNCHANGED <<session, fenceHash, committed>>
  BY <1>4, <1>6, <1>9
<1> QED
  BY <1>7, <1>8, <1>9, Zenon DEF ApplyClaim

\* While the newest callback of a hosted verification is a hold or a rejection,
\* the server keeps no approval of an older review (sumsub-redis.ts), for any
\* number of concurrent polls and callbacks, in any order.
THEOREM ApprovalFollowsCallbacks == ProviderSpec => []ApprovalIsFresh
<1>1. ProviderInit => ProviderInv
  <2> SUFFICES ASSUME ProviderInit PROVE ProviderInv
    OBVIOUS
  <2> USE DEF ProviderInit
  <2>1. reviews \in Seq({e \in Evidence : e.fence = 0})
    BY DEF NoEvidence, Evidence
  <2>2. call \in [Callers -> Calls] /\ \A c \in Callers : call[c].at = "idle"
    BY DEF Calls, Resting
  <2> QED
    BY <2>1, <2>2 DEF ProviderInv, ProviderTypes, CallsFit, ApprovalIsFresh
<1>2. ProviderInv /\ [ProviderNext]_providerVars => ProviderInv'
  <2> SUFFICES ASSUME ProviderInv, [ProviderNext]_providerVars PROVE ProviderInv'
    OBVIOUS
  <2>1. ASSUME NEW kind \in ReviewKinds, Review(kind) PROVE ProviderInv'
    <3> DEFINE r == [decision |-> DecisionOf(kind), fence |-> 0,
                     reviewed |-> IF kind = "hold" THEN 0 ELSE Clock]
    <3>1. kind \in Kinds /\ Clock \in Nat
      BY ProviderAssumption DEF Clock, ProviderInv, ProviderTypes
    <3>2. r \in {e \in Evidence : e.fence = 0}
      BY <3>1 DEF DecisionOf, Evidence, Kinds, Restrictive
    <3>3. reviews' = Append(reviews, r)
      BY <2>1 DEF Review
    <3> HIDE DEF r
    <3>4. reviews' \in Seq({e \in Evidence : e.fence = 0})
      BY <3>2, <3>3 DEF ProviderInv, ProviderTypes
    <3>5. callbacks' \subseteq Callbacks
      BY <2>1, <3>1 DEF Review, Callbacks, ProviderInv, ProviderTypes
    <3> QED
      BY <2>1, <3>4, <3>5 DEF Review, ProviderInv, ProviderTypes, CallsFit, ApprovalIsFresh, Newest
  <2>2. CASE CreateSession
    <3>1. FreshSession \in [revision : Nat, latest : FencedEvidence]
          /\ FreshSession.latest.decision # "approved" /\ FreshSession.revision = 1
      BY DEF FreshSession, NoEvidence, FencedEvidence, Evidence
    <3>2. fenceHash' \in [revision : Nat, eventAt : Nat]
          /\ fenceHash'.revision = 1 /\ fenceHash'.eventAt = fenceHash.eventAt
      BY <2>2 DEF CreateSession, ProviderInv, ProviderTypes
    <3> QED
      BY <2>2, <3>1, <3>2 DEF CreateSession, ProviderInv, ProviderTypes, CallsFit, ApprovalIsFresh
  <2>3. CASE Expire
    BY <2>3 DEF Expire, ProviderInv, ProviderTypes, CallsFit, ApprovalIsFresh
  <2>4. CASE Withdraw
    BY <2>4 DEF Withdraw, ProviderInv, ProviderTypes, CallsFit, ApprovalIsFresh, Newest
  <2>5. CASE UNCHANGED providerVars
    BY <2>5 DEF providerVars, ProviderInv, ProviderTypes, CallsFit, ApprovalIsFresh, Newest
  <2> QED
    BY <2>1, <2>2, <2>3, <2>4, <2>5, PollKeeps, DeliverKeeps, EvaluateKeeps, HangupKeeps, SaveKeeps,
       ApplyReadKeeps, ApplyClaimKeeps DEF ProviderNext
<1>3. ProviderInv => ApprovalIsFresh
  BY DEF ProviderInv
<1> QED
  BY <1>1, <1>2, <1>3, PTL DEF ProviderSpec

-----------------------------------------------------------------------------
\* The bank step and the guided flow (KycFlow).

Started ==
  [at : {"lookup", "send", "activate"}, flow : Flows, start : StartIds, id : Ids,
   payload : Payloads, expires : Nat, since : Nat, live : BOOLEAN]

Tokens == [exp : Nat, policy : Nat]

Deposits ==
  [id : Ids, flow : Flows, start : StartIds, account : Accounts, at : Nat, live : BOOLEAN]

GuidedTypes ==
  /\ now \in Nat /\ policy \in Nat /\ live \in BOOLEAN
  /\ siwe \in [Flows -> Tokens] /\ wallet \in [Flows -> Tokens]
  /\ record \in [Flows -> [StartIds -> Records \cup {NoRecord}]]
  /\ starts \in Nat
  /\ start \in [Handlers -> Started \cup {Idle}]
  /\ deposits \subseteq Deposits
  /\ held \subseteq Challenges
  /\ DOMAIN entry = Flows

\* Start s of flow f was reserved at time t: the wallet had signed, and the
\* record of the start is there for a day.
ReservedAt(f, s, t) ==
  /\ siwe[f] # NoToken /\ siwe[f].exp <= t + Lifetime
  /\ \/ record[f][s] # NoRecord /\ record[f][s].deleteAt >= t + Budget
     \/ now >= t + Budget

\* The wallet signs once for a flow, so its proofs run out before the record of
\* any start does; one request at most is working on a start, and before the
\* transfer there is no deposit.
StartsFit ==
  /\ \A f \in Flows :
       /\ siwe[f].exp <= now + Lifetime
       /\ wallet[f] # NoToken => siwe[f] # NoToken /\ wallet[f].exp <= siwe[f].exp + TokenLife
  /\ \A d \in deposits : ReservedAt(d.flow, d.start, d.at)
  /\ \A h \in Handlers, t \in Started : start[h] = t =>
       /\ ReservedAt(t.flow, t.start, t.since)
       /\ t.at # "activate" => \A d \in deposits : d.flow = t.flow => d.start # t.start
       /\ \A g \in Handlers, u \in Started :
            start[g] = u /\ u.flow = t.flow /\ u.start = t.start => g = h

\* A deposit was made under this challenge, to this owner.
Paid(i, f, owner, real) ==
  \E d \in deposits : d.id = i /\ d.flow = f /\ HolderOf[d.account] = owner /\ (real => d.live)

\* What a record, a sealed challenge or a sealed result tells of, was paid.
PaymentsFit ==
  /\ \A h \in Handlers, t \in Started : start[h] = t =>
       /\ t.id <= starts
       /\ t.at = "activate" => Paid(t.id, t.flow, HolderOf[t.payload.account], t.live)
       /\ \A r \in Records :
            record[t.flow][t.start] = r /\ r.id = t.id => r.payload = t.payload /\ r.live = t.live
  /\ \A f \in Flows, s \in StartIds, r \in Records : record[f][s] = r =>
       /\ r.id <= starts
       /\ r.state = "ready" =>
            r.attempts < Attempts /\ Paid(r.id, f, HolderOf[r.payload.account], r.live)
       /\ r.state = "pending" => r.attempts = 0
  /\ \A c \in held : Paid(c.id, c.flow, c.holder, c.live)
  /\ \A p \in bankProofs : Paid(p.id, p.flow, p.name, p.live)

GuidedInv == GuidedTypes /\ StartsFit /\ PaymentsFit /\ OneDepositPerStart /\ BitsAreEarned

\* Evidence is never taken away.
LEMMA EarnedStays ==
  ASSUME BitsAreEarned, deposits \subseteq deposits', idProofs \subseteq idProofs',
         bankProofs \subseteq bankProofs', UNCHANGED entry
  PROVE  BitsAreEarned'
<1>1. \A f, n, real : Confirmed(f, n, real) => Confirmed(f, n, real)'
  BY DEF Confirmed
<1>2. \A f, n, real : Deposited(f, n, real) => Deposited(f, n, real)'
  BY DEF Deposited
<1> QED
  BY <1>1, <1>2 DEF BitsAreEarned

LEMMA PaidStays ==
  ASSUME deposits \subseteq deposits'
  PROVE  \A i, f, owner, real : Paid(i, f, owner, real) => Paid(i, f, owner, real)'
BY DEF Paid

\* The record of one start changes.
LEMMA OneRecord ==
  ASSUME GuidedTypes, NEW f \in Flows, NEW s \in StartIds, NEW r \in Records,
         record' = [record EXCEPT ![f][s] = r]
  PROVE  /\ record' \in [Flows -> [StartIds -> Records \cup {NoRecord}]]
         /\ record'[f][s] = r /\ r # NoRecord
         /\ \A g \in Flows, t \in StartIds : (g # f \/ t # s) => record'[g][t] = record[g][t]
BY NoRecordAssumption DEF GuidedTypes

\* The request of one handler changes.
LEMMA OneStart ==
  ASSUME GuidedTypes, NEW h \in Handlers, NEW t \in Started \cup {Idle},
         start' = [start EXCEPT ![h] = t]
  PROVE  /\ start' \in [Handlers -> Started \cup {Idle}]
         /\ start'[h] = t
         /\ \A g \in Handlers : g # h => start'[g] = start[g]
BY DEF GuidedTypes

\* Nothing the guided flow does to other state disturbs these.
LEMMA BankUntouched ==
  ASSUME GuidedInv, UNCHANGED <<record, starts, start, deposits, held, bankProofs, now>>,
         UNCHANGED <<siwe, wallet>>
  PROVE  StartsFit' /\ PaymentsFit' /\ OneDepositPerStart'
<1>1. StartsFit'
  BY DEF GuidedInv, StartsFit, ReservedAt
<1>2. PaymentsFit'
  BY DEF GuidedInv, PaymentsFit, Paid
<1> QED
  BY <1>1, <1>2 DEF GuidedInv, OneDepositPerStart

LEMMA WalletMessageKeeps ==
  ASSUME GuidedInv, NEW f \in Flows, WalletMessage(f) PROVE GuidedInv'
<1> DEFINE m == [exp |-> now + Lifetime, policy |-> policy]
<1>1. m \in Tokens /\ m.exp = now + Lifetime /\ m # NoToken
  BY BankAssumption DEF GuidedInv, GuidedTypes, Tokens, NoToken
<1>2. /\ siwe[f] = NoToken /\ siwe' = [siwe EXCEPT ![f] = m]
      /\ UNCHANGED <<now, record, starts, start, deposits, held, bankProofs, wallet, idProofs, entry,
                     policy, live>>
  BY DEF WalletMessage, bankVars
<1> HIDE DEF m
<1>3. siwe' \in [Flows -> Tokens] /\ siwe'[f] = m /\ \A g \in Flows : g # f => siwe'[g] = siwe[g]
  BY <1>1, <1>2 DEF GuidedInv, GuidedTypes
<1>4. GuidedTypes'
  BY <1>2, <1>3 DEF GuidedInv, GuidedTypes
<1>5. \A g \in Flows, s \in StartIds, t \in Nat : ReservedAt(g, s, t) => ReservedAt(g, s, t)'
  BY <1>2, <1>3 DEF ReservedAt
<1>6. StartsFit'
  <2>1. \A d \in deposits : d.flow \in Flows /\ d.start \in StartIds /\ d.at \in Nat
    BY DEF GuidedInv, GuidedTypes, Deposits
  <2>2. \A t \in Started : t.flow \in Flows /\ t.start \in StartIds /\ t.since \in Nat
    BY DEF Started
  <2>3. \A g \in Flows :
          /\ siwe'[g].exp <= now' + Lifetime
          /\ wallet'[g] # NoToken => siwe'[g] # NoToken /\ wallet'[g].exp <= siwe'[g].exp + TokenLife
    BY <1>1, <1>2, <1>3, BankAssumption DEF GuidedInv, GuidedTypes, StartsFit, Tokens
  <2> QED
    BY <1>2, <1>5, <2>1, <2>2, <2>3 DEF GuidedInv, StartsFit
<1>7. PaymentsFit' /\ OneDepositPerStart' /\ BitsAreEarned'
  BY <1>2, EarnedStays DEF GuidedInv, PaymentsFit, Paid, OneDepositPerStart
<1> QED
  BY <1>4, <1>6, <1>7 DEF GuidedInv

LEMMA WalletSignedKeeps ==
  ASSUME GuidedInv, NEW f \in Flows, WalletSigned(f) PROVE GuidedInv'
<1> DEFINE m == [exp |-> now + TokenLife, policy |-> policy]
<1>1. m \in Tokens /\ m.exp = now + TokenLife
  BY BankAssumption DEF GuidedInv, GuidedTypes, Tokens
<1>2. /\ siwe[f] # NoToken /\ siwe[f].exp >= now /\ wallet' = [wallet EXCEPT ![f] = m]
      /\ UNCHANGED <<now, record, starts, start, deposits, held, bankProofs, siwe, idProofs, entry,
                     policy, live>>
  BY DEF WalletSigned, bankVars, Opens
<1> HIDE DEF m
<1>3. wallet' \in [Flows -> Tokens] /\ wallet'[f] = m /\ \A g \in Flows : g # f => wallet'[g] = wallet[g]
  BY <1>1, <1>2 DEF GuidedInv, GuidedTypes
<1>4. GuidedTypes'
  BY <1>2, <1>3 DEF GuidedInv, GuidedTypes
<1>5. StartsFit'
  <2>1. siwe[f].exp \in Nat
    BY DEF GuidedInv, GuidedTypes, Tokens
  <2>2. \A g \in Flows :
          wallet'[g] # NoToken => siwe'[g] # NoToken /\ wallet'[g].exp <= siwe'[g].exp + TokenLife
    BY <1>1, <1>2, <1>3, <2>1, BankAssumption DEF GuidedInv, GuidedTypes, StartsFit
  <2> QED
    BY <1>2, <2>2 DEF GuidedInv, StartsFit, ReservedAt
<1>6. PaymentsFit' /\ OneDepositPerStart' /\ BitsAreEarned'
  BY <1>2, EarnedStays DEF GuidedInv, PaymentsFit, Paid, OneDepositPerStart
<1> QED
  BY <1>4, <1>5, <1>6 DEF GuidedInv

\* A start is reserved only while the wallet's proof is good, and then no
\* earlier one has left anything behind.
LEMMA NothingBefore ==
  ASSUME GuidedInv, NEW f \in Flows, NEW s \in StartIds, Admitted(f), record[f][s] = NoRecord
  PROVE  /\ \A d \in deposits : d.flow = f => d.start # s
         /\ \A h \in Handlers, t \in Started : start[h] = t => t.flow # f \/ t.start # s
<1>1. /\ wallet[f].exp >= now /\ wallet[f].exp <= siwe[f].exp + TokenLife
      /\ wallet[f].exp \in Nat /\ siwe[f].exp \in Nat /\ now \in Nat
  BY DEF Admitted, Opens, GuidedInv, StartsFit, GuidedTypes, Tokens
<1>2. ASSUME NEW t \in Nat, ReservedAt(f, s, t) PROVE FALSE
  <2>1. siwe[f].exp <= t + Lifetime /\ now >= t + Budget
    BY <1>2 DEF ReservedAt
  <2> QED
    BY <1>1, <2>1, BankAssumption
<1>3. \A d \in deposits : d.at \in Nat
  BY DEF GuidedInv, GuidedTypes, Deposits
<1>4. \A t \in Started : t.since \in Nat
  BY DEF Started
<1> QED
  BY <1>2, <1>3, <1>4 DEF GuidedInv, StartsFit

LEMMA BankStartKeeps ==
  ASSUME GuidedInv, NEW h \in Handlers, NEW f \in Flows, NEW s \in StartIds, NEW p \in Payloads,
         BankStart(h, f, s, p)
  PROVE  GuidedInv'
<1> DEFINE r == [state |-> "pending", id |-> starts', payload |-> p, live |-> live,
                 expires |-> now + Lifetime, deleteAt |-> now + Budget, attempts |-> 0]
           t == [at |-> "lookup", flow |-> f, start |-> s, id |-> starts', payload |-> p,
                 expires |-> now + Lifetime, since |-> now, live |-> live]
<1>1. /\ record[f][s] = NoRecord /\ start[h] = Idle /\ starts < MaxStarts /\ starts' = starts + 1
      /\ Admitted(f)
      /\ record' = [record EXCEPT ![f][s] = r] /\ start' = [start EXCEPT ![h] = t]
      /\ UNCHANGED <<now, deposits, held, bankProofs, siwe, wallet, idProofs, entry, policy, live>>
  BY DEF BankStart, Reserve, MayReserve, flowVars
<1>2. starts' \in Ids /\ starts' \in Nat /\ starts < starts' /\ starts \in Nat
  BY <1>1, BankAssumption DEF Ids, GuidedInv, GuidedTypes
<1>3. /\ now \in Nat /\ live \in BOOLEAN /\ now + Lifetime \in Nat /\ now + Budget \in Nat
  BY BankAssumption DEF GuidedInv, GuidedTypes
<1>4. /\ r \in Records /\ r.state = "pending" /\ r.id = starts' /\ r.payload = p /\ r.live = live
      /\ r.deleteAt = now + Budget /\ r.attempts = 0
  BY <1>2, <1>3, BankAssumption DEF Records
<1>5. /\ t \in Started /\ t # Idle /\ t.at = "lookup" /\ t.flow = f /\ t.start = s /\ t.id = starts'
      /\ t.payload = p /\ t.live = live /\ t.since = now
  BY <1>2, <1>3 DEF Started, Idle
<1> HIDE DEF r, t
<1>6. /\ record' \in [Flows -> [StartIds -> Records \cup {NoRecord}]]
      /\ record'[f][s] = r /\ r # NoRecord
      /\ \A g \in Flows, x \in StartIds : (g # f \/ x # s) => record'[g][x] = record[g][x]
  BY <1>1, <1>4, OneRecord DEF GuidedInv
<1>7. /\ start' \in [Handlers -> Started \cup {Idle}] /\ start'[h] = t
      /\ \A g \in Handlers : g # h => start'[g] = start[g]
  BY <1>1, <1>5, OneStart DEF GuidedInv
<1>8. GuidedTypes'
  BY <1>1, <1>2, <1>6, <1>7 DEF GuidedInv, GuidedTypes
<1>9. /\ \A d \in deposits : d.flow = f => d.start # s
      /\ \A g \in Handlers, u \in Started : start[g] = u => u.flow # f \/ u.start # s
  BY <1>1, NothingBefore
<1>10. \A d \in deposits : d.flow \in Flows /\ d.start \in StartIds
  BY DEF GuidedInv, GuidedTypes, Deposits
<1>11. \A u \in Started : u.flow \in Flows /\ u.start \in StartIds /\ u.id \in Nat
  BY DEF Started, Ids
<1>12. StartsFit'
  <2>1. ASSUME NEW g \in Flows, NEW x \in StartIds, NEW y, ReservedAt(g, x, y), g # f \/ x # s
        PROVE  ReservedAt(g, x, y)'
    BY <1>1, <1>6, <2>1 DEF ReservedAt
  <2>2. ReservedAt(f, s, now)'
    <3>1. siwe[f] # NoToken /\ siwe[f].exp <= now + Lifetime
      BY <1>1 DEF Admitted, GuidedInv, StartsFit
    <3> QED
      BY <1>1, <1>3, <1>4, <1>6, <3>1 DEF ReservedAt
  <2>3. \A d \in deposits' : ReservedAt(d.flow, d.start, d.at)'
    BY <1>1, <1>9, <1>10, <2>1 DEF GuidedInv, StartsFit
  <2>4. ASSUME NEW g \in Handlers, NEW u \in Started, start'[g] = u
        PROVE  /\ ReservedAt(u.flow, u.start, u.since)'
               /\ u.at # "activate" => \A d \in deposits' : d.flow = u.flow => d.start # u.start
               /\ \A k \in Handlers, v \in Started :
                    start'[k] = v /\ v.flow = u.flow /\ v.start = u.start => k = g
    <3>1. CASE g = h
      <4>1. u = t
        BY <1>7, <2>4, <3>1
      <4> QED
        BY <1>1, <1>5, <1>7, <1>9, <2>2, <3>1, <4>1
    <3>2. CASE g # h
      <4>1. start[g] = u /\ (u.flow # f \/ u.start # s)
        BY <1>7, <1>9, <2>4, <3>2
      <4>2. /\ ReservedAt(u.flow, u.start, u.since)
            /\ u.at # "activate" => \A d \in deposits : d.flow = u.flow => d.start # u.start
            /\ \A k \in Handlers, v \in Started :
                 start[k] = v /\ v.flow = u.flow /\ v.start = u.start => k = g
        BY <4>1 DEF GuidedInv, StartsFit
      <4>3. ReservedAt(u.flow, u.start, u.since)'
        BY <1>11, <2>1, <4>1, <4>2
      <4> QED
        BY <1>1, <1>5, <1>7, <4>1, <4>2, <4>3
    <3> QED
      BY <3>1, <3>2
  <2> QED
    BY <1>1, <2>3, <2>4 DEF GuidedInv, StartsFit
<1>13. PaymentsFit'
  <2>1. \A i, g, x, y : Paid(i, g, x, y) => Paid(i, g, x, y)'
    BY <1>1 DEF Paid
  <2>2. ASSUME NEW g \in Handlers, NEW u \in Started, start'[g] = u
        PROVE  /\ u.id <= starts'
               /\ u.at = "activate" => Paid(u.id, u.flow, HolderOf[u.payload.account], u.live)'
               /\ \A z \in Records :
                    record'[u.flow][u.start] = z /\ z.id = u.id => z.payload = u.payload /\ z.live = u.live
    <3>1. CASE g = h
      <4>1. u = t
        BY <1>7, <2>2, <3>1
      <4> QED
        BY <1>2, <1>4, <1>5, <1>6, <4>1
    <3>2. CASE g # h
      <4>1. start[g] = u /\ (u.flow # f \/ u.start # s)
        BY <1>7, <1>9, <2>2, <3>2
      <4>2. record'[u.flow][u.start] = record[u.flow][u.start]
        BY <1>6, <1>11, <4>1
      <4> QED
        BY <1>2, <1>11, <2>1, <4>1, <4>2 DEF GuidedInv, PaymentsFit
    <3> QED
      BY <3>1, <3>2
  <2>3. ASSUME NEW g \in Flows, NEW x \in StartIds, NEW z \in Records, record'[g][x] = z
        PROVE  /\ z.id <= starts'
               /\ z.state = "ready" =>
                    z.attempts < Attempts /\ Paid(z.id, g, HolderOf[z.payload.account], z.live)'
               /\ z.state = "pending" => z.attempts = 0
    <3>1. CASE g = f /\ x = s
      BY <1>2, <1>4, <1>6, <2>3, <3>1
    <3>2. CASE g # f \/ x # s
      <4>1. record[g][x] = z /\ z.id \in Nat
        BY <1>6, <2>3, <3>2 DEF Records, Ids
      <4> QED
        BY <1>2, <2>1, <4>1 DEF GuidedInv, PaymentsFit
    <3> QED
      BY <3>1, <3>2
  <2> QED
    BY <1>1, <2>1, <2>2, <2>3 DEF GuidedInv, PaymentsFit
<1>14. OneDepositPerStart' /\ BitsAreEarned'
  BY <1>1, EarnedStays DEF GuidedInv, OneDepositPerStart
<1> QED
  BY <1>8, <1>12, <1>13, <1>14 DEF GuidedInv

LEMMA BankStartAgainKeeps ==
  ASSUME GuidedInv, NEW f \in Flows, NEW s \in StartIds, NEW p \in Payloads, BankStartAgain(f, s, p)
  PROVE  GuidedInv'
<1> DEFINE r == record[f][s]
           c == [id |-> r.id, flow |-> f, start |-> s, exp |-> r.expires,
                 holder |-> HolderOf[p.account], live |-> r.live]
<1>1. /\ r # NoRecord /\ r.payload = p /\ r.state = "ready" /\ held' = held \cup {c}
      /\ UNCHANGED <<now, record, starts, start, deposits, bankProofs, siwe, wallet, idProofs, entry,
                     policy, live>>
  BY DEF BankStartAgain, Cached, flowVars, storeVars
<1>2. r \in Records /\ HolderOf[p.account] \in Names
  BY <1>1, BankAssumption DEF GuidedInv, GuidedTypes, Payloads
<1>3. /\ c \in Challenges /\ c.id = r.id /\ c.flow = f /\ c.holder = HolderOf[p.account]
      /\ c.live = r.live
  BY <1>2 DEF Challenges, Records
<1>4. Paid(r.id, f, HolderOf[p.account], r.live)
  BY <1>1, <1>2 DEF GuidedInv, PaymentsFit
<1> HIDE DEF c, r
<1>5. GuidedTypes'
  BY <1>1, <1>3 DEF GuidedInv, GuidedTypes
<1>6. StartsFit'
  BY <1>1 DEF GuidedInv, StartsFit, ReservedAt
<1>7. PaymentsFit'
  <2>1. \A i, g, x, y : Paid(i, g, x, y)' <=> Paid(i, g, x, y)
    BY <1>1 DEF Paid
  <2> QED
    BY <1>1, <1>3, <1>4, <2>1 DEF GuidedInv, PaymentsFit
<1>8. OneDepositPerStart' /\ BitsAreEarned'
  BY <1>1, EarnedStays DEF GuidedInv, OneDepositPerStart
<1> QED
  BY <1>5, <1>6, <1>7, <1>8 DEF GuidedInv

\* A handler gives up, or goes on from the lookup to the transfer.
LEMMA HandlerMoves ==
  ASSUME GuidedInv, NEW h \in Handlers, NEW u \in Started, start[h] = u,
         NEW t \in Started \cup {Idle}, start' = [start EXCEPT ![h] = t],
         t = Idle \/ (u.at = "lookup" /\ t = [u EXCEPT !.at = "send"]),
         UNCHANGED <<now, record, starts, deposits, held, bankProofs, siwe, wallet, idProofs, entry,
                     policy, live>>
  PROVE  GuidedInv'
<1>1. /\ start' \in [Handlers -> Started \cup {Idle}] /\ start'[h] = t
      /\ \A g \in Handlers : g # h => start'[g] = start[g]
  BY OneStart DEF GuidedInv
<1>2. GuidedTypes'
  BY <1>1 DEF GuidedInv, GuidedTypes
<1>3. \A v \in Started : v # Idle
  BY DEF Started, Idle
<1>4. \A g \in Handlers, v \in Started : start'[g] = v =>
        \E w \in Started : /\ start[g] = w
                           /\ w.flow = v.flow /\ w.start = v.start /\ w.since = v.since /\ w.id = v.id
                           /\ w.payload = v.payload /\ w.live = v.live
                           /\ (v.at = "activate") = (w.at = "activate")
  <2> SUFFICES ASSUME NEW g \in Handlers, NEW v \in Started, start'[g] = v
               PROVE  \E w \in Started :
                        /\ start[g] = w
                        /\ w.flow = v.flow /\ w.start = v.start /\ w.since = v.since /\ w.id = v.id
                        /\ w.payload = v.payload /\ w.live = v.live
                        /\ (v.at = "activate") = (w.at = "activate")
    OBVIOUS
  <2>1. CASE g # h
    BY <1>1, <2>1
  <2>2. CASE g = h
    <3>1. v = [u EXCEPT !.at = "send"] /\ u.at = "lookup"
      BY <1>1, <1>3, <2>2
    <3>2. /\ u.flow = v.flow /\ u.start = v.start /\ u.since = v.since /\ u.id = v.id
          /\ u.payload = v.payload /\ u.live = v.live /\ v.at = "send"
      BY <3>1 DEF Started
    <3> QED
      BY <2>2, <3>1, <3>2
  <2> QED
    BY <2>1, <2>2
<1>5. /\ \A f, x, y : ReservedAt(f, x, y)' <=> ReservedAt(f, x, y)
      /\ \A i, f, x, y : Paid(i, f, x, y)' <=> Paid(i, f, x, y)
  BY DEF ReservedAt, Paid
<1>6. StartsFit'
  <2>1. ASSUME NEW g \in Handlers, NEW v \in Started, start'[g] = v
        PROVE  /\ ReservedAt(v.flow, v.start, v.since)'
               /\ v.at # "activate" => \A d \in deposits' : d.flow = v.flow => d.start # v.start
               /\ \A k \in Handlers, z \in Started :
                    start'[k] = z /\ z.flow = v.flow /\ z.start = v.start => k = g
    <3>1. PICK w \in Started : /\ start[g] = w
                              /\ w.flow = v.flow /\ w.start = v.start /\ w.since = v.since
                              /\ (v.at = "activate") = (w.at = "activate")
      BY <1>4, <2>1
    <3> QED
      BY <1>4, <1>5, <3>1 DEF GuidedInv, StartsFit
  <2> QED
    BY <1>5, <2>1 DEF GuidedInv, StartsFit
<1>7. PaymentsFit'
  <2>1. ASSUME NEW g \in Handlers, NEW v \in Started, start'[g] = v
        PROVE  /\ v.id <= starts'
               /\ v.at = "activate" => Paid(v.id, v.flow, HolderOf[v.payload.account], v.live)'
               /\ \A z \in Records :
                    record'[v.flow][v.start] = z /\ z.id = v.id => z.payload = v.payload /\ z.live = v.live
    <3>1. PICK w \in Started : /\ start[g] = w
                              /\ w.flow = v.flow /\ w.start = v.start /\ w.id = v.id
                              /\ w.payload = v.payload /\ w.live = v.live
                              /\ (v.at = "activate") = (w.at = "activate")
      BY <1>4, <2>1
    <3> QED
      BY <1>5, <3>1 DEF GuidedInv, PaymentsFit
  <2> QED
    BY <1>5, <2>1 DEF GuidedInv, PaymentsFit
<1>8. OneDepositPerStart' /\ BitsAreEarned'
  BY EarnedStays DEF GuidedInv, OneDepositPerStart
<1> QED
  BY <1>2, <1>6, <1>7, <1>8 DEF GuidedInv

LEMMA LookupKeeps ==
  ASSUME GuidedInv, NEW h \in Handlers, Lookup(h), UNCHANGED flowVars PROVE GuidedInv'
<1>1. PICK u \in Started : start[h] = u /\ u.at = "lookup"
  BY DEF Lookup, Idle, GuidedInv, GuidedTypes
<1>2. PICK t : t = IF HolderOf[u.payload.account] = u.payload.name THEN [u EXCEPT !.at = "send"] ELSE Idle
  OBVIOUS
<1>3. start' = [start EXCEPT ![h] = t]
  BY <1>1, <1>2 DEF Lookup
<1>4. t \in Started \cup {Idle} /\ (t = Idle \/ t = [u EXCEPT !.at = "send"])
  BY <1>2 DEF Started
<1> QED
  BY <1>1, <1>3, <1>4, HandlerMoves DEF Lookup, storeVars, flowVars

LEMMA AbandonKeeps ==
  ASSUME GuidedInv, NEW h \in Handlers, Abandon(h), UNCHANGED flowVars PROVE GuidedInv'
<1>1. PICK u \in Started : start[h] = u
  BY DEF Abandon, GuidedInv, GuidedTypes
<1>2. PICK t : t = Idle
  OBVIOUS
<1> QED
  BY <1>1, <1>2, HandlerMoves DEF Abandon, storeVars, flowVars

LEMMA SendKeeps ==
  ASSUME GuidedInv, NEW h \in Handlers, Send(h), UNCHANGED flowVars PROVE GuidedInv'
<1>1. PICK u \in Started : start[h] = u /\ u.at = "send"
  BY DEF Send, Idle, GuidedInv, GuidedTypes
<1>2. PICK d : d = [id |-> u.id, flow |-> u.flow, start |-> u.start, account |-> u.payload.account,
                    at |-> u.since, live |-> u.live]
  OBVIOUS
<1>3. deposits' = deposits \cup {d}
  BY <1>1, <1>2 DEF Send
<1>4. /\ d \in Deposits /\ d.id = u.id /\ d.flow = u.flow /\ d.start = u.start
      /\ d.account = u.payload.account /\ d.at = u.since /\ d.live = u.live
  BY <1>2 DEF Deposits, Started, Payloads
<1>5. PICK t : /\ start' = [start EXCEPT ![h] = t]
               /\ t = Idle \/ t = [u EXCEPT !.at = "activate"]
  BY <1>1 DEF Send
<1>6. t \in Started \cup {Idle}
  BY <1>5 DEF Started
<1>7. /\ start' \in [Handlers -> Started \cup {Idle}] /\ start'[h] = t
      /\ \A g \in Handlers : g # h => start'[g] = start[g]
  BY <1>5, <1>6, OneStart DEF GuidedInv
<1>8. t \in Started =>
        /\ t.flow = u.flow /\ t.start = u.start /\ t.since = u.since /\ t.id = u.id
        /\ t.payload = u.payload /\ t.live = u.live /\ t.at = "activate"
  <2>1. Idle \notin Started
    BY DEF Started, Idle
  <2> QED
    BY <1>5, <2>1 DEF Started
<1>9. UNCHANGED <<now, record, starts, held, bankProofs, siwe, wallet, idProofs, entry, policy, live>>
  BY DEF Send, storeVars, flowVars
<1>10. GuidedTypes'
  BY <1>3, <1>4, <1>7, <1>9 DEF GuidedInv, GuidedTypes
<1>11. /\ \A f, x, y : ReservedAt(f, x, y)' <=> ReservedAt(f, x, y)
       /\ \A i, f, x, y : Paid(i, f, x, y) => Paid(i, f, x, y)'
  BY <1>3, <1>9 DEF ReservedAt, Paid
<1>12. Paid(u.id, u.flow, HolderOf[u.payload.account], u.live)'
  BY <1>3, <1>4 DEF Paid
<1>13. \A e \in deposits : e.flow = u.flow => e.start # u.start
  BY <1>1 DEF GuidedInv, StartsFit
<1>14. ReservedAt(u.flow, u.start, u.since)
  BY <1>1 DEF GuidedInv, StartsFit
<1>15. \A g \in Handlers, v \in Started :
         start[g] = v /\ v.flow = u.flow /\ v.start = u.start => g = h
  BY <1>1 DEF GuidedInv, StartsFit
<1>16. StartsFit'
  <2>1. ASSUME NEW g \in Handlers, NEW v \in Started, start'[g] = v
        PROVE  /\ ReservedAt(v.flow, v.start, v.since)'
               /\ v.at # "activate" => \A e \in deposits' : e.flow = v.flow => e.start # v.start
               /\ \A k \in Handlers, z \in Started :
                    start'[k] = z /\ z.flow = v.flow /\ z.start = v.start => k = g
    <3>1. CASE g = h
      <4>1. v = t
        BY <1>7, <2>1, <3>1
      <4> QED
        BY <1>7, <1>8, <1>11, <1>14, <1>15, <3>1, <4>1
    <3>2. CASE g # h
      <4>1. start[g] = v
        BY <1>7, <2>1, <3>2
      <4>2. v.flow # u.flow \/ v.start # u.start
        BY <1>15, <3>2, <4>1
      <4>3. /\ ReservedAt(v.flow, v.start, v.since)
            /\ v.at # "activate" => \A e \in deposits : e.flow = v.flow => e.start # v.start
            /\ \A k \in Handlers, z \in Started :
                 start[k] = z /\ z.flow = v.flow /\ z.start = v.start => k = g
        BY <4>1 DEF GuidedInv, StartsFit
      <4> QED
        BY <1>3, <1>4, <1>7, <1>8, <1>11, <4>2, <4>3
    <3> QED
      BY <3>1, <3>2
  <2>2. \A e \in deposits' : ReservedAt(e.flow, e.start, e.at)'
    BY <1>3, <1>4, <1>11, <1>14 DEF GuidedInv, StartsFit
  <2> QED
    BY <1>9, <2>1, <2>2 DEF GuidedInv, StartsFit
<1>17. PaymentsFit'
  <2>1. ASSUME NEW g \in Handlers, NEW v \in Started, start'[g] = v
        PROVE  /\ v.id <= starts'
               /\ v.at = "activate" => Paid(v.id, v.flow, HolderOf[v.payload.account], v.live)'
               /\ \A z \in Records :
                    record'[v.flow][v.start] = z /\ z.id = v.id => z.payload = v.payload /\ z.live = v.live
    <3>1. CASE g = h
      <4>1. v = t
        BY <1>7, <2>1, <3>1
      <4> QED
        BY <1>1, <1>8, <1>9, <1>12, <4>1 DEF GuidedInv, PaymentsFit
    <3>2. CASE g # h
      <4>1. start[g] = v
        BY <1>7, <2>1, <3>2
      <4> QED
        BY <1>9, <1>11, <4>1 DEF GuidedInv, PaymentsFit
    <3> QED
      BY <3>1, <3>2
  <2> QED
    BY <1>9, <1>11, <2>1 DEF GuidedInv, PaymentsFit
<1>18. OneDepositPerStart'
  BY <1>3, <1>4, <1>13 DEF GuidedInv, OneDepositPerStart
<1>19. BitsAreEarned'
  BY <1>3, <1>9, EarnedStays DEF GuidedInv
<1> QED
  BY <1>10, <1>16, <1>17, <1>18, <1>19 DEF GuidedInv

\* The record of a paid start moves on, and what the browser learns was paid.
LEMMA RecordMoves ==
  ASSUME GuidedInv, NEW f \in Flows, NEW s \in StartIds, NEW q \in Records, record[f][s] = q,
         NEW r \in Records, record' = [record EXCEPT ![f][s] = r],
         r.id = q.id, r.payload = q.payload, r.live = q.live, r.deleteAt = q.deleteAt,
         r.state # "pending",
         r.state = "ready" => r.attempts < Attempts /\ Paid(r.id, f, HolderOf[r.payload.account], r.live),
         start' \in [Handlers -> Started \cup {Idle}],
         \A g \in Handlers, v \in Started : start'[g] = v => start[g] = v,
         held' \subseteq Challenges, \A c \in held' : Paid(c.id, c.flow, c.holder, c.live),
         bankProofs \subseteq bankProofs', \A p \in bankProofs' : Paid(p.id, p.flow, p.name, p.live),
         UNCHANGED <<now, starts, deposits, siwe, wallet, idProofs, entry, policy, live>>
  PROVE  GuidedInv'
<1>1. /\ record' \in [Flows -> [StartIds -> Records \cup {NoRecord}]]
      /\ record'[f][s] = r /\ r # NoRecord
      /\ \A g \in Flows, t \in StartIds : (g # f \/ t # s) => record'[g][t] = record[g][t]
  BY OneRecord DEF GuidedInv
<1>2. GuidedTypes'
  BY <1>1 DEF GuidedInv, GuidedTypes
<1>3. ASSUME NEW g \in Flows, NEW x \in StartIds, NEW y, ReservedAt(g, x, y)
      PROVE  ReservedAt(g, x, y)'
  <2>1. CASE g = f /\ x = s
    BY <1>1, <1>3, <2>1 DEF ReservedAt
  <2>2. CASE g # f \/ x # s
    BY <1>1, <1>3, <2>2 DEF ReservedAt
  <2> QED
    BY <2>1, <2>2
<1>4. \A i, g, x, y : Paid(i, g, x, y)' <=> Paid(i, g, x, y)
  BY DEF Paid
<1>5. /\ \A d \in deposits : d.flow \in Flows /\ d.start \in StartIds
      /\ \A v \in Started : v.flow \in Flows /\ v.start \in StartIds
  BY DEF GuidedInv, GuidedTypes, Deposits, Started
<1>6. StartsFit'
  <2>1. \A d \in deposits' : ReservedAt(d.flow, d.start, d.at)'
    BY <1>3, <1>5 DEF GuidedInv, StartsFit
  <2>2. ASSUME NEW g \in Handlers, NEW v \in Started, start'[g] = v
        PROVE  /\ ReservedAt(v.flow, v.start, v.since)'
               /\ v.at # "activate" => \A d \in deposits' : d.flow = v.flow => d.start # v.start
               /\ \A k \in Handlers, z \in Started :
                    start'[k] = z /\ z.flow = v.flow /\ z.start = v.start => k = g
    <3>1. start[g] = v
      BY <2>2
    <3>2. ReservedAt(v.flow, v.start, v.since)'
      BY <1>3, <1>5, <3>1 DEF GuidedInv, StartsFit
    <3> QED
      BY <3>1, <3>2 DEF GuidedInv, StartsFit
  <2> QED
    BY <2>1, <2>2 DEF GuidedInv, StartsFit
<1>7. PaymentsFit'
  <2>1. ASSUME NEW g \in Handlers, NEW v \in Started, start'[g] = v
        PROVE  /\ v.id <= starts'
               /\ v.at = "activate" => Paid(v.id, v.flow, HolderOf[v.payload.account], v.live)'
               /\ \A z \in Records :
                    record'[v.flow][v.start] = z /\ z.id = v.id => z.payload = v.payload /\ z.live = v.live
    <3>1. start[g] = v
      BY <2>1
    <3>2. /\ v.id <= starts
          /\ v.at = "activate" => Paid(v.id, v.flow, HolderOf[v.payload.account], v.live)
          /\ \A z \in Records :
               record[v.flow][v.start] = z /\ z.id = v.id => z.payload = v.payload /\ z.live = v.live
      BY <3>1 DEF GuidedInv, PaymentsFit
    <3>3. CASE v.flow = f /\ v.start = s
      BY <1>1, <1>4, <3>2, <3>3
    <3>4. CASE v.flow # f \/ v.start # s
      BY <1>1, <1>4, <1>5, <3>2, <3>4
    <3> QED
      BY <3>3, <3>4
  <2>2. ASSUME NEW g \in Flows, NEW x \in StartIds, NEW z \in Records, record'[g][x] = z
        PROVE  /\ z.id <= starts'
               /\ z.state = "ready" =>
                    z.attempts < Attempts /\ Paid(z.id, g, HolderOf[z.payload.account], z.live)'
               /\ z.state = "pending" => z.attempts = 0
    <3>1. CASE g = f /\ x = s
      BY <1>1, <1>4, <2>2, <3>1 DEF GuidedInv, PaymentsFit
    <3>2. CASE g # f \/ x # s
      BY <1>1, <1>4, <2>2, <3>2 DEF GuidedInv, PaymentsFit
    <3> QED
      BY <3>1, <3>2
  <2> QED
    BY <1>4, <2>1, <2>2 DEF PaymentsFit
<1>8. OneDepositPerStart' /\ BitsAreEarned'
  BY EarnedStays DEF GuidedInv, OneDepositPerStart
<1> QED
  BY <1>2, <1>6, <1>7, <1>8 DEF GuidedInv

LEMMA ActivateKeeps ==
  ASSUME GuidedInv, NEW h \in Handlers, Activate(h), UNCHANGED flowVars PROVE GuidedInv'
<1>1. PICK u \in Started : start[h] = u /\ u.at = "activate"
  BY DEF Activate, Idle, GuidedInv, GuidedTypes
<1>2. u.flow \in Flows /\ u.start \in StartIds
  BY DEF Started
<1>3. /\ start' = [start EXCEPT ![h] = Idle]
      /\ UNCHANGED <<now, starts, deposits, bankProofs, siwe, wallet, idProofs, entry, policy, live>>
  BY DEF Activate, flowVars
<1>4. CASE record' = record /\ held' = held
  <2>1. PICK t : t = Idle
    OBVIOUS
  <2> QED
    BY <1>1, <1>3, <1>4, <2>1, HandlerMoves
<1>5. CASE /\ Standing(u.flow, u.start, u.id) /\ record[u.flow][u.start].state = "pending"
           /\ record' = [record EXCEPT ![u.flow][u.start].state = "ready"]
           /\ \/ held' = held \cup {[id |-> u.id, flow |-> u.flow, start |-> u.start,
                                    holder |-> HolderOf[u.payload.account], live |-> u.live,
                                    exp |-> u.expires]}
              \/ held' = held
  <2>1. PICK q \in Records : record[u.flow][u.start] = q
    BY <1>2, <1>5 DEF Standing, GuidedInv, GuidedTypes
  <2>2. PICK r : r = [q EXCEPT !.state = "ready"]
    OBVIOUS
  <2>3. /\ r \in Records /\ r.id = q.id /\ r.payload = q.payload /\ r.live = q.live
        /\ r.deleteAt = q.deleteAt /\ r.state = "ready" /\ r.attempts = q.attempts
    BY <2>2 DEF Records
  <2>4. record' = [record EXCEPT ![u.flow][u.start] = r]
    BY <1>2, <1>5, <2>1, <2>2 DEF GuidedInv, GuidedTypes
  <2>5. q.id = u.id /\ q.state = "pending"
    BY <1>5, <2>1 DEF Standing
  <2>6. q.payload = u.payload /\ q.live = u.live /\ q.attempts = 0
        /\ Paid(u.id, u.flow, HolderOf[u.payload.account], u.live)
    BY <1>1, <1>2, <2>1, <2>5 DEF GuidedInv, PaymentsFit
  <2>7. /\ start' \in [Handlers -> Started \cup {Idle}]
        /\ \A g \in Handlers, v \in Started : start'[g] = v => start[g] = v
    <3>1. Idle \notin Started
      BY DEF Started, Idle
    <3> QED
      BY <1>3, <3>1, OneStart DEF GuidedInv
  <2>8. PICK c : c = [id |-> u.id, flow |-> u.flow, start |-> u.start,
                      holder |-> HolderOf[u.payload.account], live |-> u.live, exp |-> u.expires]
    OBVIOUS
  <2>9. /\ c \in Challenges /\ c.id = u.id /\ c.flow = u.flow
        /\ c.holder = HolderOf[u.payload.account] /\ c.live = u.live
    BY <2>8, BankAssumption DEF Challenges, Started, Payloads
  <2>10. held' \subseteq Challenges /\ \A x \in held' : Paid(x.id, x.flow, x.holder, x.live)
    <3>1. held' \subseteq held \cup {c}
      BY <1>5, <2>8
    <3> QED
      BY <2>6, <2>9, <3>1 DEF GuidedInv, GuidedTypes, PaymentsFit
  <2>11. \A p \in bankProofs' : Paid(p.id, p.flow, p.name, p.live)
    BY <1>3 DEF GuidedInv, PaymentsFit
  <2>12. /\ r.state # "pending" /\ r.attempts < Attempts
         /\ Paid(r.id, u.flow, HolderOf[r.payload.account], r.live)
    <3>1. Attempts \in Nat \ {0}
      BY BankAssumption
    <3>2. r.id = u.id /\ r.payload = u.payload /\ r.live = u.live /\ r.attempts = 0
      BY <2>3, <2>5, <2>6
    <3> QED
      BY <2>3, <2>6, <3>1, <3>2
  <2>13. /\ UNCHANGED <<now, starts, deposits, siwe, wallet, idProofs, entry, policy, live>>
         /\ bankProofs \subseteq bankProofs'
    BY <1>3
  <2> QED
    BY <1>2, <2>1, <2>3, <2>4, <2>7, <2>10, <2>11, <2>12, <2>13, RecordMoves
<1> QED
  BY <1>1, <1>4, <1>5 DEF Activate

\* A sealed challenge whose record still takes codes.
LEMMA TakenRecord ==
  ASSUME GuidedInv, NEW c \in held, TakesCode(c)
  PROVE  /\ c.flow \in Flows /\ c.start \in StartIds /\ record[c.flow][c.start] \in Records
         /\ record[c.flow][c.start].state = "ready" /\ record[c.flow][c.start].attempts < Attempts
         /\ LET r == record[c.flow][c.start] IN Paid(r.id, c.flow, HolderOf[r.payload.account], r.live)
<1>1. c.flow \in Flows /\ c.start \in StartIds
  BY DEF GuidedInv, GuidedTypes, Challenges
<1>2. PICK r \in Records : record[c.flow][c.start] = r
  BY <1>1 DEF TakesCode, Standing, GuidedInv, GuidedTypes
<1>3. r.state = "ready"
  BY <1>2 DEF TakesCode
<1>4. r.attempts < Attempts /\ Paid(r.id, c.flow, HolderOf[r.payload.account], r.live)
  BY <1>1, <1>2, <1>3 DEF GuidedInv, PaymentsFit
<1> QED
  BY <1>1, <1>2, <1>3, <1>4

LEMMA CodeReadKeeps ==
  ASSUME GuidedInv, NEW c \in held, CodeRead(c), UNCHANGED flowVars PROVE GuidedInv'
<1>1. PICK q \in Records : record[c.flow][c.start] = q
  BY TakenRecord DEF CodeRead
<1>2. c.flow \in Flows /\ c.start \in StartIds
  BY TakenRecord DEF CodeRead
<1>3. PICK r : r = [q EXCEPT !.state = "consumed"]
  OBVIOUS
<1>4. /\ r \in Records /\ r.id = q.id /\ r.payload = q.payload /\ r.live = q.live
      /\ r.deleteAt = q.deleteAt /\ r.state = "consumed"
  BY <1>3 DEF Records
<1>5. record' = [record EXCEPT ![c.flow][c.start] = r]
  BY <1>1, <1>2, <1>3 DEF CodeRead, GuidedInv, GuidedTypes
<1>6. PICK p : p = [flow |-> c.flow, id |-> c.id, name |-> c.holder, live |-> c.live, exp |-> now + TokenLife]
  OBVIOUS
<1>7. bankProofs' = bankProofs \cup {p}
  BY <1>6 DEF CodeRead
<1>8. \A x \in bankProofs' : Paid(x.id, x.flow, x.name, x.live)
  BY <1>6, <1>7 DEF GuidedInv, PaymentsFit
<1>9. /\ UNCHANGED <<now, starts, start, deposits, held, siwe, wallet, idProofs, entry, policy, live>>
      /\ held \subseteq Challenges /\ \A x \in held : Paid(x.id, x.flow, x.holder, x.live)
      /\ start \in [Handlers -> Started \cup {Idle}]
  BY DEF CodeRead, flowVars, GuidedInv, GuidedTypes, PaymentsFit
<1> QED
  BY <1>1, <1>2, <1>4, <1>5, <1>7, <1>8, <1>9, RecordMoves

LEMMA CodeMissedKeeps ==
  ASSUME GuidedInv, NEW c \in held, CodeMissed(c), UNCHANGED flowVars PROVE GuidedInv'
<1>1. PICK q \in Records : record[c.flow][c.start] = q
  BY TakenRecord DEF CodeMissed
<1>2. /\ c.flow \in Flows /\ c.start \in StartIds
      /\ q.state = "ready" /\ q.attempts < Attempts /\ Paid(q.id, c.flow, HolderOf[q.payload.account], q.live)
  BY <1>1, TakenRecord DEF CodeMissed
<1>3. PICK r : r = [q EXCEPT !.attempts = @ + 1,
                             !.state = IF q.attempts + 1 >= Attempts THEN "locked" ELSE @]
  OBVIOUS
<1>4. Attempts \in Nat /\ q.attempts \in Nat
  BY BankAssumption DEF Records
<1>5. /\ r \in Records /\ r.id = q.id /\ r.payload = q.payload /\ r.live = q.live
      /\ r.deleteAt = q.deleteAt /\ r.state \in {"ready", "locked"}
      /\ r.state = "ready" => r.attempts < Attempts
  <2>1. PICK m : m = [q EXCEPT !.attempts = @ + 1]
    OBVIOUS
  <2>2. /\ m \in Records /\ m.id = q.id /\ m.payload = q.payload /\ m.live = q.live
        /\ m.deleteAt = q.deleteAt /\ m.state = "ready" /\ m.attempts = q.attempts + 1
    <3>1. q.attempts + 1 \in 0 .. Attempts
      BY <1>2, <1>4
    <3> QED
      BY <1>2, <2>1, <3>1 DEF Records
  <2>3. PICK x : x = IF q.attempts + 1 >= Attempts THEN "locked" ELSE "ready"
    OBVIOUS
  <2>4. x \in {"ready", "locked"} /\ (x = "ready" => q.attempts + 1 < Attempts)
    BY <1>4, <2>3
  <2>5. r = [m EXCEPT !.state = x]
    BY <1>2, <1>3, <2>1, <2>2, <2>3
  <2> QED
    BY <2>2, <2>4, <2>5 DEF Records
<1>6. record' = [record EXCEPT ![c.flow][c.start] = r]
  BY <1>1, <1>2, <1>3 DEF CodeMissed, GuidedInv, GuidedTypes
<1>7. /\ UNCHANGED <<now, starts, start, deposits, held, bankProofs, siwe, wallet, idProofs, entry,
                      policy, live>>
      /\ held \subseteq Challenges /\ \A x \in held : Paid(x.id, x.flow, x.holder, x.live)
      /\ start \in [Handlers -> Started \cup {Idle}]
      /\ \A p \in bankProofs : Paid(p.id, p.flow, p.name, p.live)
  BY DEF CodeMissed, flowVars, GuidedInv, GuidedTypes, PaymentsFit
<1> QED
  BY <1>1, <1>2, <1>5, <1>6, <1>7, RecordMoves

LEMMA BankWorkKeeps ==
  ASSUME GuidedInv, NEW h \in Handlers, BankWork(h) PROVE GuidedInv'
BY LookupKeeps, SendKeeps, ActivateKeeps, AbandonKeeps DEF BankWork

LEMMA BankVerifyKeeps ==
  ASSUME GuidedInv, NEW c \in held, BankVerify(c) PROVE GuidedInv'
BY CodeReadKeeps, CodeMissedKeeps DEF BankVerify

\* The document step and a redeployment leave the bank alone.
LEMMA EvidenceGrows ==
  ASSUME GuidedInv, UNCHANGED <<record, starts, start, deposits, held, bankProofs, now>>,
         UNCHANGED <<siwe, wallet>>, UNCHANGED entry, idProofs \subseteq idProofs',
         policy' \in Nat, live' \in BOOLEAN
  PROVE  GuidedInv'
<1>1. GuidedTypes'
  BY DEF GuidedInv, GuidedTypes
<1>2. BitsAreEarned'
  BY EarnedStays DEF GuidedInv
<1> QED
  BY <1>1, <1>2, BankUntouched DEF GuidedInv

LEMMA IdVerifyKeeps ==
  ASSUME GuidedInv, NEW f \in Flows, NEW n \in Names, IdVerify(f, n) PROVE GuidedInv'
<1>1. /\ UNCHANGED <<record, starts, start, deposits, held, bankProofs, now>>
      /\ UNCHANGED <<siwe, wallet>> /\ UNCHANGED entry /\ idProofs \subseteq idProofs'
      /\ policy' = policy /\ live' = live
  BY DEF IdVerify, IdAnswer, bankVars
<1>2. policy \in Nat /\ live \in BOOLEAN
  BY DEF GuidedInv, GuidedTypes
<1> QED
  BY <1>1, <1>2, EvidenceGrows

LEMMA IdContinueKeeps ==
  ASSUME GuidedInv, NEW f \in Flows, NEW n \in Names, NEW t \in twoWay, IdContinue(f, n, t)
  PROVE  GuidedInv'
<1>1. /\ UNCHANGED <<record, starts, start, deposits, held, bankProofs, now>>
      /\ UNCHANGED <<siwe, wallet>> /\ UNCHANGED entry /\ idProofs \subseteq idProofs'
      /\ policy' = policy /\ live' = live
  BY DEF IdContinue, IdAnswer, bankVars
<1>2. policy \in Nat /\ live \in BOOLEAN
  BY DEF GuidedInv, GuidedTypes
<1> QED
  BY <1>1, <1>2, EvidenceGrows

LEMMA RedeployKeeps ==
  ASSUME GuidedInv, Redeploy PROVE GuidedInv'
<1>1. /\ UNCHANGED <<record, starts, start, deposits, held, bankProofs, now>>
      /\ UNCHANGED <<siwe, wallet>> /\ UNCHANGED entry /\ idProofs \subseteq idProofs'
      /\ (live' = ~live /\ policy' = policy) \/ (policy' = policy + 1 /\ live' = live)
  BY DEF Redeploy, bankVars
<1>2. policy \in Nat /\ live \in BOOLEAN
  BY DEF GuidedInv, GuidedTypes
<1>3. policy' \in Nat
  BY <1>1, <1>2
<1>4. live' \in BOOLEAN
  BY <1>1, <1>2, Zenon
<1> QED
  BY <1>1, <1>3, <1>4, EvidenceGrows

LEMMA TimePassesKeeps ==
  ASSUME GuidedInv, TimePasses PROVE GuidedInv'
<1>1. /\ now \in Nat /\ now' = now + 1 /\ Budget \in Nat /\ Lifetime \in Nat
      /\ record' = [f \in Flows |-> [s \in StartIds |->
           IF record[f][s] # NoRecord /\ record[f][s].deleteAt <= now' THEN NoRecord ELSE record[f][s]]]
      /\ UNCHANGED <<starts, start, deposits, held, bankProofs, siwe, wallet, idProofs, entry, policy,
                     live>>
  BY BankAssumption DEF TimePasses, Pass, flowVars, GuidedInv, GuidedTypes
<1>2. \A f \in Flows, s \in StartIds :
        /\ record'[f][s] = record[f][s] \/ record'[f][s] = NoRecord
        /\ record[f][s] # NoRecord /\ record'[f][s] = NoRecord => record[f][s].deleteAt <= now'
  BY <1>1
<1>3. \A f \in Flows, s \in StartIds : record[f][s] # NoRecord => record[f][s].deleteAt \in Nat
  BY DEF GuidedInv, GuidedTypes, Records
<1>4. GuidedTypes'
  <2>1. record' \in [Flows -> [StartIds -> Records \cup {NoRecord}]]
    BY <1>1 DEF GuidedInv, GuidedTypes
  <2> QED
    BY <1>1, <2>1 DEF GuidedInv, GuidedTypes
<1>5. ASSUME NEW f \in Flows, NEW s \in StartIds, NEW t \in Nat, ReservedAt(f, s, t)
      PROVE  ReservedAt(f, s, t)'
  <2>1. CASE now >= t + Budget
    BY <1>1, <1>5, <2>1 DEF ReservedAt
  <2>2. CASE record[f][s] # NoRecord /\ record[f][s].deleteAt >= t + Budget
    <3>1. CASE record'[f][s] = record[f][s]
      BY <1>1, <1>5, <2>2, <3>1 DEF ReservedAt
    <3>2. CASE record'[f][s] = NoRecord
      <4>1. record[f][s].deleteAt <= now'
        BY <1>2, <2>2, <3>2
      <4>2. now' >= t + Budget
        BY <1>1, <1>3, <2>2, <4>1
      <4> QED
        BY <1>1, <1>5, <4>2 DEF ReservedAt
    <3> QED
      BY <1>2, <3>1, <3>2
  <2> QED
    BY <1>5, <2>1, <2>2 DEF ReservedAt
<1>6. StartsFit'
  <2>1. \A d \in deposits : d.flow \in Flows /\ d.start \in StartIds /\ d.at \in Nat
    BY DEF GuidedInv, GuidedTypes, Deposits
  <2>2. \A t \in Started : t.flow \in Flows /\ t.start \in StartIds /\ t.since \in Nat
    BY DEF Started
  <2>3. \A f \in Flows : siwe[f].exp \in Nat
    BY DEF GuidedInv, GuidedTypes, Tokens
  <2>4. \A f \in Flows : siwe'[f].exp <= now' + Lifetime
    BY <1>1, <2>3 DEF GuidedInv, StartsFit
  <2> QED
    BY <1>1, <1>5, <2>1, <2>2, <2>4 DEF GuidedInv, StartsFit
<1>7. PaymentsFit'
  <2>1. \A f \in Flows, s \in StartIds, r \in Records : record'[f][s] = r => record[f][s] = r
    BY <1>2, NoRecordAssumption
  <2>2. \A i, f, x, y : Paid(i, f, x, y)' <=> Paid(i, f, x, y)
    BY <1>1 DEF Paid
  <2>3. \A t \in Started : t.flow \in Flows /\ t.start \in StartIds
    BY DEF Started
  <2>4. ASSUME NEW h \in Handlers, NEW t \in Started, start'[h] = t
        PROVE  /\ t.id <= starts'
               /\ t.at = "activate" => Paid(t.id, t.flow, HolderOf[t.payload.account], t.live)'
               /\ \A r \in Records :
                    record'[t.flow][t.start] = r /\ r.id = t.id => r.payload = t.payload /\ r.live = t.live
    BY <1>1, <2>1, <2>2, <2>3, <2>4 DEF GuidedInv, PaymentsFit
  <2> QED
    BY <1>1, <2>1, <2>2, <2>4 DEF GuidedInv, PaymentsFit
<1>8. OneDepositPerStart' /\ BitsAreEarned'
  BY <1>1, EarnedStays DEF GuidedInv, OneDepositPerStart
<1> QED
  BY <1>4, <1>6, <1>7, <1>8 DEF GuidedInv
-----------------------------------------------------------------------------
LEMMA MaxLevel ==
  ASSUME NEW S \in SUBSET (1 .. 5), S # {}
  PROVE  \E n \in S : \A m \in S : m <= n
<1>1. CASE 5 \in S
  BY <1>1
<1>2. CASE 5 \notin S /\ 4 \in S
  BY <1>2
<1>3. CASE 5 \notin S /\ 4 \notin S /\ 3 \in S
  BY <1>3
<1>4. CASE 5 \notin S /\ 4 \notin S /\ 3 \notin S /\ 2 \in S
  BY <1>4
<1>5. CASE 5 \notin S /\ 4 \notin S /\ 3 \notin S /\ 2 \notin S
  <2>1. \A m \in S : m = 1
    <3>1. \A m \in 1 .. 5 : m \notin {2, 3, 4, 5} => m = 1
      OBVIOUS
    <3> QED
      BY <1>5, <3>1
  <2>2. PICK m \in S : m = 1
    BY <2>1
  <2> QED
    BY <2>1, <2>2
<1> QED
  BY <1>1, <1>2, <1>3, <1>4, <1>5

\* The policy's bands grow with their level, so a level stands for every lower band.
LEMMA LevelCoversBands ==
  ASSUME NEW M, NEW b \in Identity.assuranceBands, b.level <= Assurance(M)
  PROVE  b.required \subseteq M
<1> DEFINE earned == {x \in Identity.assuranceBands : x.required \subseteq M}
           levels == {x.level : x \in earned}
<1>1. /\ \A x \in Identity.assuranceBands : x.level \in 1 .. 5
      /\ \A x, y \in Identity.assuranceBands :
           (x.level = y.level => x = y) /\ (x.level < y.level => x.required \subseteq y.required)
  BY IdentityAssumption DEF PolicyForIssuance, PolicyDefined
<1>2. CASE earned = {}
  <2>1. Assurance(M) = 0
    BY <1>2 DEF Assurance
  <2> QED
    BY <1>1, <2>1
<1>3. CASE earned # {}
  <2>1. Assurance(M) = CHOOSE n \in levels : \A x \in earned : x.level <= n
    BY <1>3 DEF Assurance
  <2>2. levels \in SUBSET (1 .. 5) /\ levels # {}
    BY <1>1, <1>3
  <2>3. \E n \in levels : \A m \in levels : m <= n
    BY <2>2, MaxLevel
  <2>4. \E n \in levels : \A x \in earned : x.level <= n
    BY <2>3
  <2>5. Assurance(M) \in levels
    BY <2>1, <2>4
  <2>6. PICK x \in earned : x.level = Assurance(M)
    BY <2>5
  <2>7. b.level \in 1 .. 5 /\ x.level \in 1 .. 5 /\ x \in Identity.assuranceBands
    BY <1>1, <2>6
  <2> QED
    BY <1>1, <2>6, <2>7
<1> QED
  BY <1>2, <1>3

\* What an issued outcome says of itself.
LEMMA IssuedOutcome ==
  ASSUME NEW n, NEW id, NEW bank, NEW screening, NEW e, e = Outcome(n, id, bank, screening),
         e.status = "ISSUED"
  PROVE  /\ e.declared = n
         /\ id # NoProof => id.authentic /\ id.name = n
         /\ bank # NoProof => bank.name = n
         /\ "document_authenticity" \in e.methods => id # NoProof /\ id.live /\ id.authentic
         /\ "account_control" \in e.methods => bank # NoProof /\ bank.live
         /\ e.production => {"document_authenticity", "account_control"} \subseteq e.methods
         /\ e.assurance = Assurance(e.methods)
         /\ "idDocHash" \in e.claims => id # NoProof
         /\ "accountHolder" \in e.claims => bank # NoProof
<1> DEFINE methods == {"wallet_control"}
                        \cup (IF Counts(id) /\ id.authentic THEN {"document_authenticity"} ELSE {})
                        \cup (IF Counts(bank) THEN {"account_control"} ELSE {})
           status == CASE id # NoProof /\ ~id.authentic -> "REJECTED"
                       [] ~Reconciled(n, id, bank) -> "REJECTED"
                       [] screening = "BLOCK" -> "DENIED"
                       [] screening = "REVIEW" -> "REVIEW"
                       [] ~PolicyMet(methods) -> "REJECTED"
                       [] OTHER -> "ISSUED"
           claims == IF status # "ISSUED" THEN {}
                     ELSE CommonClaims \cup (IF id # NoProof THEN {"idDocHash"} ELSE {})
                                       \cup (IF bank # NoProof THEN {"accountHolder"} ELSE {})
<1>1. /\ e.declared = n /\ e.methods = methods /\ e.status = status
      /\ e.production = (live /\ {"document_authenticity", "account_control"} \subseteq methods)
      /\ e.assurance = IF status = "ISSUED" THEN Assurance(methods) ELSE 0
      /\ e.claims = claims
  BY DEF Outcome
<1>2. status = "ISSUED"
  BY <1>1
<1>3. id # NoProof => id.authentic
  BY <1>2
<1>4. Reconciled(n, id, bank)
  BY <1>2
<1>5. "document_authenticity" \in methods => id # NoProof /\ id.live /\ id.authentic
  BY DEF Counts
<1>6. "account_control" \in methods => bank # NoProof /\ bank.live
  BY DEF Counts
<1>7. /\ "idDocHash" \in claims => id # NoProof
      /\ "accountHolder" \in claims => bank # NoProof
  BY <1>2 DEF CommonClaims
<1> QED
  BY <1>1, <1>2, <1>3, <1>4, <1>5, <1>6, <1>7 DEF Reconciled

LEMMA IssueKeeps ==
  ASSUME GuidedInv, NEW f \in Flows, NEW n \in Names, NEW id \in idProofs \cup {NoProof},
         NEW bank \in bankProofs \cup {NoProof}, NEW screening, Issue(f, n, id, bank, screening)
  PROVE  GuidedInv'
<1>1. PICK e : e = Outcome(n, id, bank, screening)
  OBVIOUS
<1>2. /\ entry' = [entry EXCEPT ![f] = e]
      /\ id # NoProof => id.flow = f
      /\ bank # NoProof => bank.flow = f
      /\ UNCHANGED <<record, starts, start, deposits, held, bankProofs, now>>
      /\ UNCHANGED <<siwe, wallet>> /\ UNCHANGED <<idProofs, policy, live>>
  BY <1>1 DEF Issue, SameFlow, bankVars
<1>3. entry'[f] = e /\ DOMAIN entry' = Flows /\ \A g \in Flows : g # f => entry'[g] = entry[g]
  BY <1>2 DEF GuidedInv, GuidedTypes
<1>4. GuidedTypes'
  BY <1>2, <1>3 DEF GuidedInv, GuidedTypes
<1>5. \A g, m, real : /\ Confirmed(g, m, real)' <=> Confirmed(g, m, real)
                      /\ Deposited(g, m, real)' <=> Deposited(g, m, real)
  BY <1>2 DEF Confirmed, Deposited
<1>6. ASSUME e.status = "ISSUED"
      PROVE  /\ "document_authenticity" \in e.methods => Confirmed(f, e.declared, TRUE)
             /\ "account_control" \in e.methods => Deposited(f, e.declared, TRUE)
             /\ e.production => {"document_authenticity", "account_control"} \subseteq e.methods
             /\ \A b \in Identity.assuranceBands : b.level <= e.assurance =>
                  /\ "document_authenticity" \in b.required => Confirmed(f, e.declared, TRUE)
                  /\ "account_control" \in b.required => Deposited(f, e.declared, TRUE)
             /\ "idDocHash" \in e.claims => Confirmed(f, e.declared, FALSE)
             /\ "accountHolder" \in e.claims => Deposited(f, e.declared, FALSE)
  <2>1. /\ e.declared = n
        /\ id # NoProof => id.authentic /\ id.name = n
        /\ bank # NoProof => bank.name = n
        /\ "document_authenticity" \in e.methods => id # NoProof /\ id.live /\ id.authentic
        /\ "account_control" \in e.methods => bank # NoProof /\ bank.live
        /\ e.production => {"document_authenticity", "account_control"} \subseteq e.methods
        /\ e.assurance = Assurance(e.methods)
        /\ "idDocHash" \in e.claims => id # NoProof
        /\ "accountHolder" \in e.claims => bank # NoProof
    BY <1>1, <1>6, IssuedOutcome
  <2>2. ASSUME NEW real \in BOOLEAN, id # NoProof, real => id.live
        PROVE  Confirmed(f, n, real)
    BY <1>2, <2>1, <2>2 DEF Confirmed
  <2>3. ASSUME NEW real \in BOOLEAN, bank # NoProof, real => bank.live
        PROVE  Deposited(f, n, real)
    <3>1. bank \in bankProofs /\ bank.flow = f /\ bank.name = n
      BY <1>2, <2>1, <2>3
    <3>2. Paid(bank.id, bank.flow, bank.name, bank.live)
      BY <3>1 DEF GuidedInv, PaymentsFit
    <3> QED
      BY <2>3, <3>1, <3>2 DEF Paid, Deposited
  <2>4. \A b \in Identity.assuranceBands : b.level <= e.assurance => b.required \subseteq e.methods
    BY <2>1, LevelCoversBands
  <2>5. "document_authenticity" \in e.methods => Confirmed(f, n, TRUE)
    BY <2>1, <2>2
  <2>6. "account_control" \in e.methods => Deposited(f, n, TRUE)
    BY <2>1, <2>3
  <2>7. "idDocHash" \in e.claims => Confirmed(f, n, FALSE)
    BY <2>1, <2>2
  <2>8. "accountHolder" \in e.claims => Deposited(f, n, FALSE)
    BY <2>1, <2>3
  <2> QED
    BY <2>1, <2>4, <2>5, <2>6, <2>7, <2>8
<1>7. BitsAreEarned'
  <2> SUFFICES ASSUME NEW g \in Flows, entry'[g] # NoEntry, entry'[g].status = "ISSUED"
               PROVE
    LET z == entry'[g] IN
    /\ "document_authenticity" \in z.methods => Confirmed(g, z.declared, TRUE)
    /\ "account_control" \in z.methods => Deposited(g, z.declared, TRUE)
    /\ z.production => {"document_authenticity", "account_control"} \subseteq z.methods
    /\ \A b \in Identity.assuranceBands : b.level <= z.assurance =>
         /\ "document_authenticity" \in b.required => Confirmed(g, z.declared, TRUE)
         /\ "account_control" \in b.required => Deposited(g, z.declared, TRUE)
    /\ "idDocHash" \in z.claims => Confirmed(g, z.declared, FALSE)
    /\ "accountHolder" \in z.claims => Deposited(g, z.declared, FALSE)
    BY <1>5 DEF BitsAreEarned
  <2>1. CASE g = f
    BY <1>3, <1>6, <2>1
  <2>2. CASE g # f
    BY <1>3, <2>2 DEF GuidedInv, BitsAreEarned
  <2> QED
    BY <2>1, <2>2
<1> QED
  BY <1>2, <1>4, <1>7, BankUntouched DEF GuidedInv

LEMMA GuidedInit ==
  ASSUME KycInit PROVE GuidedInv
<1>1. Idle \notin Started
  BY DEF Idle, Started
<1>2. NoToken \in Tokens /\ NoToken.exp = 0
  BY DEF NoToken, Tokens
<1>3. GuidedTypes
  BY <1>2 DEF GuidedTypes, KycInit, BankInit
<1>4. StartsFit
  BY <1>1, <1>2, BankAssumption DEF StartsFit, KycInit, BankInit
<1>5. PaymentsFit
  BY <1>1, NoRecordAssumption DEF PaymentsFit, KycInit, BankInit
<1>6. OneDepositPerStart /\ BitsAreEarned
  BY DEF OneDepositPerStart, BitsAreEarned, KycInit, BankInit
<1> QED
  BY <1>3, <1>4, <1>5, <1>6 DEF GuidedInv

LEMMA GuidedStep ==
  ASSUME GuidedInv, [KycNext]_kycVars PROVE GuidedInv'
<1>1. CASE UNCHANGED kycVars
  BY <1>1, EvidenceGrows DEF kycVars, bankVars, flowVars, GuidedInv, GuidedTypes
<1>2. ASSUME NEW f \in Flows, WalletMessage(f) PROVE GuidedInv'
  BY <1>2, WalletMessageKeeps
<1>3. ASSUME NEW f \in Flows, WalletSigned(f) PROVE GuidedInv'
  BY <1>3, WalletSignedKeeps
<1>4. ASSUME NEW f \in Flows, NEW s \in StartIds, NEW p \in Payloads, NEW h \in Handlers,
             BankStart(h, f, s, p)
      PROVE  GuidedInv'
  BY <1>4, BankStartKeeps
<1>5. ASSUME NEW f \in Flows, NEW s \in StartIds, NEW p \in Payloads, BankStartAgain(f, s, p)
      PROVE  GuidedInv'
  BY <1>5, BankStartAgainKeeps
<1>6. ASSUME NEW f \in Flows, NEW n \in Names, IdVerify(f, n) PROVE GuidedInv'
  BY <1>6, IdVerifyKeeps
<1>7. ASSUME NEW f \in Flows, NEW n \in Names, NEW t \in twoWay, IdContinue(f, n, t) PROVE GuidedInv'
  BY <1>7, IdContinueKeeps
<1>8. ASSUME NEW f \in Flows, NEW n \in Names, NEW id \in idProofs \cup {NoProof},
             NEW bank \in bankProofs \cup {NoProof}, NEW screening \in {"CLEAR", "REVIEW", "BLOCK"},
             Issue(f, n, id, bank, screening)
      PROVE  GuidedInv'
  BY <1>8, IssueKeeps
<1>9. ASSUME NEW h \in Handlers, BankWork(h) PROVE GuidedInv'
  BY <1>9, BankWorkKeeps
<1>10. ASSUME NEW c \in held, BankVerify(c) PROVE GuidedInv'
  BY <1>10, BankVerifyKeeps
<1> QED
  BY <1>1, <1>2, <1>3, <1>4, <1>5, <1>6, <1>7, <1>8, <1>9, <1>10, RedeployKeeps, TimePassesKeeps
     DEF KycNext

(***************************************************************************)
(* A start request is idempotent (bank-challenge-store.ts, RESERVE and     *)
(* ACTIVATE): whatever is retried, answered late or left half done, and    *)
(* even after the record of the start has expired, one startRequestId      *)
(* never sends a second deposit, for any number of flows and handlers.     *)
(***************************************************************************)
THEOREM OneDepositForEachStart == KycSpec => []OneDepositPerStart
<1>1. KycInit => GuidedInv
  BY GuidedInit
<1>2. GuidedInv /\ [KycNext]_kycVars => GuidedInv'
  BY GuidedStep
<1>3. GuidedInv => OneDepositPerStart
  BY DEF GuidedInv
<1> QED
  BY <1>1, <1>2, <1>3, PTL DEF KycSpec

(***************************************************************************)
(* What an issued request says of its holder (the methods, the production  *)
(* regime, the assurance level, the claims) is backed by a document check  *)
(* and a read-back deposit of the same flow, in the declared name, under   *)
(* every identity policy an operator can define, whatever tokens the       *)
(* browser puts together and whatever is redeployed in between.            *)
(***************************************************************************)
THEOREM IssuedBitsAreEarned == KycSpec => []BitsAreEarned
<1>1. KycInit => GuidedInv
  BY GuidedInit
<1>2. GuidedInv /\ [KycNext]_kycVars => GuidedInv'
  BY GuidedStep
<1>3. GuidedInv => BitsAreEarned
  BY DEF GuidedInv
<1> QED
  BY <1>1, <1>2, <1>3, PTL DEF KycSpec

\* The export (AuditExport).

\* What was exported, or may be, comes from grants, receipts and readings that
\* exist, and a node tells of what was issued.
ExportsFit ==
  /\ \A s \in receipts : s.answer \in answers
  /\ \A r \in Requests : retained[r] = "record" => issuances[r] # NoIssuance
  /\ \A w \in Parties, r \in Requests : included[w][r] # NoBlock => issuances[r] # NoIssuance
  /\ \A r \in Requests : issuances[r] # NoIssuance => issuances[r].request = r
  /\ \A w \in Parties : \A o \in readings[w] :
       /\ o.event.request \in Requests
       /\ o.event # NoIssuance /\ o.event = issuances[o.event.request]
  /\ \A p \in prepared :
       /\ p.grant \in grants /\ p.receipts \subseteq receipts
       /\ p.grant.from <= p.generatedAt
  /\ \A x \in sealed : x.payload \in prepared

Shapes ==
  /\ hour \in Nat /\ answers \subseteq AxisAnswers
  /\ issuances \in [Requests -> Issuances \cup {NoIssuance}]
  /\ retained \in [Requests -> {"nothing", "record", "sourced"}]
  /\ included \in [Parties -> [Requests -> Blocks \cup {NoBlock}]]
  /\ readings \in [Parties -> SUBSET Observations]

AuditInv == Shapes /\ ExportsFit /\ ExportIsBacked

(***************************************************************************)
(* An accepted export is backed, for any number of requests, attempts,     *)
(* grants and keys, and however often chains and configurations change.    *)
(***************************************************************************)
THEOREM AcceptedExportIsBacked == AuditSpec => []ExportIsBacked
<1>1. AuditInit => AuditInv
  BY ExportAssumption DEF AuditInit, AuditInv, Shapes, ExportsFit, ExportIsBacked, Backed
<1>2. AuditInv /\ [AuditNext]_auditVars => AuditInv'
  <2> SUFFICES ASSUME AuditInv, [AuditNext]_auditVars PROVE AuditInv'
    OBVIOUS
  <2> USE ExportAssumption DEF AuditInv
  <2>1. ASSUME NEW r \in Requests, NEW axis \in Axes, NEW rails \in BOOLEAN, NEW passed \in BOOLEAN,
               NEW k \in Keys, AxisAnswered(r, axis, rails, passed, k)
        PROVE AuditInv'
    <3>1. PICK n \in 1 .. MaxAnswers :
            LET a == [request |-> r, axis |-> axis, reference |-> n, live |-> rails,
                      passed |-> passed, at |-> hour]
            IN /\ answers' = answers \cup {a}
               /\ receipts' \in {receipts, receipts \cup {[answer |-> a, key |-> k]}}
      BY <2>1 DEF AxisAnswered
    <3> DEFINE a == [request |-> r, axis |-> axis, reference |-> n, live |-> rails,
                     passed |-> passed, at |-> hour]
               s == [answer |-> a, key |-> k]
    <3>2. a \in AxisAnswers
      BY DEF AxisAnswers, Shapes
    <3>3. answers' = answers \cup {a} /\ receipts' \in {receipts, receipts \cup {s}} /\ s.answer = a
      BY <3>1
    <3> HIDE DEF a, s
    <3> QED
      BY <2>1, <3>2, <3>3 DEF AxisAnswered, Shapes, ExportsFit, ExportIsBacked, Backed
  <2>2. ASSUME NEW r \in Requests, NEW results \in SUBSET answers, NEW claims \in SUBSET ClaimKeys,
               NEW rails \in BOOLEAN, NEW demo \in BOOLEAN, Issued(r, results, claims, rails, demo)
        PROVE AuditInv'
    <3> DEFINE e == [request |-> r, claims |-> claims, results |-> results,
                     axes |-> {a.axis : a \in {b \in results : b.live \/ demo}},
                     production |-> rails /\ ~demo
                                      /\ {a.axis : a \in {b \in results : b.live}} = Axes]
    <3>1. e \in Issuances /\ e.request = r
      BY <2>2 DEF Issued, Issuances, Shapes, AxisAnswers
    <3>2. issuances[r] = NoIssuance /\ issuances' = [issuances EXCEPT ![r] = e]
      BY <2>2 DEF Issued
    <3> HIDE DEF e
    <3>3. /\ issuances'[r] = e /\ e # NoIssuance
          /\ \A q \in Requests \ {r} : issuances'[q] = issuances[q]
      BY <3>1, <3>2 DEF Shapes
    <3>4. \A w \in Parties : \A o \in readings[w] : o.event.request # r
      BY <3>2 DEF ExportsFit
    <3>5. /\ retained' = [retained EXCEPT ![r] = "record"]
          /\ UNCHANGED <<hour, answers, receipts, grants, included, readings, pins, prepared,
                         sealed, accepted, changes>>
      BY <2>2 DEF Issued
    <3>6. Shapes'
      BY <3>1, <3>2, <3>5 DEF Shapes
    <3>7. ExportsFit'
      <4>1. /\ \A q \in Requests : retained'[q] = "record" => issuances'[q] # NoIssuance
            /\ \A q \in Requests : issuances'[q] # NoIssuance => issuances'[q].request = q
        BY <3>1, <3>3, <3>5 DEF Shapes, ExportsFit
      <4>2. \A w \in Parties, q \in Requests : included'[w][q] # NoBlock => issuances'[q] # NoIssuance
        BY <3>3, <3>5 DEF ExportsFit
      <4>3. \A w \in Parties : \A o \in readings'[w] :
              /\ o.event.request \in Requests
              /\ o.event # NoIssuance /\ o.event = issuances'[o.event.request]
        BY <3>3, <3>4, <3>5 DEF ExportsFit
      <4>4. /\ \A s \in receipts' : s.answer \in answers'
            /\ \A p \in prepared' : /\ p.grant \in grants' /\ p.receipts \subseteq receipts'
                                   /\ p.grant.from <= p.generatedAt
            /\ \A x \in sealed' : x.payload \in prepared'
        BY <3>5 DEF ExportsFit
      <4> QED
        BY <4>1, <4>2, <4>3, <4>4 DEF ExportsFit
    <3>8. ExportIsBacked'
      <4>1. ASSUME NEW v \in accepted PROVE Backed(v)'
        <5> DEFINE q == v.envelope.payload.evidence.request
        <5>1. issuances'[q] = issuances[q]
          BY <3>3, <3>4 DEF ExportsFit, ExportIsBacked, Backed, Parties
        <5> QED
          BY <5>1, <3>5 DEF ExportIsBacked, Backed
      <4> QED
        BY <4>1, <3>5 DEF ExportIsBacked
    <3> QED
      BY <3>6, <3>7, <3>8
  <2>3. ASSUME NEW r \in Requests, NEW b \in Blocks, Sourced(r, b) PROVE AuditInv'
    BY <2>3 DEF Sourced, Shapes, ExportsFit, ExportIsBacked, Backed
  <2>4. ASSUME NEW r \in Requests, Deleted(r) PROVE AuditInv'
    BY <2>4 DEF Deleted, Shapes, ExportsFit, ExportIsBacked, Backed
  <2>5. ASSUME NEW r \in Requests, NEW c \in Customers, NEW claims \in SUBSET ClaimKeys,
               NEW until \in 1 .. MaxHours + 1, NEW k \in Keys, Granted(r, c, claims, until, k)
        PROVE AuditInv'
    BY <2>5 DEF Granted, Shapes, ExportsFit, ExportIsBacked, Backed
  <2>6. ASSUME NEW w \in Parties, NEW r \in Requests, Read(w, r) PROVE AuditInv'
    <3> DEFINE o == [observedAt |-> hour, block |-> included[w][r], event |-> issuances[r]]
    <3>1. readings' = [readings EXCEPT ![w] = @ \cup {o}]
      BY <2>6 DEF Read
    <3>2. o.event = issuances[r] /\ issuances[r] # NoIssuance /\ o \in Observations
      BY <2>6 DEF Read, Shapes, ExportsFit, Observations
    <3> HIDE DEF o
    <3> QED
      BY <2>6, <3>1, <3>2 DEF Read, Shapes, ExportsFit, ExportIsBacked, Backed
  <2>7. ASSUME NEW w \in Parties, NEW r \in Requests, NEW b \in Blocks \cup {NoBlock}, Moved(w, r, b)
        PROVE AuditInv'
    BY <2>7 DEF Moved, Shapes, ExportsFit, ExportIsBacked, Backed
  <2>8. ASSUME NEW w \in Parties, NEW role \in {"authorizers", "receiptSigners", "exporters"},
               NEW ks \in SUBSET Keys, Repinned(w, role, ks)
        PROVE AuditInv'
    BY <2>8 DEF Repinned, Shapes, ExportsFit, ExportIsBacked, Backed
  <2>9. CASE HourPasses
    BY <2>9 DEF HourPasses, Shapes, ExportsFit, ExportIsBacked, Backed
  <2>10. ASSUME NEW g \in grants, NEW ss \in SUBSET receipts, NEW o \in readings["exporter"],
                Prepare(g, ss, o)
         PROVE AuditInv'
    <3> DEFINE p == [generatedAt |-> hour, grant |-> g, evidence |-> issuances[g.request],
                     disclosures |-> g.claims, receipts |-> ss, observation |-> o]
    <3>1. prepared' = prepared \cup {p}
      BY <2>10 DEF Prepare
    <3>2. p.grant \in grants /\ p.receipts \subseteq receipts /\ p.grant.from <= p.generatedAt
      BY <2>10 DEF Prepare, PayloadValid, GrantInForce
    <3> HIDE DEF p
    <3> QED
      BY <2>10, <3>1, <3>2 DEF Prepare, Shapes, ExportsFit, ExportIsBacked, Backed
  <2>11. ASSUME NEW p \in prepared, NEW k \in Keys, Seal(p, k) PROVE AuditInv'
    BY <2>11 DEF Seal, Shapes, ExportsFit, ExportIsBacked, Backed
  <2>12. ASSUME NEW x \in sealed, NEW o \in readings["auditor"], Verify(x, o) PROVE AuditInv'
    <3> PICK v : v = [envelope |-> x, at |-> hour, pins |-> pins["auditor"]]
      OBVIOUS
    <3> DEFINE p == x.payload
               e == p.evidence
    <3>1. p \in prepared /\ p.grant \in grants /\ p.receipts \subseteq receipts
          /\ p.grant.from <= p.generatedAt
      BY DEF ExportsFit
    <3>2. PayloadValid(p, pins["auditor"], hour) /\ o = p.observation
      BY <2>12 DEF Verify
    <3>3. e = issuances[e.request] /\ p.observation \in readings["auditor"] /\ p.observation.event = e
      BY <3>2 DEF PayloadValid, ExportsFit, Parties
    <3>4. ASSUME NEW axis \in e.axes
          PROVE  \E s \in receipts :
                   /\ s.answer \in answers \cap e.results /\ s.answer.axis = axis /\ s.answer.passed
                   /\ e.production => s.answer.live
                   /\ s.key \in pins["auditor"].receiptSigners
      BY <3>1, <3>2 DEF PayloadValid, ReceiptsMatch, ReceiptMatches, ExportsFit
    <3>5. /\ p.grant.request = e.request /\ p.grant.customer = CustomerOf[e.request]
          /\ p.grant.key \in pins["auditor"].authorizers
          /\ p.disclosures = p.grant.claims /\ p.disclosures \subseteq e.claims
          /\ p.generatedAt <= hour /\ hour < p.grant.until
      BY <3>2 DEF PayloadValid, GrantInForce
    <3>6. v.envelope.payload = p /\ v.at = hour /\ v.pins = pins["auditor"]
      OBVIOUS
    <3>7. accepted' = accepted \cup {v}
      BY <2>12 DEF Verify
    <3>8. ExportIsBacked'
      <4>1. \A u \in accepted : Backed(u)'
        BY <2>12 DEF Verify, ExportIsBacked, Backed
      <4>2. Backed(v)'
        BY <2>12, <3>1, <3>3, <3>4, <3>5, <3>6 DEF Verify, Backed, p, e
      <4> QED
        BY <3>7, <4>1, <4>2 DEF ExportIsBacked
    <3> QED
      BY <2>12, <3>8 DEF Verify, Shapes, ExportsFit
  <2>13. CASE UNCHANGED auditVars
    BY <2>13 DEF auditVars, Shapes, ExportsFit, ExportIsBacked, Backed
  <2> QED
    BY <2>1, <2>2, <2>3, <2>4, <2>5, <2>6, <2>7, <2>8, <2>9, <2>10, <2>11, <2>12, <2>13 DEF AuditNext
<1>3. AuditInv => ExportIsBacked
  BY DEF AuditInv
<1> QED
  BY <1>1, <1>2, <1>3, PTL DEF AuditSpec
-----------------------------------------------------------------------------
(***************************************************************************)
(* The pages (WalletSession, VerifyPage, ProviderPage): both show one      *)
(* session at a time, for any number of connections and of requests under  *)
(* way, and the guided page never loses the id of a request that was sent. *)
(***************************************************************************)
Flow0 == 0 .. MaxConnects
Accounts0 == WalletAccounts \cup {NoWallet}

Places == {"permit", "sign", "check", "recheck", "make", "fetch", "reply"}
RequestStates == {"none", "open", "failed", "ready"}
Replies == {"nothing", "ok", "proof", "two_way", "wrong_code", "gone", "busy"} \cup RequestStates

\* Tasks of the given kinds.
PageTasks(kinds) ==
  [kind : kinds, at : Places, revision : Nat, flow : Flow0, about : Flow0, got : Replies]

\* The types of a session.
SessionShape(kinds) ==
  /\ selected \in Accounts0 /\ heard \in BOOLEAN
  /\ fence \in [revision : Nat, attached : BOOLEAN, address : Accounts0,
                observed : Accounts0, authorized : BOOLEAN]
  /\ tasks \subseteq PageTasks(kinds)
  /\ holder \in [FlowIds -> Accounts0] /\ connects \in Flow0

\* No request is of a later session; what waits for the wallet is of this one;
\* and a flow has an account exactly when its permission was given.
SessionOrder ==
  /\ \A t \in tasks : t.revision <= fence.revision
  /\ \A t \in tasks : AtWallet(t) => Current(t)
  /\ \A f \in FlowIds : f > connects => holder[f] = NoWallet
  /\ \A t \in tasks : t.at = "permit" => t.flow = connects /\ t.flow # NoFlow /\ holder[t.flow] = NoWallet

Connecting(t) == t.kind \in {"hello", "prove"}
StepKinds == {"ocr", "id", "bank", "code"}
IssueKinds == {"issue", "status", "resume", "retry"}
PageKinds == StepKinds \cup IssueKinds \cup {"hello", "prove", "poll", "sample"}

PageShape ==
  /\ page \in [busy : BOOLEAN, consented : BOOLEAN, wallet : Flow0, doc : Flow0, id : Flow0,
               twoWay : Flow0, challenge : Flow0, bank : Flow0,
               issued : [flow : Flow0, state : Replies], last : Flow0]
  /\ saved \in [WalletAccounts -> Flow0] /\ request \in [FlowIds -> RequestStates]

\* The account f was opened for; a flow of the session at hand is the latest one.
Ours(f) == f \in FlowIds /\ holder[f] = fence.address /\ holder[f] \in WalletAccounts

\* The wallet that is shown is the latest flow's, of the account of the fence; the
\* request that is shown beside it is the one kept for that account.
WalletShown ==
  page.wallet # NoFlow =>
    /\ page.wallet = connects /\ Ours(page.wallet)
    /\ page.last = saved[holder[page.wallet]]
    /\ page.issued # NoResult => Ours(page.issued.flow)

PartsShown ==
  \A part \in {page.doc, page.id, page.twoWay, page.challenge, page.bank} :
    part \in {NoFlow, page.wallet}

\* The requests of the session at hand: while it connects there is one; otherwise
\* one button and any polls, in the flow that is shown.
CurrentTasks ==
  \A t \in tasks : Current(t) =>
    /\ t.kind # "poll" => page.busy /\ \A u \in tasks : Current(u) /\ u.kind # "poll" => u = t
    /\ Connecting(t) =>
         /\ page.wallet = NoFlow /\ t.flow = connects /\ t.flow # NoFlow
         /\ t.at # "permit" => Ours(t.flow)
         /\ \A u \in tasks : Current(u) => u = t
    /\ t.kind \in StepKinds \cup IssueKinds =>
         page.wallet # NoFlow /\ t.flow = page.wallet
    /\ t.kind \in IssueKinds => t.about = page.last /\ t.about # NoFlow
    /\ t.kind = "poll" => Ours(t.about) /\ page.wallet \in {NoFlow, t.flow}
    /\ t.at \in {"permit", "sign"} => Connecting(t)

\* A kept id is of a request of that account; what was sent, and what is about to
\* be, is not later than the id that is kept.
IdsKept ==
  /\ \A a \in WalletAccounts : saved[a] # NoFlow => saved[a] <= connects /\ holder[saved[a]] = a
  /\ \A f \in FlowIds : request[f] # "none" =>
       f <= connects /\ holder[f] \in WalletAccounts /\ saved[holder[f]] >= f
  /\ \A t \in tasks : t.kind = "issue" =>
       t.about # NoFlow /\ holder[t.about] \in WalletAccounts /\ saved[holder[t.about]] >= t.about

\* A request is about no flow yet to come; what makes the samples is a task of its own.
AboutPast ==
  \A t \in tasks :
    /\ t.about <= connects /\ (t.at = "make" <=> t.kind = "sample")
    /\ t.kind \in IssueKinds \cup {"poll"} => t.about # NoFlow

VerifyInv ==
  /\ SessionShape(PageKinds) /\ SessionOrder /\ PageShape /\ AboutPast
  /\ WalletShown /\ PartsShown /\ CurrentTasks /\ IdsKept

-----------------------------------------------------------------------------
(***************************************************************************)
(* The guided page.                                                        *)
(***************************************************************************)

\* An interruption: the fence goes on to the next session, what waits for the wallet is
\* dropped and the page is cleared, while the service keeps what it has.
LEMMA Interrupted ==
  ASSUME VerifyInv, fence' = Disposed, tasks' \subseteq Cancelled, page' = ClearedPage,
         heard' = TRUE, UNCHANGED <<selected, holder, connects, saved, request>>
  PROVE  VerifyInv'
<1>1. \A t \in tasks' : t \in tasks /\ t \in PageTasks(PageKinds) /\ ~AtWallet(t) /\ t.revision < fence'.revision
  BY DEF VerifyInv, SessionShape, SessionOrder, PageTasks, Cancelled, Disposed
<1>2. SessionShape(PageKinds)'
  BY <1>1, WalletAssumption DEF VerifyInv, SessionShape, Disposed, Accounts0
<1>3. \A t \in tasks' : ~Current(t)'
  BY <1>1, <1>2 DEF SessionShape, PageTasks, Current
<1>4. SessionOrder'
  <2>1. \A t \in tasks' : t.revision <= fence'.revision /\ ~AtWallet(t) /\ t.at # "permit"
    BY <1>1, <1>2 DEF SessionShape, PageTasks, AtWallet
  <2> QED
    BY <2>1 DEF VerifyInv, SessionOrder, AtWallet
<1>5. PageShape'
  BY WalletAssumption DEF VerifyInv, PageShape, ClearedPage, NoResult, Flow0, NoFlow, Replies, RequestStates
<1>6. WalletShown' /\ PartsShown' /\ CurrentTasks'
  BY <1>3 DEF ClearedPage, WalletShown, PartsShown, CurrentTasks
<1>7. IdsKept' /\ AboutPast'
  BY <1>1 DEF VerifyInv, IdsKept, AboutPast
<1> QED
  BY <1>2, <1>4, <1>5, <1>6, <1>7 DEF VerifyInv

\* While no button is at work, only polls of the session at hand are.
LEMMA OnlyPolls ==
  ASSUME VerifyInv, Unoccupied, NEW t \in tasks, Current(t) PROVE t.kind = "poll"
BY DEF VerifyInv, CurrentTasks, Unoccupied

\* A button about the flow that is shown.
LEMMA ButtonStarted ==
  ASSUME VerifyInv, page.wallet # NoFlow,
         NEW kind \in StepKinds \cup IssueKinds, NEW about \in Flow0,
         NEW changed, Start(kind, about, changed),
         changed \in [busy : BOOLEAN, consented : BOOLEAN, wallet : Flow0, doc : Flow0, id : Flow0,
               twoWay : Flow0, challenge : Flow0, bank : Flow0,
               issued : [flow : Flow0, state : Replies], last : Flow0],
         changed.wallet = page.wallet, changed.issued = page.issued,
         \A part \in {changed.doc, changed.id, changed.twoWay, changed.challenge, changed.bank} :
           part \in {NoFlow, page.wallet},
         saved' \in [WalletAccounts -> Flow0], request' = request,
         changed.last = saved'[holder[page.wallet]],
         \A a \in WalletAccounts : saved'[a] # saved[a] => saved'[a] = connects /\ a = holder[connects],
         IF kind \in StepKinds THEN about = page.wallet ELSE about = changed.last /\ about # NoFlow
  PROVE  VerifyInv'
<1> DEFINE new == Task(kind, "check", page.wallet, about)
<1>1. /\ tasks' = tasks \cup {new} /\ page' = [changed EXCEPT !.busy = TRUE] /\ ~page.busy
      /\ UNCHANGED <<selected, heard, fence, holder, connects>>
  BY DEF Start, Unoccupied
<1>2. new \in PageTasks(PageKinds) /\ Current(new) /\ new.kind = kind /\ new.at = "check"
      /\ new.flow = page.wallet /\ new.about = about /\ new.revision = fence.revision
  <2>1. kind \in PageKinds
    BY DEF PageKinds
  <2>2. fence.revision \in Nat /\ page.wallet \in Flow0
    BY DEF VerifyInv, SessionShape, PageShape
  <2> QED
    BY <2>1, <2>2 DEF PageTasks, Task, Current, Places, Replies
<1> HIDE DEF new
<1>3. page.wallet = connects /\ Ours(page.wallet)
  BY DEF VerifyInv, WalletShown
<1>4. SessionShape(PageKinds)'
  BY <1>1, <1>2 DEF VerifyInv, SessionShape
<1>5. SessionOrder'
  BY <1>1, <1>2 DEF VerifyInv, SessionOrder, SessionShape, PageTasks, AtWallet, Current
<1>6. /\ PageShape'
      /\ page'.busy /\ page'.wallet = page.wallet /\ page'.issued = page.issued
      /\ page'.last = changed.last
  BY <1>1 DEF VerifyInv, PageShape
<1>7. PartsShown'
  BY <1>1 DEF PartsShown
<1>8. WalletShown'
  BY <1>1, <1>3, <1>6 DEF VerifyInv, WalletShown, Ours
<1>9. IdsKept'
  <2>1. \A a \in WalletAccounts : saved'[a] >= saved[a]
    BY <1>1 DEF VerifyInv, IdsKept, PageShape, SessionShape, Flow0, NoFlow
  <2>2. \A a \in WalletAccounts : saved'[a] # NoFlow => saved'[a] <= connects /\ holder[saved'[a]] = a
    BY DEF VerifyInv, IdsKept, SessionShape, Flow0
  <2>3. \A f \in FlowIds : request[f] # "none" =>
           f <= connects /\ holder[f] \in WalletAccounts /\ saved'[holder[f]] >= f
    BY <2>1, WalletAssumption DEF VerifyInv, IdsKept, PageShape, FlowIds, Flow0
  <2>4. ASSUME NEW t \in tasks, t.kind = "issue"
        PROVE  t.about # NoFlow /\ holder[t.about] \in WalletAccounts /\ saved'[holder[t.about]] >= t.about
    BY <2>1, <2>4, WalletAssumption DEF VerifyInv, IdsKept, PageShape, SessionShape, PageTasks, Flow0
  <2>5. CASE kind = "issue"
    <3>1. about = saved'[holder[page.wallet]] /\ holder[page.wallet] \in WalletAccounts /\ about # NoFlow
      BY <2>5, <1>3 DEF Ours, StepKinds
    <3>2. holder[about] = holder[page.wallet]
      BY <3>1, <2>2
    <3> QED
      BY <1>1, <1>2, <2>2, <2>3, <2>4, <3>1, <3>2 DEF IdsKept, Flow0
  <2>6. CASE kind # "issue"
    BY <1>1, <1>2, <2>2, <2>3, <2>4, <2>6 DEF IdsKept
  <2> QED
    BY <2>5, <2>6
<1>10. about <= connects
  <2>1. \A a \in WalletAccounts : saved'[a] <= connects
    BY DEF VerifyInv, IdsKept, SessionShape, PageShape, Flow0, NoFlow
  <2>2. connects <= connects
    BY DEF VerifyInv, SessionShape, Flow0
  <2>3. CASE kind \in StepKinds
    BY <1>3, <2>2, <2>3
  <2>4. CASE kind \notin StepKinds
    <3>1. about = saved'[holder[page.wallet]]
      BY <2>4
    <3> QED
      BY <1>3, <2>1, <3>1 DEF Ours
  <2> QED
    BY <2>3, <2>4
<1>11. AboutPast'
  BY <1>1, <1>2, <1>10 DEF VerifyInv, AboutPast, StepKinds, IssueKinds
<1>12. CurrentTasks'
  <2>1. \A t \in tasks : Current(t) => t.kind = "poll"
    BY <1>1, OnlyPolls DEF Unoccupied
  <2>2. \A t \in tasks : Current(t) =>
          t.kind = "poll" /\ Ours(t.about) /\ page.wallet = t.flow /\ t.at \notin {"permit", "sign"}
    BY <2>1 DEF VerifyInv, CurrentTasks, Connecting
  <2>3. new.kind # "poll" /\ ~Connecting(new)
    BY <1>2 DEF StepKinds, IssueKinds, Connecting
  <2>4. \A t : Current(t)' <=> Current(t)
    BY <1>1 DEF Current
  <2>5. \A f : Ours(f)' <=> Ours(f)
    BY <1>1 DEF Ours
  <2>6. new.kind \in IssueKinds => new.about = page'.last /\ new.about # NoFlow
    BY <1>2, <1>6 DEF StepKinds, IssueKinds
  <2>7. ASSUME NEW t \in tasks', Current(t)
        PROVE  t = new \/ (t \in tasks /\ t.kind = "poll")
    BY <1>1, <2>1, <2>7
  <2> QED
    BY <1>1, <1>2, <1>6, <2>2, <2>3, <2>4, <2>5, <2>6, <2>7
    DEF CurrentTasks, StepKinds, IssueKinds, Connecting
<1> QED
  BY <1>4, <1>5, <1>6, <1>7, <1>8, <1>9, <1>11, <1>12 DEF VerifyInv

\* The buttons, and the two changes of the page that need no request.
LEMMA ButtonsKeep ==
  ASSUME VerifyInv, Buttons PROVE VerifyInv'
<1> USE DEF NoFlow
<1>1. ASSUME NEW c \in BOOLEAN, Consent(c) PROVE VerifyInv'
  BY <1>1 DEF Consent, VerifyInv, sessionVars, outside, SessionShape, SessionOrder, PageShape, AboutPast,
     WalletShown, PartsShown, CurrentTasks, IdsKept, Current, Ours
<1>2. CASE Connect
  <2> DEFINE new == [Task("hello", "permit", connects + 1, connects + 1) EXCEPT
                       !.revision = fence.revision + 1]
  <2>1. /\ fence' = [Disposed EXCEPT !.attached = TRUE] /\ connects' = connects + 1 /\ heard' = TRUE
        /\ tasks' = Cancelled \cup {new} /\ connects < MaxConnects
        /\ UNCHANGED <<selected, holder, saved, request>>
        /\ page' = [page EXCEPT !.busy = TRUE] /\ page.wallet = NoFlow
    BY <1>2 DEF Connect, Attach, outside
  <2>2. fence.revision \in Nat /\ connects \in Nat
    BY DEF VerifyInv, SessionShape, Flow0
  <2>3. /\ fence'.revision = fence.revision + 1
        /\ fence' \in [revision : Nat, attached : BOOLEAN, address : Accounts0,
                       observed : Accounts0, authorized : BOOLEAN]
    <3>1. fence' = [revision |-> fence.revision + 1, attached |-> TRUE, address |-> NoWallet,
                    observed |-> NoWallet, authorized |-> FALSE]
      BY <2>1 DEF Disposed
    <3>2. NoWallet \in Accounts0 /\ fence.revision + 1 \in Nat
      BY <2>2 DEF Accounts0
    <3> QED
      BY <3>1, <3>2
  <2>4. connects + 1 \in Flow0 /\ connects' \in Flow0 /\ connects' > connects
    BY <2>1, <2>2, WalletAssumption DEF Flow0
  <2>5. /\ new \in PageTasks(PageKinds) /\ new.revision = fence'.revision /\ new.kind = "hello"
        /\ new.at = "permit" /\ new.flow = connects' /\ new.about = connects'
    BY <2>1, <2>2, <2>3, <2>4 DEF PageTasks, Task, PageKinds, Places, Replies
  <2> HIDE DEF new
  <2>6. \A t \in Cancelled : /\ t \in tasks /\ t \in PageTasks(PageKinds) /\ ~AtWallet(t)
                            /\ t.revision < fence'.revision /\ ~Current(t)'
    BY <2>2, <2>3 DEF VerifyInv, SessionShape, SessionOrder, PageTasks, Cancelled, Current
  <2>7. SessionShape(PageKinds)'
    BY <2>1, <2>3, <2>4, <2>5, <2>6 DEF VerifyInv, SessionShape
  <2>8. SessionOrder'
    <3>1. \A t \in tasks' : t.revision <= fence'.revision
      BY <2>1, <2>2, <2>3, <2>5, <2>6 DEF PageTasks
    <3>2. \A t \in tasks' : AtWallet(t)' => Current(t)'
      BY <2>1, <2>5, <2>6 DEF Current, AtWallet
    <3>3. \A f \in FlowIds : f > connects' => holder'[f] = NoWallet
      BY <2>1, <2>2 DEF VerifyInv, SessionOrder, FlowIds
    <3>4. connects' \in FlowIds /\ connects' > connects
      BY <2>1, <2>2, WalletAssumption DEF FlowIds
    <3>5. \A t \in tasks' : t.at = "permit" => t = new
      BY <2>1, <2>6 DEF AtWallet
    <3> QED
      BY <2>1, <2>5, <3>1, <3>2, <3>3, <3>4, <3>5 DEF VerifyInv, SessionOrder, FlowIds
  <2>9. PageShape'
    BY <2>1 DEF VerifyInv, PageShape
  <2>10. PartsShown' /\ WalletShown'
    BY <2>1, <2>9 DEF VerifyInv, PartsShown, WalletShown, PageShape
  <2>11. CurrentTasks'
    <3>1. \A t \in tasks' : Current(t)' => t = new
      BY <2>1, <2>6
    <3>2. page'.busy /\ page'.wallet = NoFlow
      BY <2>1 DEF VerifyInv, PageShape
    <3>3. connects' # NoFlow
      BY <2>1, <2>2
    <3> QED
      BY <2>5, <3>1, <3>2, <3>3 DEF CurrentTasks, Connecting, StepKinds, IssueKinds
  <2>12. IdsKept'
    <3>1. \A n \in Nat : n <= connects => n <= connects'
      BY <2>1, <2>2
    <3>2. \A t \in tasks' : t.kind = "issue" => t \in tasks
      BY <2>1, <2>5, <2>6
    <3> QED
      BY <2>1, <3>1, <3>2 DEF VerifyInv, IdsKept, PageShape, Flow0, FlowIds
  <2>13. AboutPast'
    BY <2>1, <2>2, <2>5, <2>6 DEF VerifyInv, AboutPast, PageTasks, Flow0
  <2> QED
    BY <2>7, <2>8, <2>9, <2>10, <2>11, <2>12, <2>13 DEF VerifyInv
<1>3. CASE LoadSample
  <2> DEFINE new == Task("sample", "make", NoFlow, NoFlow)
  <2>1. /\ tasks' = tasks \cup {new} /\ page' = [page EXCEPT !.busy = TRUE] /\ Unoccupied
        /\ UNCHANGED <<selected, heard, fence, holder, connects, saved, request>>
    BY <1>3 DEF LoadSample, outside
  <2>2. fence.revision \in Nat /\ 0 \in Flow0 /\ connects \in Nat
    BY WalletAssumption DEF VerifyInv, SessionShape, Flow0
  <2>3. /\ new \in PageTasks(PageKinds) /\ Current(new) /\ new.revision = fence.revision
        /\ new.kind = "sample" /\ new.at = "make" /\ new.about = 0
    BY <2>2 DEF PageTasks, Task, PageKinds, Places, Replies, Current
  <2> HIDE DEF new
  <2>4. SessionShape(PageKinds)' /\ PageShape' /\ AboutPast'
    <3>1. SessionShape(PageKinds)'
      BY <2>1, <2>3 DEF VerifyInv, SessionShape
    <3>2. PageShape'
      BY <2>1 DEF VerifyInv, PageShape
    <3>3. AboutPast'
      BY <2>1, <2>2, <2>3 DEF VerifyInv, AboutPast, IssueKinds
    <3> QED
      BY <3>1, <3>2, <3>3
  <2>5. SessionOrder'
    BY <2>1, <2>2, <2>3 DEF VerifyInv, SessionOrder, AtWallet, Current
  <2>6. PartsShown' /\ WalletShown' /\ IdsKept'
    BY <2>1, <2>3 DEF VerifyInv, PageShape, PartsShown, WalletShown, IdsKept, Ours
  <2>7. \A t \in tasks : Current(t) => t.kind = "poll"
    BY <2>1, OnlyPolls
  <2>8. page'.busy /\ page'.wallet = page.wallet /\ page'.last = page.last
    BY <2>1 DEF VerifyInv, PageShape
  <2>9. CurrentTasks'
    BY <2>1, <2>3, <2>7, <2>8 DEF VerifyInv, CurrentTasks, Current, Ours, StepKinds, IssueKinds, Connecting
  <2> QED
    BY <2>4, <2>5, <2>6, <2>9 DEF VerifyInv
<1>4. CASE ReadDocument \/ VerifyDocument \/ AnswerTwoWay \/ StartBank \/ ConfirmCode
  <2>1. PICK kind, changed :
          /\ kind \in StepKinds /\ page.wallet # NoFlow /\ Start(kind, page.wallet, changed) /\ UNCHANGED outside
          /\ changed = page \/ changed = [page EXCEPT !.bank = NoFlow]
    BY <1>4 DEF ReadDocument, VerifyDocument, AnswerTwoWay, StartBank, ConfirmCode, CanBank, StepKinds,
                VerifyInv, PartsShown
  <2>2. PageShape /\ PartsShown /\ WalletShown
    BY DEF VerifyInv
  <2>3. page.wallet \in Flow0 /\ 0 \in Flow0
    BY <2>2, WalletAssumption DEF PageShape, Flow0
  <2>4. /\ changed \in [busy : BOOLEAN, consented : BOOLEAN, wallet : Flow0, doc : Flow0, id : Flow0,
               twoWay : Flow0, challenge : Flow0, bank : Flow0,
               issued : [flow : Flow0, state : Replies], last : Flow0]
        /\ changed.wallet = page.wallet /\ changed.issued = page.issued /\ changed.last = page.last
        /\ \A part \in {changed.doc, changed.id, changed.twoWay, changed.challenge, changed.bank} :
             part \in {NoFlow, page.wallet}
    BY <2>1, <2>2, <2>3 DEF PageShape, PartsShown
  <2>5. saved' = saved /\ request' = request /\ saved' \in [WalletAccounts -> Flow0]
        /\ changed.last = saved'[holder[page.wallet]]
    BY <2>1, <2>2, <2>4 DEF outside, PageShape, WalletShown
  <2> QED
    BY <2>1, <2>3, <2>4, <2>5, ButtonStarted
<1>5. CASE CancelTwoWay \/ StartOver
  BY <1>5, WalletAssumption DEF CancelTwoWay, StartOver, VerifyInv, sessionVars, outside, SessionShape, SessionOrder, PageShape, AboutPast,
     WalletShown, PartsShown, CurrentTasks, IdsKept, Current, Ours, Flow0
<1>6. CASE PressIssue
  <2> DEFINE w == page.wallet
             a == holder[w]
             changed == [page EXCEPT !.last = w]
  <2>1. /\ w # NoFlow /\ saved' = [saved EXCEPT ![a] = w] /\ Start("issue", w, changed)
        /\ request' = request
    BY <1>6 DEF PressIssue, CanIssue, CanBank, Remember
  <2>2. PageShape /\ PartsShown /\ w = connects /\ Ours(w) /\ w \in Flow0
    BY <2>1 DEF VerifyInv, WalletShown, PageShape
  <2>3. a \in WalletAccounts /\ saved'[a] = w /\ saved' \in [WalletAccounts -> Flow0]
        /\ \A b \in WalletAccounts \ {a} : saved'[b] = saved[b]
    BY <2>1, <2>2 DEF PageShape, Ours
  <2>4. /\ changed \in [busy : BOOLEAN, consented : BOOLEAN, wallet : Flow0, doc : Flow0, id : Flow0,
               twoWay : Flow0, challenge : Flow0, bank : Flow0,
               issued : [flow : Flow0, state : Replies], last : Flow0]
        /\ changed.wallet = w /\ changed.issued = page.issued /\ changed.last = w
        /\ \A part \in {changed.doc, changed.id, changed.twoWay, changed.challenge, changed.bank} :
             part \in {NoFlow, w}
    BY <2>2 DEF PageShape, PartsShown
  <2>5. "issue" \in IssueKinds /\ "issue" \notin StepKinds
    BY DEF IssueKinds, StepKinds
  <2> HIDE DEF changed
  <2> QED
    BY <2>1, <2>2, <2>3, <2>4, <2>5, ButtonStarted
<1>7. ASSUME NEW kind \in {"status", "resume", "retry"}, ResumeIssue(kind) PROVE VerifyInv'
  <2>1. /\ page.wallet # NoFlow /\ page.last # NoFlow /\ Start(kind, page.last, page)
        /\ saved' = saved /\ request' = request
    BY <1>7 DEF ResumeIssue, outside
  <2>2. PageShape /\ PartsShown /\ WalletShown
    BY DEF VerifyInv
  <2>3. page.last = saved'[holder[page.wallet]] /\ page.last \in Flow0
    BY <2>1, <2>2 DEF PageShape, WalletShown
  <2>4. kind \in IssueKinds /\ kind \notin StepKinds
    BY DEF IssueKinds, StepKinds
  <2> QED
    BY <2>1, <2>2, <2>3, <2>4, ButtonStarted DEF PageShape, PartsShown
<1>8. CASE PollStatus
  <2> DEFINE new == Task("poll", "fetch", page.wallet, page.last)
  <2>1. /\ tasks' = tasks \cup {new} /\ ~page.busy /\ page.wallet # NoFlow /\ page.last # NoFlow
        /\ UNCHANGED <<selected, heard, fence, holder, connects, page, saved, request>>
    BY <1>8 DEF PollStatus, Unoccupied
  <2>2. fence.revision \in Nat /\ page.wallet \in Flow0 /\ page.last \in Flow0
    BY DEF VerifyInv, SessionShape, PageShape
  <2>3. /\ new \in PageTasks(PageKinds) /\ Current(new) /\ new.revision = fence.revision
        /\ new.kind = "poll" /\ new.at = "fetch" /\ new.flow = page.wallet /\ new.about = page.last
    BY <2>2 DEF PageTasks, Task, PageKinds, Places, Replies, Current
  <2> HIDE DEF new
  <2>4. Ours(page.last) /\ page.last <= connects
    <3>1. page.last = saved[holder[page.wallet]] /\ Ours(page.wallet)
      BY <2>1 DEF VerifyInv, WalletShown
    <3>2. page.last <= connects /\ holder[page.last] = holder[page.wallet]
      BY <2>1, <3>1 DEF VerifyInv, IdsKept, Ours
    <3> QED
      BY <2>1, <2>2, <3>1, <3>2 DEF Ours, FlowIds, Flow0
  <2>5. SessionShape(PageKinds)' /\ PageShape' /\ AboutPast'
    BY <2>1, <2>3, <2>4 DEF VerifyInv, SessionShape, PageShape, AboutPast
  <2>6. SessionOrder'
    BY <2>1, <2>2, <2>3 DEF VerifyInv, SessionOrder, AtWallet, Current
  <2>7. PartsShown' /\ WalletShown' /\ IdsKept'
    BY <2>1, <2>3 DEF VerifyInv, PartsShown, WalletShown, IdsKept, Ours
  <2>8. \A t \in tasks : Current(t) => t.kind = "poll"
    BY <2>1, OnlyPolls DEF Unoccupied
  <2>9. CurrentTasks'
    BY <2>1, <2>3, <2>4, <2>8 DEF VerifyInv, CurrentTasks, Current, Ours, StepKinds, IssueKinds, Connecting
  <2> QED
    BY <2>5, <2>6, <2>7, <2>9 DEF VerifyInv
<1> QED
  BY <1>1, <1>2, <1>3, <1>4, <1>5, <1>6, <1>7, <1>8 DEF Buttons

\* A request goes on: it stays in its session, and is of the same kind, unless the
\* greeting becomes the proof; of the journal it opens or retries its own request.
LEMMA TaskMoved ==
  ASSUME VerifyInv, NEW t \in tasks, NEW u \in PageTasks(PageKinds), TaskStep(t, u),
         t.at # "permit", u.at # "permit", AtWallet(u) => Current(t),
         u.revision = t.revision, u.flow = t.flow, u.about = t.about,
         u.kind = t.kind \/ (Connecting(t) /\ Connecting(u)), u.at = "sign" => Connecting(t),
         t.at # "make", u.at # "make",
         UNCHANGED <<page, saved>>, request' \in [FlowIds -> RequestStates],
         \A f \in FlowIds : request'[f] # "none" =>
           request[f] # "none" \/ (t.kind = "issue" /\ f = t.about)
  PROVE  VerifyInv'
<1>1. /\ tasks' = (tasks \ {t}) \cup {u} /\ t \in PageTasks(PageKinds)
      /\ UNCHANGED <<selected, heard, fence, holder, connects>>
  BY DEF TaskStep, Replaced, VerifyInv, SessionShape
<1>2. Current(u) <=> Current(t)
  BY DEF Current
<1>3. SessionShape(PageKinds)'
  BY <1>1 DEF VerifyInv, SessionShape
<1>4. SessionOrder'
  BY <1>1, <1>2 DEF VerifyInv, SessionOrder, AtWallet, Current
<1>5. PageShape' /\ WalletShown' /\ PartsShown'
  BY <1>1 DEF VerifyInv, PageShape, WalletShown, PartsShown, Ours
<1>6. (u.kind = "sample" <=> u.at = "make")
      /\ (u.kind \in IssueKinds \cup {"poll"} <=> t.kind \in IssueKinds \cup {"poll"})
  BY DEF VerifyInv, AboutPast, Connecting, IssueKinds
<1>7. AboutPast'
  BY <1>1, <1>6 DEF VerifyInv, AboutPast
<1>8. u.kind = "issue" <=> t.kind = "issue"
  BY DEF Connecting
<1>9. IdsKept'
  <2>1. ASSUME NEW f \in FlowIds, request'[f] # "none"
        PROVE  f <= connects /\ holder[f] \in WalletAccounts /\ saved[holder[f]] >= f
    <3>1. CASE request[f] # "none"
      BY <3>1 DEF VerifyInv, IdsKept
    <3>2. CASE t.kind = "issue" /\ f = t.about
      BY <3>2 DEF VerifyInv, IdsKept, AboutPast
    <3> QED
      BY <2>1, <3>1, <3>2
  <2>2. \A v \in tasks' : v.kind = "issue" =>
          v.about # NoFlow /\ holder[v.about] \in WalletAccounts /\ saved[holder[v.about]] >= v.about
    BY <1>1, <1>8 DEF VerifyInv, IdsKept
  <2> QED
    BY <1>1, <2>1, <2>2 DEF VerifyInv, IdsKept
<1>10. CurrentTasks'
  <2>1. \A v \in tasks' : v = u \/ v \in tasks
    BY <1>1
  <2>2. /\ Connecting(u) <=> Connecting(t)
        /\ u.kind = "poll" <=> t.kind = "poll"
        /\ u.kind \in StepKinds \cup IssueKinds <=> t.kind \in StepKinds \cup IssueKinds
        /\ u.kind \in IssueKinds <=> t.kind \in IssueKinds
    BY DEF Connecting, StepKinds, IssueKinds
  <2>3. ASSUME NEW v \in tasks', Current(v), v.kind # "poll"
        PROVE  page.busy /\ \A w \in tasks' : Current(w) /\ w.kind # "poll" => w = v
    BY <1>1, <1>2, <2>2, <2>3 DEF VerifyInv, CurrentTasks
  <2>4. ASSUME NEW v \in tasks', Current(v), Connecting(v)
        PROVE  /\ page.wallet = NoFlow /\ v.flow = connects /\ v.flow # NoFlow
               /\ v.at # "permit" => Ours(v.flow)
               /\ \A w \in tasks' : Current(w) => w = v
    BY <1>1, <1>2, <2>2, <2>4 DEF VerifyInv, CurrentTasks
  <2>5. ASSUME NEW v \in tasks', Current(v)
        PROVE  /\ v.kind \in StepKinds \cup IssueKinds => page.wallet # NoFlow /\ v.flow = page.wallet
               /\ v.kind \in IssueKinds => v.about = page.last /\ v.about # NoFlow
               /\ v.kind = "poll" => Ours(v.about) /\ page.wallet \in {NoFlow, v.flow}
               /\ v.at \in {"permit", "sign"} => Connecting(v)
    BY <1>1, <1>2, <2>1, <2>2, <2>5 DEF VerifyInv, CurrentTasks
  <2> QED
    BY <1>1, <2>3, <2>4, <2>5 DEF CurrentTasks, Current, Ours
<1> QED
  BY <1>3, <1>4, <1>5, <1>7, <1>9, <1>10 DEF VerifyInv

\* Requests end, and the page changes: what is left are the polls of the flow that is
\* shown, or the page has not changed its flow.
LEMMA Ended ==
  ASSUME VerifyInv, tasks' \subseteq tasks,
         fence' = fence \/ (\E b \in BOOLEAN : fence' = [fence EXCEPT !.authorized = b]),
         UNCHANGED <<selected, heard, holder, connects, saved, request>>,
         PageShape', WalletShown', PartsShown',
         \/ page'.wallet = page.wallet /\ page'.last = page.last /\ page'.busy = page.busy
         \/ /\ page'.wallet \in {NoFlow, page.wallet}
            /\ \A t \in tasks' : Current(t) => t.kind = "poll"
         \/ \A t \in tasks' : ~Current(t)
  PROVE  VerifyInv'
<1>1. SessionShape(PageKinds)' /\ fence'.revision = fence.revision /\ fence'.address = fence.address
  <2>1. fence \in [revision : Nat, attached : BOOLEAN, address : Accounts0,
                  observed : Accounts0, authorized : BOOLEAN]
    BY DEF VerifyInv, SessionShape
  <2>2. /\ fence' \in [revision : Nat, attached : BOOLEAN, address : Accounts0,
                      observed : Accounts0, authorized : BOOLEAN]
        /\ fence'.revision = fence.revision /\ fence'.address = fence.address
    <3>1. CASE fence' = fence
      BY <2>1, <3>1
    <3>2. ASSUME NEW b \in BOOLEAN, fence' = [fence EXCEPT !.authorized = b] 
           PROVE  /\ fence' \in [revision : Nat, attached : BOOLEAN, address : Accounts0,
                                 observed : Accounts0, authorized : BOOLEAN]
                  /\ fence'.revision = fence.revision /\ fence'.address = fence.address
      BY <2>1, <3>2
    <3> QED
      BY <3>1, <3>2
  <2> QED
    BY <2>2 DEF VerifyInv, SessionShape
<1>2. \A t : Current(t)' <=> Current(t)
  BY <1>1 DEF Current
<1>3. \A f : Ours(f)' <=> Ours(f)
  BY <1>1 DEF Ours
<1>4. SessionOrder'
  BY <1>1, <1>2 DEF VerifyInv, SessionOrder, AtWallet
<1>5. IdsKept' /\ AboutPast'
  BY DEF VerifyInv, IdsKept, AboutPast
<1>6. CurrentTasks'
  <2>1. CASE page'.wallet = page.wallet /\ page'.last = page.last /\ page'.busy = page.busy
    BY <1>2, <1>3, <2>1 DEF VerifyInv, CurrentTasks, Connecting
  <2>2. CASE /\ page'.wallet \in {NoFlow, page.wallet}
             /\ \A t \in tasks' : Current(t) => t.kind = "poll"
    BY <1>2, <1>3, <2>2 DEF VerifyInv, CurrentTasks, Connecting, StepKinds, IssueKinds
  <2>3. CASE \A t \in tasks' : ~Current(t)
    BY <1>2, <2>3 DEF CurrentTasks
  <2> QED
    BY <2>1, <2>2, <2>3
<1> QED
  BY <1>1, <1>4, <1>5, <1>6 DEF VerifyInv

\* The wallet permits an account: the flow gets it, and nothing else is of that flow yet.
LEMMA PermittedKeeps ==
  ASSUME VerifyInv, NEW t \in tasks, Permitted(t) PROVE VerifyInv'
<1> DEFINE u == [t EXCEPT !.at = "check"]
<1>1. /\ t.at = "permit" /\ selected # NoWallet
      /\ fence' = [fence EXCEPT !.address = selected, !.observed = selected]
      /\ holder' = [holder EXCEPT ![t.flow] = selected]
      /\ tasks' = (tasks \ {t}) \cup {u}
      /\ UNCHANGED <<selected, heard, connects, page, saved, request>>
  BY DEF Permitted, Bind, Binds, Replaced, outside
<1>2. /\ t \in PageTasks(PageKinds) /\ Current(t) /\ t.flow = connects /\ connects \in FlowIds
      /\ holder[connects] = NoWallet /\ page.wallet = NoFlow /\ Connecting(t) /\ page.busy
      /\ \A v \in tasks : Current(v) => v = t
  <2>1. t \in PageTasks(PageKinds) /\ Current(t) /\ t.flow = connects /\ t.flow # NoFlow
        /\ holder[t.flow] = NoWallet
    BY <1>1 DEF VerifyInv, SessionShape, SessionOrder, AtWallet
  <2>2. Connecting(t)
    BY <1>1, <2>1 DEF VerifyInv, CurrentTasks
  <2>3. t.kind # "poll"
    BY <2>2 DEF Connecting
  <2>4. connects \in FlowIds
    BY <2>1, WalletAssumption DEF VerifyInv, SessionShape, Flow0, FlowIds, NoFlow
  <2> QED
    BY <2>1, <2>2, <2>3, <2>4 DEF VerifyInv, CurrentTasks
<1>3. /\ u \in PageTasks(PageKinds) /\ u.at = "check" /\ u.kind = t.kind /\ u.flow = t.flow
      /\ u.about = t.about /\ u.revision = t.revision
  BY <1>2 DEF PageTasks, Places
<1> HIDE DEF u
<1>4. /\ fence'.revision = fence.revision /\ fence'.address = selected
      /\ fence' \in [revision : Nat, attached : BOOLEAN, address : Accounts0,
                     observed : Accounts0, authorized : BOOLEAN]
  BY <1>1 DEF VerifyInv, SessionShape
<1>5. /\ holder' \in [FlowIds -> Accounts0] /\ holder'[connects] = selected /\ selected \in WalletAccounts
      /\ \A f \in FlowIds : f # connects => holder'[f] = holder[f]
  BY <1>1, <1>2 DEF VerifyInv, SessionShape, Accounts0
<1>6. SessionShape(PageKinds)'
  BY <1>1, <1>3, <1>4, <1>5 DEF VerifyInv, SessionShape
<1>7. \A v \in tasks' : v.at # "permit"
  <2>1. \A v \in tasks : v.at = "permit" => v = t
    BY <1>2 DEF VerifyInv, SessionOrder, AtWallet
  <2> QED
    BY <1>1, <1>3, <2>1
<1>8. SessionOrder'
  <2>1. \A v \in tasks' : v.revision <= fence'.revision /\ (AtWallet(v)' => Current(v)')
    BY <1>1, <1>2, <1>3, <1>4 DEF VerifyInv, SessionOrder, Current, AtWallet
  <2>2. \A f \in FlowIds : f > connects => holder'[f] = NoWallet
    BY <1>2, <1>5 DEF VerifyInv, SessionOrder, FlowIds
  <2> QED
    BY <1>1, <1>7, <2>1, <2>2 DEF SessionOrder
<1>9. PageShape' /\ PartsShown' /\ WalletShown' /\ AboutPast'
  BY <1>1, <1>2, <1>3 DEF VerifyInv, PageShape, PartsShown, WalletShown, AboutPast
<1>10. \A f \in FlowIds : holder[f] \in WalletAccounts => f # connects /\ holder'[f] = holder[f]
  BY <1>2, <1>5, WalletAssumption
<1>11. IdsKept'
  <2>1. ASSUME NEW a \in WalletAccounts, saved[a] # NoFlow PROVE saved[a] <= connects /\ holder'[saved[a]] = a
    <3>1. saved[a] \in FlowIds /\ holder[saved[a]] = a /\ saved[a] <= connects
      BY <2>1, WalletAssumption DEF VerifyInv, IdsKept, PageShape, Flow0, FlowIds, NoFlow
    <3> QED
      BY <3>1, <1>10
  <2>2. ASSUME NEW v \in tasks', v.kind = "issue" 
        PROVE  v.about # NoFlow /\ holder'[v.about] \in WalletAccounts /\ saved[holder'[v.about]] >= v.about
    <3>1. v \in tasks
      BY <1>1, <1>2, <1>3, <2>2 DEF Connecting
    <3>2. v.about # NoFlow /\ holder[v.about] \in WalletAccounts /\ saved[holder[v.about]] >= v.about
      BY <2>2, <3>1 DEF VerifyInv, IdsKept
    <3>3. v.about \in FlowIds
      BY <3>1, <3>2, WalletAssumption DEF VerifyInv, SessionShape, PageTasks, Flow0, FlowIds, NoFlow
    <3> QED
      BY <3>2, <3>3, <1>10
  <2>3. \A f \in FlowIds : request[f] # "none" =>
          f <= connects /\ holder'[f] \in WalletAccounts /\ saved[holder'[f]] >= f
    BY <1>10 DEF VerifyInv, IdsKept
  <2> QED
    BY <1>1, <2>1, <2>2, <2>3 DEF IdsKept
<1>12. CurrentTasks'
  <2>1. \A v \in tasks' : Current(v)' => v = u
    BY <1>1, <1>2, <1>3, <1>4 DEF Current
  <2>2. Ours(connects)'
    BY <1>1, <1>2, <1>4, <1>5 DEF Ours
  <2>3. Connecting(u)
    BY <1>2, <1>3 DEF Connecting
  <2> QED
    BY <1>1, <1>2, <1>3, <2>1, <2>2, <2>3 DEF CurrentTasks, StepKinds, IssueKinds, Connecting, NoFlow, FlowIds
<1> QED
  BY <1>6, <1>8, <1>9, <1>11, <1>12 DEF VerifyInv

\* A request is checked, served or answered.
LEMMA CallsKeep ==
  ASSUME VerifyInv, NEW t \in tasks, Signed(t) \/ Checked(t) \/ Serve(t) \/ Arrive(t)
  PROVE VerifyInv'
<1>1. t \in PageTasks(PageKinds) /\ (AtWallet(t) => Current(t)) /\ PageShape
  BY DEF VerifyInv, SessionShape, SessionOrder
<1>2. CASE Signed(t)
  <2> DEFINE u == [t EXCEPT !.kind = "prove", !.at = "check"]
  <2>1. t.at = "sign" /\ TaskStep(t, u) /\ UNCHANGED <<page, saved, request>>
    BY <1>2 DEF Signed, outside
  <2>2. Connecting(t)
    BY <1>1, <2>1 DEF AtWallet, VerifyInv, CurrentTasks
  <2>3. /\ u \in PageTasks(PageKinds) /\ u.at = "check" /\ u.kind = "prove" /\ u.flow = t.flow
        /\ u.about = t.about /\ u.revision = t.revision
    BY <1>1 DEF PageTasks, Places, PageKinds
  <2> HIDE DEF u
  <2> QED
    BY <1>1, <2>1, <2>2, <2>3, TaskMoved DEF AtWallet, Connecting, PageShape
<1>3. CASE Checked(t)
  <2> DEFINE u == [t EXCEPT !.at = "fetch"]
  <2>1. t.at = "check" /\ TaskStep(t, u) /\ UNCHANGED <<page, saved, request>>
    BY <1>3 DEF Checked, outside
  <2>2. /\ u \in PageTasks(PageKinds) /\ u.at = "fetch" /\ u.kind = t.kind /\ u.flow = t.flow
        /\ u.about = t.about /\ u.revision = t.revision
    BY <1>1 DEF PageTasks, Places
  <2> HIDE DEF u
  <2> QED
    BY <1>1, <2>1, <2>2, TaskMoved DEF AtWallet, PageShape
<1>4. CASE Serve(t)
  <2>1. PICK o \in Answers(t) \cup {<<"none", request>>}, lost \in BOOLEAN :
          /\ request' = o[2]
          /\ TaskStep(t, [t EXCEPT !.at = "reply", !.got = IF lost THEN "none" ELSE o[1]])
    BY <1>4 DEF Serve
  <2> DEFINE u == [t EXCEPT !.at = "reply", !.got = IF lost THEN "none" ELSE o[1]]
  <2>2. t.at = "fetch" /\ UNCHANGED <<page, saved>>
    BY <1>4 DEF Serve
  <2>3. t.kind \in IssueKinds \cup {"poll"} => t.about \in FlowIds
    BY <1>1, WalletAssumption DEF VerifyInv, AboutPast, PageTasks, Flow0, FlowIds, NoFlow
  <2>4. /\ o[1] \in Replies /\ request' \in [FlowIds -> RequestStates]
        /\ \A f \in FlowIds : request'[f] # "none" =>
              request[f] # "none" \/ (t.kind = "issue" /\ f = t.about)
    <3>1. request \in [FlowIds -> RequestStates]
      BY <1>1 DEF PageShape
    <3>2. CASE t.kind = "issue"
      BY <2>1, <2>3, <3>1, <3>2 DEF Answers, Opened, IssueKinds, Replies, RequestStates
    <3>3. CASE t.kind = "retry"
      BY <2>1, <2>3, <3>1, <3>3 DEF Answers, Retried, IssueKinds, Replies, RequestStates
    <3>4. CASE t.kind \in {"status", "resume", "poll"}
      BY <2>1, <2>3, <3>1, <3>4 DEF Answers, IssueKinds, Replies, RequestStates
    <3>5. CASE t.kind \notin {"issue", "retry", "status", "resume", "poll"}
      BY <2>1, <3>1, <3>5 DEF Answers, Replies, RequestStates
    <3> QED
      BY <3>2, <3>3, <3>4, <3>5
  <2>5. /\ u \in PageTasks(PageKinds) /\ u.at = "reply" /\ u.kind = t.kind /\ u.flow = t.flow
        /\ u.about = t.about /\ u.revision = t.revision
    BY <1>1, <2>4 DEF PageTasks, Places, Replies, RequestStates
  <2> HIDE DEF u
  <2> QED
    BY <1>1, <2>1, <2>2, <2>4, <2>5, TaskMoved DEF AtWallet, u
<1>5. CASE Arrive(t)
  <2>1. t.at = "reply" /\ UNCHANGED <<page, saved, request>>
    BY <1>5 DEF Arrive, outside
  <2>2. CASE Current(t)
    <3> DEFINE u == [t EXCEPT !.at = "recheck"]
    <3>1. TaskStep(t, u)
      BY <1>5, <2>2 DEF Arrive
    <3>2. /\ u \in PageTasks(PageKinds) /\ u.at = "recheck" /\ u.kind = t.kind /\ u.flow = t.flow
          /\ u.about = t.about /\ u.revision = t.revision
      BY <1>1 DEF PageTasks, Places
    <3> HIDE DEF u
    <3> QED
      BY <1>1, <2>1, <2>2, <3>1, <3>2, TaskMoved DEF AtWallet, PageShape
  <2>3. CASE ~Current(t)
    <3>1. TaskEnds(t)
      BY <1>5, <2>3 DEF Arrive
    <3>2. /\ tasks' \subseteq tasks /\ UNCHANGED <<fence, selected, heard, holder, connects>>
      BY <3>1 DEF TaskEnds
    <3>3. PageShape' /\ WalletShown' /\ PartsShown'
      BY <2>1, <3>2 DEF VerifyInv, PageShape, WalletShown, PartsShown, Ours
    <3> QED
      BY <2>1, <3>2, <3>3, Ended
  <2> QED
    BY <2>2, <2>3
<1> QED
  BY <1>2, <1>3, <1>4, <1>5

\* The id that comes with an answer of the session at hand is the id that is kept.
LEMMA KeptAlready ==
  ASSUME VerifyInv, NEW t \in tasks, Current(t) PROVE Kept(t) = saved
<1>1. CASE t.kind \in IssueKinds
  <2>1. t.flow = page.wallet /\ page.wallet # NoFlow /\ t.about = page.last
    BY <1>1 DEF VerifyInv, CurrentTasks
  <2>2. t.about = saved[holder[t.flow]] /\ saved \in [WalletAccounts -> Flow0]
    BY <2>1 DEF VerifyInv, WalletShown, PageShape
  <2> QED
    BY <2>2 DEF Kept
<1>2. CASE t.kind \notin IssueKinds
  BY <1>2 DEF Kept, IssueKinds
<1> QED
  BY <1>1, <1>2

\* The check after the call passes: what an answer shows is of the session at hand.
LEMMA RecheckedKeeps ==
  ASSUME VerifyInv, NEW t \in tasks, Rechecked(t) PROVE VerifyInv'
<1>1. /\ t \in PageTasks(PageKinds) /\ t.at = "recheck" /\ Current(t) /\ request' = request
      /\ t.kind # "sample"
  BY DEF VerifyInv, SessionShape, SessionOrder, AtWallet, Rechecked, AboutPast
<1>2. CASE t.kind = "hello" /\ t.got # "none"
  <2> DEFINE u == [t EXCEPT !.at = "sign", !.got = "nothing"]
  <2>1. TaskStep(t, u) /\ UNCHANGED <<page, saved>>
    BY <1>2 DEF Rechecked
  <2>2. /\ u \in PageTasks(PageKinds) /\ u.at = "sign" /\ u.kind = t.kind /\ u.flow = t.flow
        /\ u.about = t.about /\ u.revision = t.revision
    BY <1>1 DEF PageTasks, Places, Replies
  <2> HIDE DEF u
  <2> QED
    BY <1>1, <1>2, <2>1, <2>2, TaskMoved DEF Connecting, VerifyInv, PageShape
<1>3. CASE ~(t.kind = "hello" /\ t.got # "none")
  <2>1. /\ tasks' = tasks \ {t}
        /\ fence' = IF t.kind = "prove" /\ t.got # "none" THEN Authorized ELSE fence
        /\ page' = IF t.kind = "poll" /\ t.got = "none" THEN page ELSE Answered(t)
        /\ UNCHANGED <<selected, heard, holder, connects>> /\ saved' = Kept(t)
    BY <1>3 DEF Rechecked
  <2>2. saved' = saved
    BY <1>1, <2>1, KeptAlready
  <2>3. tasks' \subseteq tasks /\ (fence' = fence \/ \E b \in BOOLEAN : fence' = [fence EXCEPT !.authorized = b])
    BY <2>1 DEF Authorized
  <2>4. PageShape /\ WalletShown /\ PartsShown
    BY DEF VerifyInv
  <2>5. \A f : Ours(f)' <=> Ours(f)
    BY <2>1, <2>3 DEF Ours, VerifyInv, SessionShape, Authorized
  <2>6. t.kind # "poll" => \A v \in tasks' : Current(v) => v.kind = "poll"
    BY <1>1, <2>1 DEF VerifyInv, CurrentTasks
  <2>7. t.flow \in Flow0 /\ t.about \in Flow0 /\ t.got \in Replies /\ 0 \in Flow0
    BY <1>1, WalletAssumption DEF PageTasks, Flow0
  <2>8. CASE page' = page
    <3>1. PageShape' /\ WalletShown' /\ PartsShown'
      BY <1>1, <2>1, <2>2, <2>4, <2>5, <2>8 DEF PageShape, WalletShown, PartsShown
    <3> QED
      BY <1>1, <2>1, <2>2, <2>3, <2>8, <3>1, Ended
  <2>9. CASE t.kind = "poll" /\ t.got # "none"
    <3>1. page' = [page EXCEPT !.issued = [flow |-> t.about, state |-> t.got]]
      BY <2>1, <2>9 DEF Answered
    <3>2. Ours(t.about)
      BY <1>1, <2>9 DEF VerifyInv, CurrentTasks
    <3>3. PageShape' /\ page'.wallet = page.wallet /\ page'.last = page.last /\ page'.busy = page.busy
          /\ page'.issued.flow = t.about
      BY <1>1, <2>2, <2>4, <2>7, <3>1 DEF PageShape
    <3>4. WalletShown' /\ PartsShown'
      BY <2>1, <2>2, <2>4, <2>5, <3>1, <3>2, <3>3 DEF PageShape, WalletShown, PartsShown
    <3> QED
      BY <1>1, <2>1, <2>2, <2>3, <3>3, <3>4, Ended
  <2>10. CASE t.kind \in StepKinds /\ t.got # "none"
    <3>1. t.flow = page.wallet /\ page.wallet # NoFlow
      BY <1>1, <2>10 DEF VerifyInv, CurrentTasks
    <3>2. \/ page' = Free
          \/ page' = [Free EXCEPT !.doc = t.flow]
          \/ page' = [Free EXCEPT !.twoWay = t.flow]
          \/ page' = [Free EXCEPT !.twoWay = NoFlow, !.id = t.flow]
          \/ page' = [Free EXCEPT !.challenge = t.flow]
          \/ page' = [Free EXCEPT !.bank = t.flow]
          \/ page' = [Free EXCEPT !.challenge = NoFlow]
      BY <2>1, <2>10 DEF Answered, StepKinds
    <3>3. /\ PageShape' /\ PartsShown' /\ page'.wallet = page.wallet /\ page'.last = page.last
          /\ page'.issued = page.issued
      <4> DEFINE Pages == [busy : BOOLEAN, consented : BOOLEAN, wallet : Flow0, doc : Flow0, id : Flow0,
                           twoWay : Flow0, challenge : Flow0, bank : Flow0,
                           issued : [flow : Flow0, state : Replies], last : Flow0]
      <4>5. Free \in Pages /\ Free.wallet = page.wallet
        BY <2>4 DEF PageShape, Free
      <4>6. ASSUME NEW p \in Pages, NEW f \in Flow0
            PROVE  /\ [p EXCEPT !.doc = f] \in Pages /\ [p EXCEPT !.twoWay = f] \in Pages
                   /\ [p EXCEPT !.id = f] \in Pages /\ [p EXCEPT !.challenge = f] \in Pages
                   /\ [p EXCEPT !.bank = f] \in Pages
        OBVIOUS
      <4>7. ASSUME NEW p \in Pages, NEW f \in Flow0
            PROVE  [p EXCEPT !.twoWay = NoFlow, !.id = f] \in Pages
        BY <2>7 DEF NoFlow
      <4>8. page' \in Pages
        <5>1. NoFlow \in Flow0
          BY <2>7 DEF NoFlow
        <5> HIDE DEF Pages
        <5> QED
          BY <2>7, <3>2, <4>5, <4>6, <4>7, <5>1
      <4>9. page'.wallet = page.wallet
        BY <2>4, <3>2 DEF PageShape, Free
      <4>1. PageShape' /\ page'.wallet = page.wallet
        BY <1>1, <2>2, <2>4, <4>8, <4>9 DEF PageShape
      <4>2. page'.last = page.last /\ page'.issued = page.issued
        BY <2>4, <3>2 DEF PageShape, Free
      <4>3. /\ page'.doc \in {page.doc, t.flow} /\ page'.id \in {page.id, t.flow}
            /\ page'.twoWay \in {page.twoWay, t.flow, NoFlow}
        BY <2>4, <3>2 DEF PageShape, Free
      <4>4. page'.challenge \in {page.challenge, t.flow, NoFlow} /\ page'.bank \in {page.bank, t.flow}
        BY <2>4, <3>2 DEF PageShape, Free
      <4> QED
        BY <2>4, <3>1, <4>1, <4>2, <4>3, <4>4 DEF PartsShown
    <3>4. WalletShown'
      BY <2>1, <2>2, <2>4, <2>5, <3>3 DEF WalletShown
    <3>5. t.kind # "poll"
      BY <2>10 DEF StepKinds
    <3> QED
      BY <1>1, <2>1, <2>2, <2>3, <2>6, <3>3, <3>4, <3>5, Ended
  <2>11. CASE t.kind \in IssueKinds /\ t.got \notin {"none", "busy"}
    <3>1. page' = [Free EXCEPT !.last = t.about, !.issued = [flow |-> t.about, state |-> t.got]]
      BY <2>1, <2>11 DEF Answered, IssueKinds
    <3>2. t.flow = page.wallet /\ page.wallet # NoFlow /\ t.about = page.last /\ t.about # NoFlow
      BY <1>1, <2>11 DEF VerifyInv, CurrentTasks
    <3>3. Ours(t.about)
      <4>1. Ours(page.wallet) /\ t.about = saved[holder[page.wallet]]
        BY <2>4, <3>2 DEF WalletShown
      <4>2. holder[t.about] = holder[page.wallet]
        BY <3>2, <4>1 DEF VerifyInv, IdsKept, Ours
      <4> QED
        BY <2>7, <3>2, <4>1, <4>2 DEF Ours, Flow0, FlowIds, NoFlow
    <3>4. /\ PageShape' /\ PartsShown' /\ page'.wallet = page.wallet /\ page'.last = page.last
          /\ page'.issued.flow = t.about
      BY <1>1, <2>2, <2>4, <2>7, <3>1, <3>2 DEF PageShape, PartsShown, Free
    <3>5. WalletShown'
      BY <2>1, <2>2, <2>4, <2>5, <3>3, <3>4 DEF WalletShown
    <3>6. t.kind # "poll"
      BY <2>11 DEF IssueKinds
    <3> QED
      BY <1>1, <2>1, <2>2, <2>3, <2>6, <3>4, <3>5, <3>6, Ended
  <2>12. CASE t.kind = "prove" /\ t.got # "none"
    <3>1. page' = [Free EXCEPT !.wallet = t.flow, !.issued = NoResult, !.last = saved[holder[t.flow]]]
      BY <2>1, <2>12 DEF Answered
    <3>2. /\ page.wallet = NoFlow /\ t.flow = connects /\ t.flow # NoFlow /\ Ours(t.flow)
          /\ \A v \in tasks : Current(v) => v = t
      BY <1>1, <2>12 DEF VerifyInv, CurrentTasks, Connecting
    <3>3. saved[holder[t.flow]] \in Flow0
      BY <2>4, <3>2 DEF PageShape, Ours
    <3>4. /\ PageShape' /\ page'.wallet = t.flow /\ page'.last = saved[holder[t.flow]]
          /\ page'.issued = NoResult
      BY <1>1, <2>2, <2>4, <2>7, <3>1, <3>3 DEF PageShape, Free, NoResult, Replies, RequestStates, NoFlow
    <3>5. PartsShown'
      BY <2>4, <3>1, <3>2 DEF PageShape, PartsShown, Free
    <3>6. WalletShown'
      BY <2>1, <2>2, <2>5, <3>2, <3>4 DEF WalletShown
    <3>7. \A v \in tasks' : ~Current(v)
      BY <2>1, <3>2
    <3> QED
      BY <1>1, <2>1, <2>2, <2>3, <3>4, <3>5, <3>6, <3>7, Ended
  <2>13. CASE \/ t.got = "none" /\ t.kind # "poll"
              \/ t.kind \in IssueKinds /\ t.got = "busy"
    <3>1. page' = Free
      <4>1. CASE t.got = "none"
        BY <2>1, <2>13, <4>1 DEF Answered, IssueKinds
      <4>2. CASE t.kind \in IssueKinds /\ t.got = "busy"
        BY <2>1, <4>2 DEF Answered, IssueKinds
      <4> QED
        BY <2>13, <4>1, <4>2
    <3>2. /\ PageShape' /\ PartsShown' /\ page'.wallet = page.wallet /\ page'.last = page.last
          /\ page'.issued = page.issued
      BY <1>1, <2>2, <2>4, <3>1 DEF PageShape, PartsShown, Free
    <3>3. WalletShown'
      BY <2>1, <2>2, <2>4, <2>5, <3>2 DEF WalletShown
    <3>4. t.kind # "poll"
      BY <2>13 DEF IssueKinds
    <3> QED
      BY <1>1, <2>1, <2>2, <2>3, <2>6, <3>2, <3>3, <3>4, Ended
  <2>14. t.kind \in StepKinds \cup IssueKinds \cup {"hello", "prove", "poll"}
    BY <1>1 DEF PageTasks, PageKinds
  <2>15. t.kind = "poll" /\ t.got = "none" => page' = page
    BY <2>1
  <2> QED
    BY <1>3, <2>8, <2>9, <2>10, <2>11, <2>12, <2>13, <2>14, <2>15
<1> QED
  BY <1>2, <1>3

\* The samples replace what the page holds; the wallet stays with its account.
LEMMA SampleKeeps ==
  ASSUME VerifyInv, NEW t \in tasks, SampleLoaded(t) PROVE VerifyInv'
<1>1. t.at = "make" /\ t.kind = "sample" /\ UNCHANGED <<saved, request>>
  BY DEF SampleLoaded, VerifyInv, AboutPast, outside
<1>2. CASE Current(t)
  <2>1. /\ page' = ClearedPage /\ fence' = [fence EXCEPT !.authorized = FALSE] /\ tasks' = tasks \ {t}
        /\ UNCHANGED <<selected, heard, holder, connects>>
    BY <1>2 DEF SampleLoaded
  <2>2. \A v \in tasks' : Current(v) => v.kind = "poll"
    BY <1>1, <1>2, <2>1 DEF VerifyInv, CurrentTasks
  <2>3. PageShape' /\ page'.wallet = NoFlow
    BY <1>1, <2>1, WalletAssumption DEF VerifyInv, PageShape, ClearedPage, NoResult, Flow0, NoFlow, Replies, RequestStates
  <2>4. WalletShown' /\ PartsShown'
    BY <2>1, <2>3 DEF WalletShown, PartsShown, ClearedPage
  <2> QED
    BY <1>1, <2>1, <2>2, <2>3, <2>4, Ended
<1>3. CASE ~Current(t)
  <2>1. tasks' \subseteq tasks /\ UNCHANGED <<fence, selected, heard, holder, connects, page>>
    BY <1>3 DEF SampleLoaded, TaskEnds
  <2>2. PageShape' /\ WalletShown' /\ PartsShown'
    BY <1>1, <2>1 DEF VerifyInv, PageShape, WalletShown, PartsShown, Ours
  <2> QED
    BY <1>1, <2>1, <2>2, Ended
<1> QED
  BY <1>2, <1>3

LEMMA InterruptionsKeep ==
  ASSUME VerifyInv, Interruptions PROVE VerifyInv'
<1>1. ASSUME NEW a \in WalletAccounts \cup {NoWallet}, SwitchAccount(a) /\ UNCHANGED <<page, outside>>
      PROVE VerifyInv'
  BY <1>1 DEF SwitchAccount, VerifyInv, outside, SessionShape, SessionOrder, PageShape, AboutPast,
     WalletShown, PartsShown, CurrentTasks, IdsKept, Current, Ours, Accounts0
<1>2. CASE AccountsHeard /\ UNCHANGED <<page, outside>>
  <2>1. /\ fence' = [fence EXCEPT !.observed = selected] /\ heard' = TRUE
        /\ UNCHANGED <<selected, tasks, holder, connects, page, saved, request>>
    BY <1>2 DEF AccountsHeard, outside
  <2>2. fence'.revision = fence.revision /\ fence'.address = fence.address /\ SessionShape(PageKinds)'
    BY <2>1 DEF VerifyInv, SessionShape
  <2> QED
    BY <2>1, <2>2 DEF VerifyInv, SessionOrder, PageShape, AboutPast,
     WalletShown, PartsShown, CurrentTasks, IdsKept, Current, Ours
<1>3. CASE Invalidate
  BY <1>3, Interrupted DEF Invalidate, Dispose, outside
<1>4. CASE Reload
  <2>1. {t \in tasks : t.at = "fetch"} \subseteq Cancelled
    BY DEF Cancelled, AtWallet
  <2> QED
    BY <1>4, <2>1, Interrupted DEF Reload, outside
<1> QED
  BY <1>1, <1>2, <1>3, <1>4 DEF Interruptions, PromptFailed, AccountChanged, NetworkChanged, SessionExpired,
     StopWaiting, ResetSession

LEMMA ProgressKeeps ==
  ASSUME VerifyInv, NEW f \in FlowIds, Progress(f) PROVE VerifyInv'
<1>1. PICK s \in {"failed", "ready"} : request' = [request EXCEPT ![f] = s]
  BY DEF Progress
<1>2. request[f] = "open" /\ UNCHANGED <<sessionVars, page, saved>>
  BY DEF Progress
<1>3. request' \in [FlowIds -> RequestStates] /\ \A g \in FlowIds : request'[g] # "none" => request[g] # "none"
  BY <1>1, <1>2 DEF VerifyInv, PageShape, RequestStates
<1> QED
  BY <1>2, <1>3 DEF sessionVars, VerifyInv, SessionShape, SessionOrder, PageShape, AboutPast,
     WalletShown, PartsShown, CurrentTasks, IdsKept, Current, Ours

LEMMA VerifyStarts == VerifyInit => VerifyInv
<1> SUFFICES ASSUME VerifyInit PROVE VerifyInv
  OBVIOUS
<1>1. /\ selected \in WalletAccounts /\ heard = TRUE /\ tasks = {} /\ connects = 0
      /\ fence = [revision |-> 0, attached |-> FALSE, address |-> NoWallet,
                   observed |-> NoWallet, authorized |-> FALSE]
      /\ holder = [f \in FlowIds |-> NoWallet] /\ page = ClearedPage
      /\ saved = [a \in WalletAccounts |-> NoFlow] /\ request = [f \in FlowIds |-> "none"]
  BY DEF VerifyInit, SessionInit
<1>2. SessionShape(PageKinds)
  BY <1>1, WalletAssumption DEF SessionShape, Accounts0, Flow0
<1>3. PageShape
  BY <1>1, WalletAssumption DEF PageShape, ClearedPage, NoResult, Flow0, NoFlow, Replies, RequestStates
<1>4. SessionOrder /\ AboutPast /\ CurrentTasks
  BY <1>1 DEF SessionOrder, AboutPast, CurrentTasks
<1>5. WalletShown /\ PartsShown /\ IdsKept
  BY <1>1 DEF WalletShown, PartsShown, IdsKept, ClearedPage, NoFlow
<1> QED
  BY <1>2, <1>3, <1>4, <1>5 DEF VerifyInv

LEMMA VerifyStep == VerifyInv /\ [VerifyNext]_verifyVars => VerifyInv'
<1> SUFFICES ASSUME VerifyInv, [VerifyNext]_verifyVars PROVE VerifyInv'
  OBVIOUS
<1>1. CASE Buttons
  BY <1>1, ButtonsKeep
<1>2. CASE Interruptions
  BY <1>2, InterruptionsKeep
<1>3. ASSUME NEW t \in tasks, Settle(t) PROVE VerifyInv'
  BY <1>3, PermittedKeeps, CallsKeep, RecheckedKeeps, SampleKeeps DEF Settle
<1>4. ASSUME NEW f \in FlowIds, Progress(f) PROVE VerifyInv'
  BY <1>4, ProgressKeeps
<1>5. CASE UNCHANGED verifyVars
  BY <1>5 DEF verifyVars, sessionVars, VerifyInv, SessionShape, SessionOrder, PageShape, AboutPast,
     WalletShown, PartsShown, CurrentTasks, IdsKept, Current, Ours
<1> QED
  BY <1>1, <1>2, <1>3, <1>4, <1>5 DEF VerifyNext

\* The guided page: every token, the fields that were read and the result beside them are of
\* the flow and the account that are shown, whatever answers of earlier sessions come late.
THEOREM OnePageOneSession == VerifySpec => []PageIsOneSession
<1>1. VerifyInv => PageIsOneSession
  <2> SUFFICES ASSUME VerifyInv PROVE PageIsOneSession
    OBVIOUS
  <2>1. PartsShown /\ WalletShown
    BY DEF VerifyInv
  <2>2. ASSUME page.wallet # NoFlow, page.last # NoFlow PROVE holder[page.last] = fence.address
    <3>1. Ours(page.wallet) /\ page.last = saved[holder[page.wallet]]
      BY <2>1, <2>2 DEF WalletShown
    <3> QED
      BY <2>2, <3>1 DEF VerifyInv, IdsKept, Ours
  <2> QED
    BY <2>1, <2>2 DEF PageIsOneSession, PartsShown, WalletShown, Ours
<1> QED
  BY <1>1, VerifyStarts, VerifyStep, PTL DEF VerifySpec

\* The id kept for an account is that of its latest request that was sent, or of a later one.
THEOREM SentCanBeResumed == VerifySpec => []CommittedIsRecoverable
<1>1. VerifyInv => CommittedIsRecoverable
  BY DEF VerifyInv, IdsKept, CommittedIsRecoverable
<1> QED
  BY <1>1, VerifyStarts, VerifyStep, PTL DEF VerifySpec

-----------------------------------------------------------------------------
(***************************************************************************)
(* The hosted page.                                                        *)
(***************************************************************************)

HostedKinds == {"connect", "sign", "prove", "token", "read", "renew"}

HostedShape ==
  hosted \in [challenge : Flow0, consent : BOOLEAN, bound : Flow0, observation : Flow0, sdk : BOOLEAN]

\* What is shown is of the latest flow, whose account is the fence's.
HostedShown ==
  /\ hosted.challenge \in {NoFlow, connects} /\ hosted.bound \in {NoFlow, connects}
  /\ hosted.challenge # NoFlow \/ hosted.bound # NoFlow => Ours(connects)
  /\ hosted.observation \in {NoFlow, hosted.bound}
  /\ hosted.sdk => hosted.bound # NoFlow

\* So are the requests of the session at hand; while permission is asked for there is
\* no other, and nothing is shown.
HostedCurrent ==
  \A t \in tasks : Current(t) =>
    /\ t.flow = connects /\ t.flow # NoFlow
    /\ t.at # "permit" => Ours(connects)
    /\ t.at = "permit" => hosted.challenge = NoFlow /\ hosted.bound = NoFlow
                          /\ \A u \in tasks : Current(u) => u = t

HostedInv ==
  SessionShape(HostedKinds) /\ SessionOrder /\ HostedShape /\ HostedShown /\ HostedCurrent

\* An interruption: nothing that is shown is left, nor any request of this session.
LEMMA HostedInterrupted ==
  ASSUME HostedInv, fence' = Disposed, tasks' \subseteq Cancelled, hosted' = ClearedHosted,
         heard' = TRUE, UNCHANGED <<selected, holder, connects>>
  PROVE  HostedInv'
<1>1. \A t \in tasks' : /\ t \in tasks /\ t \in PageTasks(HostedKinds) /\ ~AtWallet(t)
                         /\ t.revision < fence'.revision
  BY DEF HostedInv, SessionShape, SessionOrder, PageTasks, Cancelled, Disposed
<1>2. SessionShape(HostedKinds)'
  BY <1>1, WalletAssumption DEF HostedInv, SessionShape, Disposed, Accounts0
<1>3. \A t \in tasks' : ~Current(t)'
  BY <1>1, <1>2 DEF SessionShape, PageTasks, Current
<1>4. SessionOrder'
  <2>1. \A t \in tasks' : t.revision <= fence'.revision /\ ~AtWallet(t) /\ t.at # "permit"
    BY <1>1, <1>2 DEF SessionShape, PageTasks, AtWallet
  <2> QED
    BY <2>1 DEF HostedInv, SessionOrder, AtWallet
<1>5. HostedShape' /\ HostedShown' /\ HostedCurrent'
  BY <1>3, WalletAssumption DEF HostedShape, HostedShown, HostedCurrent, ClearedHosted, Flow0, NoFlow
<1> QED
  BY <1>2, <1>4, <1>5 DEF HostedInv

\* Requests begin, go on or end, after permission was given, in the flow that is shown.
LEMMA HostedTasks ==
  ASSUME HostedInv, tasks' \subseteq tasks \cup {u \in PageTasks(HostedKinds) :
           /\ u.at # "permit" /\ (AtWallet(u) => Current(u)) /\ u.revision <= fence.revision
           /\ Current(u) => u.flow = connects /\ Ours(connects)
                            /\ \A t \in tasks : Current(t) => t.at # "permit"},
         fence' = fence \/ fence' = Authorized, UNCHANGED <<selected, heard, holder, connects>>,
         HostedShape', HostedShown',
         \A t \in tasks' : t.at = "permit" => hosted' = hosted
  PROVE  HostedInv'
<1>1. /\ fence' \in [revision : Nat, attached : BOOLEAN, address : Accounts0,
                     observed : Accounts0, authorized : BOOLEAN]
      /\ fence'.revision = fence.revision /\ fence'.address = fence.address
  BY DEF HostedInv, SessionShape, Authorized
<1>2. SessionShape(HostedKinds)'
  BY <1>1 DEF HostedInv, SessionShape
<1>3. (\A t : Current(t)' <=> Current(t)) /\ (\A f : Ours(f)' <=> Ours(f))
  BY <1>1 DEF Current, Ours
<1>4. SessionOrder'
  BY <1>1, <1>3 DEF HostedInv, SessionOrder, AtWallet
<1>5. HostedCurrent'
  <2>1. ASSUME NEW t \in tasks', Current(t) 
        PROVE  /\ t.flow = connects /\ t.flow # NoFlow /\ (t.at # "permit" => Ours(connects))
    <3>1. CASE t \in tasks
      BY <2>1, <3>1 DEF HostedInv, HostedCurrent
    <3>2. CASE t \notin tasks
      BY <2>1, <3>2 DEF Ours, FlowIds, NoFlow
    <3> QED
      BY <3>1, <3>2
  <2>2. ASSUME NEW t \in tasks', Current(t), t.at = "permit"
        PROVE  hosted'.challenge = NoFlow /\ hosted'.bound = NoFlow
               /\ \A u \in tasks' : Current(u) => u = t
    <3>1. t \in tasks /\ hosted' = hosted
      BY <2>2
    <3>2. \A u \in tasks' : Current(u) => u \in tasks
      BY <2>2, <3>1
    <3> QED
      BY <2>2, <3>1, <3>2 DEF HostedInv, HostedCurrent
  <2> QED
    BY <1>3, <2>1, <2>2 DEF HostedCurrent
<1> QED
  BY <1>2, <1>4, <1>5 DEF HostedInv

\* Connecting
LEMMA ConnectHostedKeeps == ASSUME HostedInv, ConnectHosted PROVE HostedInv'
<1> DEFINE new == [Task("connect", "permit", connects + 1, connects + 1) EXCEPT
                     !.revision = fence.revision + 1]
<1>1. /\ fence' = [Disposed EXCEPT !.attached = TRUE] /\ connects' = connects + 1 /\ heard' = TRUE
      /\ tasks' = Cancelled \cup {new} /\ connects < MaxConnects
      /\ UNCHANGED <<selected, holder>> /\ hosted' = ClearedHosted
  BY DEF ConnectHosted, Attach
<1>2. fence.revision \in Nat /\ connects \in Nat
  BY DEF HostedInv, SessionShape, Flow0
<1>3. /\ fence'.revision = fence.revision + 1
      /\ fence' \in [revision : Nat, attached : BOOLEAN, address : Accounts0,
                     observed : Accounts0, authorized : BOOLEAN]
  <2>1. fence' = [revision |-> fence.revision + 1, attached |-> TRUE, address |-> NoWallet,
                  observed |-> NoWallet, authorized |-> FALSE]
    BY <1>1 DEF Disposed
  <2>2. NoWallet \in Accounts0 /\ fence.revision + 1 \in Nat
    BY <1>2 DEF Accounts0
  <2> QED
    BY <2>1, <2>2
<1>4. connects' \in Flow0 /\ connects' > connects /\ connects' \in FlowIds /\ connects' # NoFlow
  BY <1>1, <1>2, WalletAssumption DEF Flow0, FlowIds, NoFlow
<1>5. /\ new \in PageTasks(HostedKinds) /\ new.revision = fence'.revision
      /\ new.at = "permit" /\ new.flow = connects'
  BY <1>1, <1>2, <1>3, <1>4 DEF PageTasks, Task, HostedKinds, Places, Replies
<1> HIDE DEF new
<1>6. \A t \in Cancelled : /\ t \in tasks /\ t \in PageTasks(HostedKinds) /\ ~AtWallet(t)
                          /\ t.revision < fence'.revision /\ ~Current(t)'
  BY <1>2, <1>3 DEF HostedInv, SessionShape, SessionOrder, PageTasks, Cancelled, Current
<1>7. SessionShape(HostedKinds)'
  BY <1>1, <1>3, <1>4, <1>5, <1>6 DEF HostedInv, SessionShape
<1>8. SessionOrder'
  <2>1. \A t \in tasks' : t.revision <= fence'.revision
    BY <1>1, <1>2, <1>3, <1>5, <1>6 DEF PageTasks
  <2>2. \A t \in tasks' : AtWallet(t)' => Current(t)'
    BY <1>1, <1>5, <1>6 DEF Current, AtWallet
  <2>3. \A f \in FlowIds : f > connects' => holder'[f] = NoWallet
    BY <1>1, <1>2 DEF HostedInv, SessionOrder, FlowIds
  <2>4. \A t \in tasks' : t.at = "permit" => t = new
    BY <1>1, <1>6 DEF AtWallet
  <2> QED
    BY <1>1, <1>4, <1>5, <2>1, <2>2, <2>3, <2>4 DEF HostedInv, SessionOrder
<1>9. HostedShape' /\ HostedShown'
  BY <1>1, WalletAssumption DEF HostedShape, HostedShown, ClearedHosted, Flow0, NoFlow
<1>10. HostedCurrent'
  <2>1. \A t \in tasks' : Current(t)' => t = new
    BY <1>1, <1>6
  <2> QED
    BY <1>1, <1>4, <1>5, <2>1 DEF HostedCurrent, ClearedHosted
<1> QED
  BY <1>7, <1>8, <1>9, <1>10 DEF HostedInv

\* The wallet permits an account.
LEMMA PermittedHostedKeeps ==
  ASSUME HostedInv, NEW t \in tasks, PermittedHosted(t) PROVE HostedInv'
<1> DEFINE u == [t EXCEPT !.at = "fetch"]
<1>1. /\ t.at = "permit" /\ selected # NoWallet
      /\ fence' = [fence EXCEPT !.address = selected, !.observed = selected]
      /\ holder' = [holder EXCEPT ![t.flow] = selected]
      /\ tasks' = (tasks \ {t}) \cup {u}
      /\ UNCHANGED <<selected, heard, connects, hosted>>
  BY DEF PermittedHosted, Bind, Binds, Replaced
<1>2. /\ t \in PageTasks(HostedKinds) /\ Current(t) /\ t.flow = connects /\ connects \in FlowIds
      /\ hosted.challenge = NoFlow /\ hosted.bound = NoFlow
      /\ \A v \in tasks : Current(v) => v = t
  <2>1. t \in PageTasks(HostedKinds) /\ Current(t) /\ t.flow = connects /\ t.flow # NoFlow
    BY <1>1 DEF HostedInv, SessionShape, SessionOrder, AtWallet
  <2>2. connects \in FlowIds
    BY <2>1, WalletAssumption DEF HostedInv, SessionShape, Flow0, FlowIds, NoFlow
  <2> QED
    BY <1>1, <2>1, <2>2 DEF HostedInv, HostedCurrent
<1>3. u \in PageTasks(HostedKinds) /\ u.at = "fetch" /\ u.flow = t.flow /\ u.revision = t.revision
  BY <1>2 DEF PageTasks, Places
<1> HIDE DEF u
<1>4. /\ fence'.revision = fence.revision /\ fence'.address = selected
      /\ fence' \in [revision : Nat, attached : BOOLEAN, address : Accounts0,
                     observed : Accounts0, authorized : BOOLEAN]
  BY <1>1 DEF HostedInv, SessionShape
<1>5. /\ holder' \in [FlowIds -> Accounts0] /\ holder'[connects] = selected /\ selected \in WalletAccounts
      /\ \A f \in FlowIds : f # connects => holder'[f] = holder[f]
  BY <1>1, <1>2 DEF HostedInv, SessionShape, Accounts0
<1>6. SessionShape(HostedKinds)'
  BY <1>1, <1>3, <1>4, <1>5 DEF HostedInv, SessionShape
<1>7. SessionOrder'
  <2>1. \A v \in tasks : v.at = "permit" => v = t
    BY <1>2 DEF HostedInv, SessionOrder, AtWallet
  <2>2. \A v \in tasks' : v.at # "permit"
    BY <1>1, <1>3, <2>1
  <2>3. \A v \in tasks' : v.revision <= fence'.revision /\ (AtWallet(v)' => Current(v)')
    BY <1>1, <1>2, <1>3, <1>4 DEF HostedInv, SessionOrder, Current, AtWallet
  <2>4. \A f \in FlowIds : f > connects => holder'[f] = NoWallet
    BY <1>2, <1>5 DEF HostedInv, SessionOrder, FlowIds
  <2> QED
    BY <1>1, <2>2, <2>3, <2>4 DEF SessionOrder
<1>8. HostedShape' /\ HostedShown'
  BY <1>1, <1>2 DEF HostedInv, HostedShape, HostedShown
<1>9. HostedCurrent'
  <2>1. \A v \in tasks' : Current(v)' => v = u
    BY <1>1, <1>2, <1>3, <1>4 DEF Current
  <2>2. Ours(connects)'
    BY <1>1, <1>2, <1>4, <1>5 DEF Ours
  <2> QED
    BY <1>1, <1>2, <1>3, <2>1, <2>2 DEF HostedCurrent, FlowIds, NoFlow
<1> QED
  BY <1>6, <1>7, <1>8, <1>9 DEF HostedInv

\* A request of the session at hand that is not the permission prompt.
LEMMA HostedAtWork ==
  ASSUME HostedInv, NEW t \in tasks, t.at # "permit", Current(t)
  PROVE  t.flow = connects /\ Ours(connects) /\ \A v \in tasks : Current(v) => v.at # "permit"
BY DEF HostedInv, HostedCurrent

\* A request goes on, at the service or at the wallet, and what is shown stays.
LEMMA HostedGoesOn ==
  ASSUME HostedInv, NEW t \in tasks, t.at # "permit",
         NEW u \in PageTasks(HostedKinds), u.at # "permit", u.flow = t.flow, u.revision = t.revision,
         AtWallet(u) => Current(t), tasks' = Replaced(t, u),
         fence' = fence \/ fence' = Authorized, UNCHANGED <<selected, heard, holder, connects, hosted>>
  PROVE  HostedInv'
<1>1. u.revision <= fence.revision /\ (AtWallet(u) => Current(u)) /\ (Current(u) <=> Current(t))
  BY DEF HostedInv, SessionOrder, Current
<1>2. Current(u) => u.flow = connects /\ Ours(connects) /\ \A v \in tasks : Current(v) => v.at # "permit"
  BY <1>1, HostedAtWork
<1>3. HostedShape'
  BY DEF HostedInv, HostedShape
<1>4. HostedShown'
  BY DEF HostedInv, HostedShown, Ours, Authorized, SessionShape
<1> QED
  BY <1>1, <1>2, <1>3, <1>4, HostedTasks DEF Replaced

\* A request ends; what it leaves is shown.
LEMMA HostedEnds ==
  ASSUME HostedInv, NEW t \in tasks, t.at # "permit", TaskEnds(t), HostedShape', HostedShown',
         hosted'.challenge # hosted.challenge \/ hosted'.bound # hosted.bound => Current(t)
  PROVE  HostedInv'
<1>1. tasks' = tasks \ {t} /\ UNCHANGED <<selected, heard, fence, holder, connects>>
  BY DEF TaskEnds
<1>2. SessionShape(HostedKinds)'
  BY <1>1 DEF HostedInv, SessionShape
<1>3. SessionOrder'
  BY <1>1 DEF HostedInv, SessionOrder, AtWallet, Current
<1>4. (\A v : Current(v)' <=> Current(v)) /\ (\A f : Ours(f)' <=> Ours(f))
  BY <1>1 DEF Current, Ours
<1>5. ASSUME NEW v \in tasks', Current(v), v.at = "permit"
      PROVE  hosted'.challenge = NoFlow /\ hosted'.bound = NoFlow
  <2>1. ~Current(t)
    BY <1>1, <1>5 DEF HostedInv, HostedCurrent
  <2> QED
    BY <1>1, <1>5, <2>1 DEF HostedInv, HostedCurrent
<1>6. HostedCurrent'
  BY <1>1, <1>4, <1>5 DEF HostedInv, HostedCurrent
<1> QED
  BY <1>2, <1>3, <1>6 DEF HostedInv

\* The buttons of the page and the SDK's renewals; they are about the flow that is shown.
LEMMA HostedBegins ==
  ASSUME HostedInv, SignAndStart \/ Refresh \/ Renew PROVE HostedInv'
<1>1. PICK kind \in HostedKinds, flow \in {hosted.challenge, hosted.bound} :
        flow # NoFlow /\ Begin(kind, "check", flow) /\ hosted' = hosted
  BY DEF SignAndStart, Refresh, Renew, HostedKinds
<1> DEFINE new == Task(kind, "check", flow, flow)
<1>2. tasks' = tasks \cup {new} /\ UNCHANGED <<selected, heard, fence, holder, connects, hosted>>
  BY <1>1 DEF Begin
<1>3. flow = connects /\ Ours(connects) /\ flow \in Flow0
  BY <1>1 DEF HostedInv, HostedShown, HostedShape
<1>4. fence.revision \in Nat
  BY DEF HostedInv, SessionShape
<1>5. /\ new \in PageTasks(HostedKinds) /\ new.at = "check" /\ new.flow = flow
      /\ new.revision = fence.revision
  BY <1>3, <1>4 DEF PageTasks, Task, Places, Replies
<1> HIDE DEF new
<1>6. new.revision <= fence.revision /\ Current(new)
  BY <1>4, <1>5 DEF Current
<1>7. \A v \in tasks : Current(v) => v.at # "permit"
  BY <1>1 DEF HostedInv, HostedCurrent
<1>8. HostedShape' /\ HostedShown'
  BY <1>2 DEF HostedInv, HostedShape, HostedShown, Ours
<1> QED
  BY <1>2, <1>3, <1>5, <1>6, <1>7, <1>8, HostedTasks

\* The consent box, and the start of the SDK
LEMMA HostedChanges ==
  ASSUME HostedInv, Launch \/ \E c \in BOOLEAN : ReviewConsent(c) PROVE HostedInv'
<1>1. UNCHANGED sessionVars
  BY DEF Launch, ReviewConsent
<1>2. HostedShape' /\ HostedShown' /\ hosted'.challenge = hosted.challenge /\ hosted'.bound = hosted.bound
  <2>1. CASE Launch
    BY <1>1, <2>1 DEF sessionVars, Launch, HostedInv, HostedShape, HostedShown, Ours
  <2>2. ASSUME NEW c \in BOOLEAN, ReviewConsent(c)
        PROVE HostedShape' /\ HostedShown' /\ hosted'.challenge = hosted.challenge /\ hosted'.bound = hosted.bound
    BY <1>1, <2>2 DEF sessionVars, ReviewConsent, HostedInv, HostedShape, HostedShown, Ours
  <2> QED
    BY <2>1, <2>2
<1> QED
  BY <1>1, <1>2 DEF sessionVars, HostedInv, SessionShape, SessionOrder, HostedCurrent, Current, Ours, AtWallet

\* What a request does before its answer is used
LEMMA HostedCallsKeep ==
  ASSUME HostedInv, NEW t \in tasks, SignedHosted(t) \/ CheckedHosted(t) \/ ServeHosted(t)
  PROVE  HostedInv'
<1>1. t \in PageTasks(HostedKinds)
  BY DEF HostedInv, SessionShape
<1>2. CASE SignedHosted(t)
  <2> DEFINE u == [t EXCEPT !.kind = "prove", !.at = "check"]
  <2>1. /\ u \in PageTasks(HostedKinds) /\ u.at = "check" /\ u.flow = t.flow /\ u.revision = t.revision
    BY <1>1 DEF PageTasks, HostedKinds, Places
  <2>2. Current(t) /\ t.at = "sign"
    BY <1>2 DEF SignedHosted, HostedInv, SessionOrder, AtWallet
  <2>3. tasks' = Replaced(t, u) /\ UNCHANGED <<selected, heard, fence, holder, connects, hosted>>
    BY <1>2 DEF SignedHosted, TaskStep
  <2> HIDE DEF u
  <2> QED
    BY <2>1, <2>2, <2>3, HostedGoesOn
<1>3. CASE CheckedHosted(t)
  <2> DEFINE u == [t EXCEPT !.at = IF t.kind = "sign" THEN "sign" ELSE "fetch"]
  <2>1. /\ u \in PageTasks(HostedKinds) /\ u.at \in {"sign", "fetch"} /\ u.flow = t.flow /\ u.revision = t.revision
    BY <1>1 DEF PageTasks, Places
  <2>2. Current(t) /\ t.at = "check"
    BY <1>3 DEF CheckedHosted, HostedInv, SessionOrder, AtWallet
  <2>3. tasks' = Replaced(t, u) /\ UNCHANGED <<selected, heard, fence, holder, connects, hosted>>
    BY <1>3 DEF CheckedHosted, TaskStep
  <2> HIDE DEF u
  <2> QED
    BY <2>1, <2>2, <2>3, HostedGoesOn
<1>4. CASE ServeHosted(t)
  <2>1. PICK g \in {"ok", "none"} : TaskStep(t, [t EXCEPT !.at = "reply", !.got = g])
    BY <1>4 DEF ServeHosted
  <2> DEFINE u == [t EXCEPT !.at = "reply", !.got = g]
  <2>2. /\ u \in PageTasks(HostedKinds) /\ u.at = "reply" /\ u.flow = t.flow /\ u.revision = t.revision
    BY <1>1 DEF PageTasks, Places, Replies, RequestStates
  <2>3. /\ t.at = "fetch" /\ tasks' = Replaced(t, u)
        /\ UNCHANGED <<selected, heard, fence, holder, connects, hosted>>
    BY <1>4, <2>1 DEF ServeHosted, TaskStep
  <2> HIDE DEF u
  <2>4. ~AtWallet(u)
    BY <2>2 DEF AtWallet
  <2> QED
    BY <2>2, <2>3, <2>4, HostedGoesOn
<1> QED
  BY <1>2, <1>3, <1>4

\* A request fails: a renewal ends the session, a read hides the status it was for.
LEMMA FailedKeeps ==
  ASSUME HostedInv, NEW t \in tasks, t.at # "permit", Failed(t) PROVE HostedInv'
<1>1. CASE t.kind = "renew"
  BY <1>1, HostedInterrupted DEF Failed
<1>2. CASE t.kind = "read"
  <2>1. TaskEnds(t) /\ hosted' = Unread(t)
    BY <1>2 DEF Failed
  <2>2. HostedShape' /\ HostedShown' /\ hosted'.challenge = hosted.challenge /\ hosted'.bound = hosted.bound
    BY <2>1, WalletAssumption DEF TaskEnds, Unread, HostedInv, HostedShape, HostedShown, Ours, Flow0, NoFlow
  <2> QED
    BY <2>1, <2>2, HostedEnds
<1>3. CASE t.kind \notin {"renew", "read"}
  <2>1. TaskEnds(t) /\ hosted' = hosted
    BY <1>3 DEF Failed
  <2>2. HostedShape' /\ HostedShown'
    BY <2>1 DEF TaskEnds, HostedInv, HostedShape, HostedShown, Ours
  <2> QED
    BY <2>1, <2>2, HostedEnds
<1> QED
  BY <1>1, <1>2, <1>3

\* The answer is used in the session it was asked in, or the request fails.
LEMMA ArriveHostedKeeps ==
  ASSUME HostedInv, NEW t \in tasks, ArriveHosted(t) PROVE HostedInv'
<1>1. t.at = "reply" /\ t \in PageTasks(HostedKinds)
  BY DEF ArriveHosted, HostedInv, SessionShape
<1>2. CASE ~Current(t) \/ t.got = "none"
  BY <1>1, <1>2, FailedKeeps DEF ArriveHosted
<1>3. CASE Current(t) /\ t.got # "none" /\ t.kind = "prove"
  <2> DEFINE u == [t EXCEPT !.kind = "token", !.at = "check", !.got = "nothing"]
  <2>1. /\ u \in PageTasks(HostedKinds) /\ u.at = "check" /\ u.flow = t.flow /\ u.revision = t.revision
    BY <1>1 DEF PageTasks, HostedKinds, Places, Replies
  <2>2. tasks' = Replaced(t, u) /\ fence' = Authorized /\ UNCHANGED <<selected, heard, holder, connects, hosted>>
    BY <1>3 DEF ArriveHosted
  <2> HIDE DEF u
  <2> QED
    BY <1>1, <1>3, <2>1, <2>2, HostedGoesOn
<1>4. CASE Current(t) /\ t.got # "none" /\ t.kind # "prove"
  <2> DEFINE u == [t EXCEPT !.at = "recheck"]
  <2>1. /\ u \in PageTasks(HostedKinds) /\ u.at = "recheck" /\ u.flow = t.flow /\ u.revision = t.revision
    BY <1>1 DEF PageTasks, Places
  <2>2. tasks' = Replaced(t, u) /\ UNCHANGED <<selected, heard, fence, holder, connects, hosted>>
    BY <1>4 DEF ArriveHosted, TaskStep
  <2> HIDE DEF u
  <2> QED
    BY <1>1, <1>4, <2>1, <2>2, HostedGoesOn
<1> QED
  BY <1>2, <1>3, <1>4

\* The check after the call passes, and the answer is shown.
LEMMA RecheckedHostedKeeps ==
  ASSUME HostedInv, NEW t \in tasks, RecheckedHosted(t) PROVE HostedInv'
<1>1. /\ t.at = "recheck" /\ TaskEnds(t)
      /\ UNCHANGED <<holder, fence, connects>>
  BY DEF RecheckedHosted, TaskEnds
<1>2. Current(t)
  BY <1>1 DEF HostedInv, SessionOrder, AtWallet
<1>3. t.flow = connects /\ Ours(connects) /\ t.flow \in Flow0
  BY <1>1, <1>2, HostedAtWork DEF HostedInv, SessionShape, PageTasks
<1>4. \/ hosted' = [hosted EXCEPT !.challenge = t.flow]
      \/ hosted' = [hosted EXCEPT !.bound = t.flow, !.challenge = NoFlow]
      \/ hosted.bound = t.flow /\ hosted' = [hosted EXCEPT !.observation = t.flow]
      \/ hosted' = hosted
  BY DEF RecheckedHosted
<1>5. HostedShape'
  <2>1. HostedShape /\ NoFlow \in Flow0
    BY WalletAssumption DEF HostedInv, Flow0, NoFlow
  <2> QED
    BY <1>3, <1>4, <2>1 DEF HostedShape
<1>6. connects # NoFlow
  BY <1>3, WalletAssumption DEF Ours, FlowIds, NoFlow
<1>7. Ours(connects)'
  BY <1>1, <1>3 DEF Ours
<1>8. HostedShown'
  BY <1>1, <1>3, <1>4, <1>6, <1>7 DEF HostedInv, HostedShown, HostedShape
<1> QED
  BY <1>1, <1>2, <1>5, <1>8, HostedEnds

LEMMA HostedInterruptionsKeep ==
  ASSUME HostedInv,
         \/ \E t \in tasks : HostedPromptFailed(t)
         \/ \E a \in WalletAccounts \cup {NoWallet} : SwitchAccount(a) /\ UNCHANGED <<hosted, reads>>
         \/ AccountsHeard /\ UNCHANGED <<hosted, reads>>
         \/ HostedAccountChanged \/ HostedNetworkChanged \/ HostedExpired
  PROVE  HostedInv'
<1>1. CASE InvalidateHosted
  BY <1>1, HostedInterrupted DEF InvalidateHosted, Dispose
<1>2. ASSUME NEW a \in WalletAccounts \cup {NoWallet}, SwitchAccount(a) /\ UNCHANGED <<hosted, reads>>
      PROVE HostedInv'
  BY <1>2 DEF SwitchAccount, HostedInv, SessionShape, SessionOrder, HostedShape, HostedShown,
     HostedCurrent, Current, Ours, AtWallet, Accounts0
<1>3. CASE AccountsHeard /\ UNCHANGED <<hosted, reads>>
  <2>1. /\ fence' = [fence EXCEPT !.observed = selected] /\ heard' = TRUE
        /\ UNCHANGED <<selected, tasks, holder, connects, hosted>>
    BY <1>3 DEF AccountsHeard
  <2>2. fence'.revision = fence.revision /\ fence'.address = fence.address /\ SessionShape(HostedKinds)'
    BY <2>1 DEF HostedInv, SessionShape
  <2> QED
    BY <2>1, <2>2 DEF HostedInv, SessionOrder, HostedShape, HostedShown,
     HostedCurrent, Current, Ours, AtWallet
<1> QED
  BY <1>1, <1>2, <1>3 DEF HostedPromptFailed, HostedAccountChanged, HostedNetworkChanged, HostedExpired

LEMMA HostedStarts == HostedInit => HostedInv
<1> SUFFICES ASSUME HostedInit PROVE HostedInv
  OBVIOUS
<1>1. /\ selected \in WalletAccounts /\ heard = TRUE /\ tasks = {} /\ connects = 0
      /\ fence = [revision |-> 0, attached |-> FALSE, address |-> NoWallet,
                   observed |-> NoWallet, authorized |-> FALSE]
      /\ holder = [f \in FlowIds |-> NoWallet] /\ hosted = ClearedHosted
  BY DEF HostedInit, SessionInit
<1>2. SessionShape(HostedKinds)
  BY <1>1, WalletAssumption DEF SessionShape, Accounts0, Flow0
<1>3. HostedShape /\ HostedShown
  BY <1>1, WalletAssumption DEF HostedShape, HostedShown, ClearedHosted, Flow0, NoFlow
<1>4. SessionOrder /\ HostedCurrent
  BY <1>1 DEF SessionOrder, HostedCurrent
<1> QED
  BY <1>2, <1>3, <1>4 DEF HostedInv

LEMMA HostedStep == HostedInv /\ [HostedNext]_hostedVars => HostedInv'
<1> SUFFICES ASSUME HostedInv, [HostedNext]_hostedVars PROVE HostedInv'
  OBVIOUS
<1>1. CASE ConnectHosted
  BY <1>1, ConnectHostedKeeps
<1>2. CASE SignAndStart \/ Refresh \/ Renew
  BY <1>2, HostedBegins
<1>3. CASE Launch \/ \E c \in BOOLEAN : ReviewConsent(c)
  BY <1>3, HostedChanges
<1>4. ASSUME NEW t \in tasks,
             \/ PermittedHosted(t) \/ SignedHosted(t) \/ CheckedHosted(t) \/ ServeHosted(t)
             \/ ArriveHosted(t) \/ RecheckedHosted(t)
      PROVE  HostedInv'
  BY <1>4, PermittedHostedKeeps, HostedCallsKeep, ArriveHostedKeeps, RecheckedHostedKeeps
<1>5. CASE \/ \E t \in tasks : HostedPromptFailed(t)
           \/ \E a \in WalletAccounts \cup {NoWallet} : SwitchAccount(a) /\ UNCHANGED <<hosted, reads>>
           \/ AccountsHeard /\ UNCHANGED <<hosted, reads>>
           \/ HostedAccountChanged \/ HostedNetworkChanged \/ HostedExpired
  BY <1>5, HostedInterruptionsKeep
<1>6. CASE UNCHANGED hostedVars
  BY <1>6 DEF hostedVars, sessionVars, HostedInv, SessionShape, SessionOrder, HostedShape, HostedShown,
     HostedCurrent, Current, Ours, AtWallet
<1> QED
  BY <1>1, <1>2, <1>3, <1>4, <1>5, <1>6 DEF HostedNext

\* The hosted page: the consent to be signed, the provider session and the status that is shown
\* are those of the account the wallet session is bound to, whatever reads and renewals of
\* earlier sessions come late.
THEOREM HostedPageOneSession == HostedSpec => []HostedIsOneSession
<1>1. HostedInv => HostedIsOneSession
  BY DEF HostedInv, HostedShown, HostedIsOneSession, Ours
<1> QED
  BY <1>1, HostedStarts, HostedStep, PTL DEF HostedSpec
=============================================================================
