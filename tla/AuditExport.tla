---------------------------- MODULE AuditExport ----------------------------
(***************************************************************************)
(* The export of a retained issuance to a customer's auditor: prepared     *)
(* from the vault's record under a grant of the customer, sealed by the    *)
(* exporter, and verified later and elsewhere, against the keys the        *)
(* verifier has pinned and its own reading of the source chain.  A digest  *)
(* is what it digests, and what is signed carries its signer's key.        *)
(***************************************************************************)
EXTENDS Naturals

CONSTANTS
  Requests, Customers,
  CustomerOf,     \* CustomerOf[r]: the customer a request is processed for
  ClaimKeys,
  Keys, Blocks,
  MaxHours, MaxAnswers, MaxChanges,
  NoIssuance, NoBlock

VARIABLES
  hour,
  answers,      \* what the institutions answered
  receipts,     \* the receipts they signed
  issuances,    \* issuances[r]: what was issued, and its evidence
  retained,     \* retained[r]: what the vault holds of it
  grants,       \* the grants signed for the customers
  included,     \* included[w][r]: the block of the issuance on the chain of w's node
  readings,     \* readings[w]: what w's node told of the source
  pins,         \* pins[w]: the keys in w's trust configuration, by role
  prepared, sealed,
  accepted,     \* what the auditor accepted, when, and on which pins
  changes       \* of the configurations and the chains

auditVars == <<hour, answers, receipts, issuances, retained, grants, included, readings,
               pins, prepared, sealed, accepted, changes>>

Parties == {"exporter", "auditor"}
Axes == {"id-document", "bank-account"}

AxisAnswers ==
  [request : Requests, axis : Axes, reference : Nat, live : BOOLEAN, passed : BOOLEAN, at : Nat]

SignedReceipts == [answer : AxisAnswers, key : Keys]

SignedGrants ==
  [request : Requests, customer : Customers, claims : SUBSET ClaimKeys, from : Nat, until : Nat,
   key : Keys]

\* The evidence of an issuance and its attributes: the axes performed, and the regime.
Issuances ==
  [request : Requests, claims : SUBSET ClaimKeys, results : SUBSET AxisAnswers,
   axes : SUBSET Axes, production : BOOLEAN]

ASSUME ExportAssumption ==
  NoBlock \notin Blocks /\ NoIssuance \notin Issuances
  /\ CustomerOf \in [Requests -> Customers] /\ MaxHours \in Nat /\ MaxAnswers \in Nat

Observations == [observedAt : Nat, block : Blocks, event : Issuances]

TrustConfigs ==
  [authorizers : SUBSET Keys, receiptSigners : SUBSET Keys, exporters : SUBSET Keys]

ExportPayloads ==
  [generatedAt : Nat, grant : SignedGrants, evidence : Issuances, disclosures : SUBSET ClaimKeys,
   receipts : SUBSET SignedReceipts, observation : Observations]

Envelopes == [payload : ExportPayloads, key : Keys]

AuditTypeOK ==
  /\ hour \in Nat
  /\ answers \subseteq AxisAnswers /\ receipts \subseteq SignedReceipts
  /\ issuances \in [Requests -> Issuances \cup {NoIssuance}]
  /\ retained \in [Requests -> {"nothing", "record", "sourced"}]
  /\ grants \subseteq SignedGrants
  /\ included \in [Parties -> [Requests -> Blocks \cup {NoBlock}]]
  /\ readings \in [Parties -> SUBSET Observations]
  /\ pins \in [Parties -> TrustConfigs]
  /\ prepared \subseteq ExportPayloads /\ sealed \subseteq Envelopes
  /\ accepted \subseteq [envelope : Envelopes, at : Nat, pins : TrustConfigs]

AuditInit ==
  /\ hour = 1
  /\ answers = {} /\ receipts = {} /\ grants = {}
  /\ issuances = [r \in Requests |-> NoIssuance]
  /\ retained = [r \in Requests |-> "nothing"]
  /\ included = [w \in Parties |-> [r \in Requests |-> NoBlock]]
  /\ readings = [w \in Parties |-> {}]
  /\ pins = [w \in Parties |-> [authorizers |-> Keys, receiptSigners |-> Keys, exporters |-> Keys]]
  /\ prepared = {} /\ sealed = {} /\ accepted = {}
  /\ changes = 0
-----------------------------------------------------------------------------
\* An institution answers about one axis of a request, and may sign a receipt.
\* A check is repeated under a reference of its own.
AxisAnswered(r, axis, live, passed, k) ==
  /\ issuances[r] = NoIssuance
  /\ \E n \in 1 .. MaxAnswers :
       LET a == [request |-> r, axis |-> axis, reference |-> n, live |-> live,
                 passed |-> passed, at |-> hour]
       IN /\ \A b \in answers : b.reference < n
          /\ answers' = answers \cup {a}
          /\ receipts' \in {receipts, receipts \cup {[answer |-> a, key |-> k]}}
  /\ UNCHANGED <<hour, issuances, retained, grants, included, readings, pins, prepared, sealed,
                 accepted, changes>>

\* The issuance of a request on one passed result per axis, if any; `live' and
\* `demo' are the adapter's vendors and switch at that time.  The vault has the
\* record from then on.
Issued(r, results, claims, live, demo) ==
  /\ issuances[r] = NoIssuance
  /\ \A a \in results : a.request = r /\ a.passed
  /\ \A a, b \in results : a.axis = b.axis => a = b
  /\ issuances' = [issuances EXCEPT ![r] =
       [request |-> r, claims |-> claims, results |-> results,
        axes |-> {a.axis : a \in {b \in results : b.live \/ demo}},
        production |-> live /\ ~demo /\ {a.axis : a \in {b \in results : b.live}} = Axes]]
  /\ retained' = [retained EXCEPT ![r] = "record"]
  /\ UNCHANGED <<hour, answers, receipts, grants, included, readings, pins, prepared, sealed,
                 accepted, changes>>

\* The issuance reaches the source in block b, and the record keeps where.
Sourced(r, b) ==
  /\ retained[r] = "record"
  /\ retained' = [retained EXCEPT ![r] = "sourced"]
  /\ included' = [w \in Parties |-> [included[w] EXCEPT ![r] = b]]
  /\ UNCHANGED <<hour, answers, receipts, issuances, grants, readings, pins, prepared, sealed,
                 accepted, changes>>

\* Retention ends, the record goes.
Deleted(r) ==
  /\ retained[r] = "sourced"
  /\ retained' = [retained EXCEPT ![r] = "nothing"]
  /\ UNCHANGED <<hour, answers, receipts, issuances, grants, included, readings, pins, prepared,
                 sealed, accepted, changes>>

\* The customer's authorizer signs a grant for exactly these openings.
Granted(r, c, claims, until, k) ==
  /\ grants' = grants \cup
       {[request |-> r, customer |-> c, claims |-> claims, from |-> hour, until |-> until, key |-> k]}
  /\ UNCHANGED <<hour, answers, receipts, issuances, retained, included, readings, pins, prepared,
                 sealed, accepted, changes>>

\* A party reads the event of the issuance from its node.
Read(w, r) ==
  /\ included[w][r] # NoBlock
  /\ readings' = [readings EXCEPT ![w] = @ \cup
       {[observedAt |-> hour, block |-> included[w][r], event |-> issuances[r]]}]
  /\ UNCHANGED <<hour, answers, receipts, issuances, retained, grants, included, pins, prepared,
                 sealed, accepted, changes>>

\* A party's node follows another fork; a party pins other keys for a role.
Moved(w, r, b) ==
  /\ included[w][r] # NoBlock /\ changes < MaxChanges
  /\ included' = [included EXCEPT ![w][r] = b]
  /\ changes' = changes + 1
  /\ UNCHANGED <<hour, answers, receipts, issuances, retained, grants, readings, pins, prepared,
                 sealed, accepted>>

Repinned(w, role, ks) ==
  /\ changes < MaxChanges
  /\ pins' = [pins EXCEPT ![w][role] = ks]
  /\ changes' = changes + 1
  /\ UNCHANGED <<hour, answers, receipts, issuances, retained, grants, included, readings, prepared,
                 sealed, accepted>>

HourPasses ==
  /\ hour < MaxHours
  /\ hour' = hour + 1
  /\ UNCHANGED <<answers, receipts, issuances, retained, grants, included, readings, pins, prepared,
                 sealed, accepted, changes>>
-----------------------------------------------------------------------------
\* validateGrant
GrantInForce(g, trust, at) ==
  /\ g.until > g.from
  /\ g.key \in trust.authorizers
  /\ g.from <= at /\ at < g.until

\* Faulty variant: any passed answer of the institution about the axis will do.
ReceiptOfAxis(s, e, axis) ==
  s.answer.axis = axis /\ s.answer.request = e.request /\ s.answer.passed

\* A receipt for the very answer the evidence holds, from the rails the regime names.
ReceiptMatches(s, e, axis) ==
  /\ s.answer.axis = axis /\ s.answer.request = e.request /\ s.answer.passed
  /\ s.answer \in e.results
  /\ s.answer.live = e.production

\* validateReceipts: one receipt for each axis that was performed, and no other.
ReceiptsMatch(ss, e, trust, at) ==
  /\ \A s \in ss : s.key \in trust.receiptSigners /\ s.answer.at <= at
  /\ \A s, t \in ss : s.answer.axis = t.answer.axis => s = t
  /\ {s.answer.axis : s \in ss} = e.axes
  /\ \A s \in ss : ReceiptMatches(s, e, s.answer.axis)

\* validatePayload: everything again, at the verifier's time and on its pins.
PayloadValid(p, trust, at) ==
  /\ p.generatedAt <= at
  /\ GrantInForce(p.grant, trust, at)
  /\ p.observation.observedAt <= p.generatedAt
  /\ p.grant.request = p.evidence.request /\ p.disclosures = p.grant.claims
  /\ p.disclosures \subseteq p.evidence.claims
  /\ p.grant.customer = CustomerOf[p.evidence.request]
  /\ ReceiptsMatch(p.receipts, p.evidence, trust, p.generatedAt)
  /\ p.observation.event = p.evidence

\* prepareAuditExport
Prepare(g, ss, o) ==
  LET p == [generatedAt |-> hour, grant |-> g, evidence |-> issuances[g.request],
            disclosures |-> g.claims, receipts |-> ss, observation |-> o]
  IN /\ retained[g.request] = "sourced"
     /\ PayloadValid(p, pins["exporter"], hour)
     /\ prepared' = prepared \cup {p}
     /\ UNCHANGED <<hour, answers, receipts, issuances, retained, grants, included, readings, pins,
                    sealed, accepted, changes>>

\* sealAuditExport
Seal(p, k) ==
  /\ sealed' = sealed \cup {[payload |-> p, key |-> k]}
  /\ UNCHANGED <<hour, answers, receipts, issuances, retained, grants, included, readings, pins,
                 prepared, accepted, changes>>

\* verifyAuditExport: the verifier's own reading must be the exporter's, to the time.
Verify(x, o) ==
  /\ x.key \in pins["auditor"].exporters
  /\ PayloadValid(x.payload, pins["auditor"], hour)
  /\ o = x.payload.observation
  /\ accepted' = accepted \cup {[envelope |-> x, at |-> hour, pins |-> pins["auditor"]]}
  /\ UNCHANGED <<hour, answers, receipts, issuances, retained, grants, included, readings, pins,
                 prepared, sealed, changes>>

AuditNext ==
  \/ \E r \in Requests :
       \/ \E axis \in Axes, live \in BOOLEAN, passed \in BOOLEAN, k \in Keys :
            AxisAnswered(r, axis, live, passed, k)
       \/ \E results \in SUBSET answers, claims \in SUBSET ClaimKeys, live \in BOOLEAN, demo \in BOOLEAN :
            Issued(r, results, claims, live, demo)
       \/ \E b \in Blocks : Sourced(r, b)
       \/ Deleted(r)
       \/ \E c \in Customers, claims \in SUBSET ClaimKeys, until \in 1 .. MaxHours + 1, k \in Keys :
            Granted(r, c, claims, until, k)
       \/ \E w \in Parties : Read(w, r) \/ \E b \in Blocks \cup {NoBlock} : Moved(w, r, b)
  \/ \E w \in Parties, role \in {"authorizers", "receiptSigners", "exporters"}, ks \in SUBSET Keys :
       Repinned(w, role, ks)
  \/ HourPasses
  \/ \E g \in grants, ss \in SUBSET receipts, o \in readings["exporter"] : Prepare(g, ss, o)
  \/ \E p \in prepared, k \in Keys : Seal(p, k)
  \/ \E x \in sealed, o \in readings["auditor"] : Verify(x, o)

AuditSpec == AuditInit /\ [][AuditNext]_auditVars
-----------------------------------------------------------------------------
(***************************************************************************)
(* What an accepted export says is true.  The issuance was recorded by the *)
(* source in that block, as the auditor's own node showed at the time of   *)
(* the observation; every axis its attributes claim was answered, in       *)
(* production if the regime says so, by an institution that signed a       *)
(* receipt for that very answer with a key the auditor pins; and what is   *)
(* opened is exactly what the customer granted of that request, under a    *)
(* grant in force both when the export was made and when it was accepted.  *)
(***************************************************************************)
Backed(v) ==
  LET p == v.envelope.payload
      e == p.evidence
  IN  /\ e = issuances[e.request] /\ p.observation \in readings["auditor"]
      /\ p.observation.event = e
      /\ \A axis \in e.axes : \E s \in receipts :
           /\ s.answer \in answers \cap e.results /\ s.answer.axis = axis /\ s.answer.passed
           /\ e.production => s.answer.live
           /\ s.key \in v.pins.receiptSigners
      /\ p.grant \in grants /\ p.grant.request = e.request
      /\ p.grant.customer = CustomerOf[e.request] /\ p.grant.key \in v.pins.authorizers
      /\ p.disclosures = p.grant.claims /\ p.disclosures \subseteq e.claims
      /\ p.grant.from <= p.generatedAt /\ p.generatedAt <= v.at /\ v.at < p.grant.until

ExportIsBacked == \A v \in accepted : Backed(v)
=============================================================================
