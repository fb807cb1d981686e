-------------------------- MODULE ProcessingPolicy --------------------------
(***************************************************************************)
(* What a deployment may do with a holder's data.  The operator configures *)
(* a processing manifest and a retention schedule, and replaces them (and  *)
(* the vendors) whenever the server is redeployed; the holder's wallet     *)
(* signs a statement of the pair in force; each later step of the flow     *)
(* authorises what it is about to process under the pair then in force.    *)
(*                                                                         *)
(* A manifest's terms are what its validation and its use tell apart; its  *)
(* flows are a list, for one check looks no further than the first of a    *)
(* kind.  A fingerprint hashes the whole manifest: here it is a name of    *)
(* its own for each.  The deployment is a production one (demo = false).   *)
(***************************************************************************)
EXTENDS Integers, FiniteSets

CONSTANTS
  Processing,   \* the terms of each manifest PROCESSING_POLICY_JSON may hold, in order or not
  Retention,    \* and of each RETENTION_POLICY_JSON may hold
  Vendors,      \* the vendors of the document and the bank step
  Consents,     \* flows of wallets
  MaxDeploys,
  NoneYet

VARIABLES
  running,   \* the deployment: its two manifests and its vendor
  deploys,
  shown,     \* shown[f]: the pair the sealed message of the flow tells of
  signed,    \* signed[f]: the pair in the flow's wallet proof
  handled,   \* what was processed: of which flow, at which stage, by whom, which data
  filed      \* filed[f]: the request's saved policies and its vault deadline

\* The flows of a manifest are listed.
ASSUME PolicyAssumption ==
  \A name \in DOMAIN Processing : DOMAIN Processing[name].flows \subseteq Nat

policyVars == <<running, deploys, shown, signed, handled, filed>>

Outcomes4 == {"issued", "review", "denied", "error"}
Layers == {"evidence-vault", "issuance-journal", "revocation-outbox", "backup", "vendor",
           "operational-log", "client-copy", "onchain"}
Residual == {"client-copy", "onchain"}

OnchainStage == "onchain_publication"
RRN == "resident_registration_number"

-----------------------------------------------------------------------------
\* The processing manifest (pipeline/privacy-processing-policy.ts).

ModelDefined(p) ==
  CASE p.model = "institution-service" -> p.processor
    [] p.model \in {"first-party", "sdk-only"} -> ~p.processor
    [] OTHER -> FALSE

RefsDefined(p) ==
  p.refs = IF p.status = "approved" THEN {"approval", "legal", "contract"} ELSE {}

\* authority: an authority reference and a notice reference
ResidentNumberDefined(p) ==
  CASE p.rrn.mode = "authorized" -> p.rrn.authority /\ p.rrn.items
    [] p.rrn.mode = "prohibited" -> ~p.rrn.authority /\ ~p.rrn.items
    [] p.rrn.mode = "synthetic-only" -> p.status = "synthetic"
    [] OTHER -> FALSE

ChainFlows(p) == {i \in DOMAIN p.flows : p.flows[i].stage = OnchainStage}

\* The flow tells of a public, global recipient and of what goes on the chain.
TellsOfPublication(p, w) ==
  w.role = "public-recipient" /\ w.global /\ p.onchain.data \subseteq w.data

\* The flows say of the resident number and of the chain what the rest of the manifest says.
FlowsDefined(p) ==
  /\ \E i \in DOMAIN p.flows : p.flows[i].stage = "wallet_consent"
  /\ \A i, j \in DOMAIN p.flows :
       i # j => <<p.flows[i].stage, p.flows[i].recipient>> # <<p.flows[j].stage, p.flows[j].recipient>>
  /\ LET named == \E i \in DOMAIN p.flows : RRN \in p.flows[i].data IN
     /\ named => p.rrn.mode # "prohibited"
     /\ p.rrn.items => named
  /\ p.onchain.approved => ChainFlows(p) # {}
  /\ \A i \in ChainFlows(p) :   \* the first only: flows.find
       (\A j \in ChainFlows(p) : i <= j) => TellsOfPublication(p, p.flows[i])

OnchainDefined(p) ==
  p.onchain.basis = (p.status = "approved") /\ (p.status = "approved" => p.onchain.approved)

DefinedProcessing(p) ==
  ModelDefined(p) /\ RefsDefined(p) /\ ResidentNumberDefined(p) /\ OnchainDefined(p)
    /\ FlowsDefined(p)

\* processingPolicyForRuntime
RunnableProcessing(p) == DefinedProcessing(p) /\ p.status = "approved"

\* A binding names the policy and carries its fingerprint.
BoundById(p, binding) == Processing[p].id = Processing[binding].id
Bound(p, binding) == p = binding

\* No two flows have the same stage and recipient.
Covers(w, stage, recipient, data) ==
  w.stage = stage /\ w.recipient = recipient /\ data \subseteq w.data

\* authorizeProcessing
AuthorizedBy(name, binding, stage, recipient, data) ==
  LET p == Processing[name] IN
  /\ Bound(name, binding)
  /\ p.model = "sdk-only" => stage = "wallet_consent"
  /\ \E i \in DOMAIN p.flows : Covers(p.flows[i], stage, recipient, data)
  /\ RRN \in data => p.rrn.mode # "prohibited"
  /\ stage = OnchainStage => p.onchain.approved

-----------------------------------------------------------------------------
\* The retention schedule (pipeline/retention-policy.ts).

LayerDefined(layer, rule) ==
  LET l == rule.layers[layer] IN
  /\ (layer \in Residual) = (l.days = NoneYet)
  /\ layer = "client-copy" => l.action = "client-controlled"
  /\ layer = "onchain" => l.action = "irreversible"
  /\ layer = "vendor" => l.action = "external-delete"
  /\ layer = "evidence-vault" => l.action = "delete"
  /\ layer = "issuance-journal" => l.action = "expire" /\ l.trigger = "terminal-at" /\ l.days = 1

DefinedRetention(r) ==
  /\ r.refs = IF r.status = "approved" THEN {"approval", "legal"} ELSE {}
  /\ DOMAIN r.rules = Outcomes4
  /\ \A o \in Outcomes4 :
       LET rule == r.rules[o] IN
       /\ rule.trigger \in {"collected-at", "decision-at"}
       /\ rule.disposition # IF o = "issued" THEN "not-issued" ELSE "source-revoked"
       /\ DOMAIN rule.layers = Layers
       /\ \A layer \in Layers : LayerDefined(layer, rule)

RunnableRetention(r) == DefinedRetention(r) /\ r.status = "approved"

\* What retentionPolicyEvidence files with a record: the vault's deadline.
VaultDeadline(r, outcome) ==
  LET rule == r.rules[outcome] IN
  [outcome |-> outcome, from |-> rule.trigger, days |-> rule.layers["evidence-vault"].days,
   disposition |-> rule.disposition]

\* A deadline: an action of the flow and an outcome that a holder agreed to.
Deadlines(r) == {VaultDeadline(r, o) : o \in Outcomes4}

-----------------------------------------------------------------------------
\* The steps of a flow.

\* The pair in force, if the server has one at all.
InForce ==
  LET p == Processing[running.processing]
      r == Retention[running.retention]
  IN  RunnableProcessing(p) /\ RunnableRetention(r) /\ r.customer = p.customer

Pair == [processing |-> running.processing, retention |-> running.retention]

Allowed(binding, stage, recipient, data) ==
  AuthorizedBy(running.processing, binding.processing, stage, recipient, data)

\* The retention schedule is bound in the same way.
Retains(binding) == running.retention = binding.retention

Handling(f, stage, recipient, data) ==
  [flow |-> f, stage |-> stage, recipient |-> recipient, data |-> data]

WalletData == {"wallet_address", "consent_record"}

\* GET api/kyc/wallet: a new flow, whose message tells of the pair in force.
Show(f) ==
  /\ shown[f] = NoneYet
  /\ Allowed(Pair, "wallet_consent", "proofmark:web", WalletData) /\ InForce
  /\ shown' = [shown EXCEPT ![f] = Pair]
  /\ UNCHANGED <<running, deploys, signed, handled, filed>>

\* POST api/kyc/wallet: the pair must still be in force when the signature arrives.
Sign(f) ==
  /\ shown[f] # NoneYet
  /\ Allowed(shown[f], "wallet_consent", "proofmark:web", WalletData) /\ Retains(shown[f])
  /\ InForce
  /\ signed' = [signed EXCEPT ![f] = shown[f]]
  /\ handled' = handled \cup {Handling(f, "wallet_consent", "proofmark:web", WalletData)}
  /\ UNCHANGED <<running, deploys, shown, filed>>

\* A step that hands data to a vendor.
Hand(f, stage, data) ==
  /\ signed[f] # NoneYet
  /\ Allowed(signed[f], stage, running.vendor, data) /\ Retains(signed[f]) /\ InForce
  /\ handled' = handled \cup {Handling(f, stage, running.vendor, data)}
  /\ UNCHANGED <<running, deploys, shown, signed, filed>>

BankStep(f) ==
  Hand(f, "bank_account", {"bank_account", "birth_date_fragment", "account_holder_name"})

\* A resident registration card shows the resident number.
DocumentStep(f, card) ==
  Hand(f, "id_document",
       {"identity_document_image", "identity_fields"} \cup (IF card THEN {RRN} ELSE {}))

\* authorizeIssuanceProcessing asks for four stages at once.
IssuanceHandlings(f) ==
  {Handling(f, "issuance_processing", "proofmark:issuer",
            {"identity_fields", "account_holder_name", "claim_openings", "screening_result"}),
   Handling(f, "recovery_journal", "proofmark:journal",
            {"wallet_address", "claim_openings", "evidence_record", "signed_transaction"}),
   Handling(f, "evidence_vault", "proofmark:vault",
            {"identity_fields", "claim_openings", "evidence_record"}),
   Handling(f, OnchainStage, "public:blockchains",
            {"wallet_address", "credential_metadata", "commitments"})}

IssuanceAllowed(f) ==
  /\ signed[f] # NoneYet
  /\ \A x \in IssuanceHandlings(f) : Allowed(signed[f], x.stage, x.recipient, x.data)
  /\ Retains(signed[f]) /\ InForce

\* The first request of a flow files its outcome with the two policies.
Request(f, outcome) ==
  /\ filed[f] = NoneYet /\ IssuanceAllowed(f)
  /\ filed' = [filed EXCEPT ![f] =
       [processing |-> running.processing, retention |-> running.retention,
        deadline |-> VaultDeadline(Retention[running.retention], outcome), published |-> FALSE]]
  /\ handled' = handled \cup
       {x \in IssuanceHandlings(f) : x.stage # OnchainStage}
  /\ UNCHANGED <<running, deploys, shown, signed>>

\* The filed transaction goes on the chain.
Publish(f) ==
  /\ filed[f] # NoneYet /\ filed[f].deadline.outcome = "issued"
  /\ filed' = [filed EXCEPT ![f].published = TRUE]
  /\ handled' = handled \cup {x \in IssuanceHandlings(f) : x.stage = OnchainStage}
  /\ UNCHANGED <<running, deploys, shown, signed>>

\* The holder's own request goes on only under the policies it was filed with.
Resume(f) ==
  /\ Publish(f)
  /\ filed[f].processing = running.processing /\ filed[f].retention = signed[f].retention
  /\ IssuanceAllowed(f)

\* The operator's script/resume-issuances.ts asks for no policy: what was filed goes on.
Recover(f) == Publish(f)

Deploy ==
  /\ deploys < MaxDeploys
  /\ deploys' = deploys + 1
  /\ \/ \E p \in DOMAIN Processing : running' = [running EXCEPT !.processing = p]
     \/ \E r \in DOMAIN Retention : running' = [running EXCEPT !.retention = r]
     \/ \E v \in Vendors : running' = [running EXCEPT !.vendor = v]
  /\ UNCHANGED <<shown, signed, handled, filed>>

PolicyInit ==
  /\ running \in [processing : DOMAIN Processing, retention : DOMAIN Retention, vendor : Vendors]
  /\ deploys = 0 /\ handled = {}
  /\ shown = [f \in Consents |-> NoneYet]
  /\ signed = [f \in Consents |-> NoneYet]
  /\ filed = [f \in Consents |-> NoneYet]

PolicyNext ==
  \/ Deploy
  \/ \E f \in Consents :
       \/ Show(f) \/ Sign(f) \/ BankStep(f) \/ Resume(f) \/ Recover(f)
       \/ \E card \in BOOLEAN : DocumentStep(f, card)
       \/ \E o \in Outcomes4 : Request(f, o)

PolicySpec == PolicyInit /\ [][PolicyNext]_policyVars

-----------------------------------------------------------------------------

\* What a signed processing manifest discloses of one handling.  Of what goes on
\* the chain, the flow it goes under need not say that it is public: the
\* manifest says so in some flow, of the data it approves for the chain.
Discloses(p, x) ==
  /\ p.status = "approved" /\ p.refs = {"approval", "legal", "contract"}
  /\ \E i \in DOMAIN p.flows : Covers(p.flows[i], x.stage, x.recipient, x.data)
  /\ x.stage = OnchainStage =>
       p.onchain.basis /\ \E i \in ChainFlows(p) : TellsOfPublication(p, p.flows[i])
  /\ RRN \in x.data => p.rrn.authority
  /\ x.stage # "wallet_consent" => p.model # "sdk-only"

(***************************************************************************)
(* However often the operator redeploys, with whatever manifests and       *)
(* vendors: what was processed of a flow, its wallet had signed for.  The  *)
(* manifest it signed names the stage, the recipient and every datum, with *)
(* an authority for a resident number, and with a basis and a public and   *)
(* global recipient of chain data if anything went on the chain; and the   *)
(* deadline filed with the record is one of the retention schedule the     *)
(* same signature covers, of the same customer.                            *)
(***************************************************************************)
ProcessedAsDisclosed ==
  \A f \in Consents :
    /\ \A x \in handled : x.flow = f => Discloses(Processing[signed[f].processing], x)
    /\ filed[f] # NoneYet =>
         /\ filed[f].deadline \in Deadlines(Retention[signed[f].retention])
         /\ Retention[signed[f].retention].customer = Processing[signed[f].processing].customer
=============================================================================
