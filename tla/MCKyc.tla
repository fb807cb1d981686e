------------------------------- MODULE MCKyc -------------------------------
(***************************************************************************)
(* The two ways to a verified identity, which share no state: the guided   *)
(* steps for two flows of one wallet and one account, and the hosted       *)
(* verification of one applicant; and the two pages of the browser, for a  *)
(* wallet with two accounts; the policies a flow is processed under; and   *)
(* the export of what was issued.  The run explores the bank step alone    *)
(* over a long time, the whole guided flow over a short one, the hosted    *)
(* verification, each page, the policies and the export, all from the same *)
(* initial state.                                                          *)
(***************************************************************************)
EXTENDS KycFlow, ProviderSession, VerifyPage, ProviderPage, ProcessingPolicy, AuditExport, TLC

CONSTANTS kim, wallet1, consent1,
  v1, v2,        \* vendors
  w1,            \* the account selected at first
  MaxTokens,     \* document tokens in the whole-flow part
  FlowTime,      \* the clock in the whole-flow part

  q1,            \* the request whose issuance is exported
  customer1      \* the customer it was processed for

VARIABLE route   \* the part of the application that is explored

MCWalletOf == [f \in Flows |-> wallet1]
MCHolderOf == [a \in Accounts |-> kim]

MCCustomerOf == [r \in Requests |-> customer1]

\* Three levels: the wallet, an account, and a document too.
MCIdentity ==
  LET band(l, more) == [level |-> l, required |-> {"wallet_control"} \cup more]
  IN [status |-> "approved", approval |-> TRUE, subjectKind |-> "individual",
      required |-> {"wallet_control", "account_control"}, biometrics |-> {},
      assuranceBands |-> {band(1, {}), band(3, {"account_control"}),
                          band(4, {"account_control", "document_authenticity"})}]

\* Handlers and blocks could be permuted too, at more cost than it saves.
IdentitySymmetry == Permutations(Flows) \cup Permutations(Callers)

\* What follows a request changes nothing about it.
Undecided == \A f \in Flows : entry[f] = NoEntry

\* What the operator may configure: a manifest that is in order, with or without
\* resident numbers, and manifests with one thing wrong or different.
Flow(stage, recipient, data) ==
  [stage |-> stage, recipient |-> recipient, data |-> data, global |-> FALSE, role |-> "processor"]

Public(w) == [w EXCEPT !.global = TRUE, !.role = "public-recipient"]

Usual(rrn, card, v, chain) ==
  [id |-> "policy-v1", customer |-> "c1", status |-> "approved", model |-> "first-party",
   processor |-> FALSE, refs |-> {"approval", "legal", "contract"}, rrn |-> rrn,
   onchain |-> [approved |-> TRUE, basis |-> TRUE, data |-> {"wallet_address", "commitments"}],
   flows |->
     <<Flow("wallet_consent", "proofmark:web", WalletData),
       Flow("bank_account", v, {"bank_account", "birth_date_fragment", "account_holder_name"}),
       Flow("id_document", v, {"identity_document_image", "identity_fields"}
                                \cup (IF card THEN {RRN} ELSE {})),
       Flow("issuance_processing", "proofmark:issuer",
            {"identity_fields", "account_holder_name", "claim_openings", "screening_result"}),
       Flow("recovery_journal", "proofmark:journal",
            {"wallet_address", "claim_openings", "evidence_record", "signed_transaction"}),
       Flow("evidence_vault", "proofmark:vault",
            {"identity_fields", "claim_openings", "evidence_record"})>>
     \o chain]

\* The chain flow in use, which may be disclosed as public or not, and another one.
Chains ==
  Flow(OnchainStage, "public:blockchains", {"wallet_address", "credential_metadata", "commitments"})
Mirror == Public(Flow(OnchainStage, "public:mirror", {"wallet_address", "commitments"}))

NoNumbers == [mode |-> "prohibited", authority |-> FALSE, items |-> FALSE]
Numbers(basis) == [mode |-> "authorized", authority |-> basis, items |-> TRUE]
Published(chain) == Usual(NoNumbers, FALSE, v1, chain)
Good == Published(<<Public(Chains)>>)

MCProcessing ==
  [good        |-> Good,
   vendor      |-> Usual(NoNumbers, FALSE, v2, <<Public(Chains)>>),
   numbers     |-> Usual(Numbers(TRUE), TRUE, v1, <<Public(Chains)>>),
   noBasis     |-> Usual(Numbers(FALSE), TRUE, v1, <<Public(Chains)>>),
   prohibited  |-> Usual(NoNumbers, TRUE, v1, <<Public(Chains)>>),
   sdk         |-> [Good EXCEPT !.model = "sdk-only"],
   private     |-> [Good EXCEPT !.onchain.basis = FALSE],
   synthetic   |-> [Good EXCEPT !.status = "synthetic", !.refs = {}, !.onchain.basis = FALSE],
   unreviewed  |-> [Good EXCEPT !.refs = {"approval"}],
   other       |-> [Good EXCEPT !.customer = "c2"],
   local       |-> Published(<<Chains>>),
   mirrorFirst |-> Published(<<Mirror, Chains>>),
   mirrorLast  |-> Published(<<Chains, Mirror>>),
   unchained   |-> Published(<< >>)]

Schedule(customer, days) ==
  LET rule(action, trigger, n) == [action |-> action, trigger |-> trigger, days |-> n]
      decided(disposition) ==
        [trigger |-> "decision-at", disposition |-> disposition,
         layers |-> ("revocation-outbox" :> rule("expire", "decision-at", days))
                    @@ ("backup" :> rule("expire", "decision-at", days))
                    @@ ("operational-log" :> rule("expire", "decision-at", days))
                    @@ ("evidence-vault" :> rule("delete", "decision-at", days))
                    @@ ("issuance-journal" :> rule("expire", "terminal-at", 1))
                    @@ ("vendor" :> rule("external-delete", "decision-at", days))
                    @@ ("client-copy" :> rule("client-controlled", "decision-at", NoneYet))
                    @@ ("onchain" :> rule("irreversible", "decision-at", NoneYet))]
  IN [customer |-> customer, status |-> "approved", refs |-> {"approval", "legal"},
      rules |-> [issued |-> decided("unchanged"), review |-> decided("not-issued"),
                 denied |-> decided("not-issued"), error |-> decided("not-issued")]]

MCRetention ==
  [month |-> Schedule("c1", 30), two |-> Schedule("c1", 60), other |-> Schedule("c2", 30),
   wrong |-> [Schedule("c1", 30) EXCEPT !.rules["denied"].disposition = "source-revoked"]]

pageVars == <<verifyVars, hosted, reads>>

IdentityInit ==
  /\ KycInit /\ ProviderInit /\ VerifyInit /\ HostedInit /\ PolicyInit /\ AuditInit
  /\ route \in {"guided", "hosted", "guided page", "hosted page", "policies", "export"} /\ (route = "guided" \/ live)
  /\ selected = w1
  /\ running = [processing |-> "good", retention |-> "month", vendor |-> v1]

IdentityNext ==
  /\ \/ route = "guided" /\ KycNext /\ Undecided
        /\ UNCHANGED <<providerVars, pageVars, policyVars, auditVars>>
     \/ route = "hosted" /\ ProviderNext 
        /\ UNCHANGED <<kycVars, pageVars, policyVars, auditVars>>
     \/ /\ route = "guided page" /\ VerifyNext
        /\ UNCHANGED <<kycVars, providerVars, policyVars, auditVars, hosted, reads>>
     \/ /\ route = "hosted page" /\ HostedNext
        /\ UNCHANGED <<kycVars, providerVars, policyVars, auditVars, page, saved, request, polls>>
     \/ route = "policies" /\ PolicyNext /\ UNCHANGED <<kycVars, providerVars, pageVars, auditVars>>
     \/ route = "export" /\ AuditNext /\ UNCHANGED <<kycVars, providerVars, pageVars, policyVars>>
  /\ UNCHANGED route

IdentitySpec == 
  IdentityInit /\ [][IdentityNext]_<<kycVars, providerVars, pageVars, policyVars, auditVars, route>>

\* After the first start, only the account holder starts again.
HolderStarts ==
  starts > 1 => \A f \in Flows, s \in StartIds :
    record[f][s] # NoRecord => record[f][s].payload.name = kim

\* Start requests are numbered in the order in which a flow makes them.
InOrder ==
  \A f \in Flows : record[f][2] # NoRecord => record[f][1] # NoRecord

BankOnly == live /\ idProofs = {} /\ twoWay = {} /\ redeploys = 0 /\ Undecided /\ HolderStarts /\ InOrder

WholeFlow ==
  /\ now <= FlowTime /\ starts <= 1 /\ InOrder
  /\ Cardinality(idProofs) <= MaxTokens /\ Cardinality(twoWay) <= MaxTokens
  /\ twoWay = {} \/ starts = 0

InFlight == {c \in Callers : call[c] # Resting}

\* Two provider requests at a time while the record lasts, one afterwards.
OneCallAfterwards == expiries > 0 \/ withdrawn => Cardinality(InFlight) <= 1

Late == {t \in tasks : ~Current(t)}

\* A second connection of a page with nothing left of the first is the first
\* one again; what the service does with a late call matters if it issues.
PageFocus ==
  /\ connects > 1 => Late # {} \/ request[1] # "none"
  /\ connects > 1 => \A t \in Late : t.kind = "issue" \/ (t.at = "reply" /\ t.got # "none")
  /\ connects > 1 \/ page.id # NoFlow => page.doc = NoFlow
  /\ connects > 1 \/ page.doc # NoFlow => page.twoWay = NoFlow
  /\ connects > 1 /\ page.id # NoFlow => page.issued.flow # 1
  /\ page.wallet # NoFlow \/ (\E t \in tasks \ Late : AtWallet(t)) => page.consented
  /\ \A f \in FlowIds : request[f] \in {"failed", "ready"} => page.issued.flow = f
  /\ Cardinality(tasks) <= 2

One(S) == Cardinality(S) <= 1

\* One answer failed; one grant, one export; and the export goes on from what
\* may be granted, read and exported.  Time and changes come after the reading.
ExportFocus ==
  LET e == issuances[q1] IN
  /\ Cardinality(answers) <= MaxAnswers
  /\ One({a.live : a \in answers}) /\ One({a \in answers : ~a.passed})
  /\ \A S \in {grants, prepared, sealed, accepted, readings["exporter"], readings["auditor"]} : One(S)
  /\ grants # {} =>
       /\ e # NoIssuance /\ retained[q1] # "record" /\ e.claims = ClaimKeys /\ e.axes # {}
       /\ prepared # {} \/ \E ss \in SUBSET receipts : ReceiptsMatch(ss, e, pins["exporter"], hour)
  /\ readings["exporter"] # {} =>
       \E g \in grants : g.until > g.from /\ g.customer = customer1 /\ g.claims = ClaimKeys
  /\ readings["auditor"] # {} \/ hour > 1 \/ changes > 0 => readings["exporter"] # {}
  /\ retained[q1] = "nothing" => prepared # {} \/ grants = {}

OnePartAtATime ==
  /\ (BankOnly \/ WholeFlow)
  /\ OneCallAfterwards
  /\ route = "guided page" => PageFocus
  /\ route = "export" => ExportFocus
=============================================================================
