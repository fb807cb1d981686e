------------------------------ MODULE KycFlow ------------------------------
(***************************************************************************)
(* The guided verification, from the wallet's signature to the journal     *)
(* entry of the issuance.  The server keeps no session: what one step      *)
(* establishes travels through the browser as a sealed token bound to the  *)
(* flow, and the issuance puts the tokens together again.  The operator    *)
(* may redeploy with other vendors or other policies at any time.          *)
(***************************************************************************)
EXTENDS Integers, FiniteSets

(***************************************************************************)
(* The bank step of the guided verification: a one-won deposit with a code *)
(* in its memo, which the customer reads back.  One Redis script owns the  *)
(* start budgets, the idempotency record of every start and the tries, so  *)
(* reserve, activate and verify are single steps; the two bank calls       *)
(* between reserve and activate are not, and a process can die in between. *)
(***************************************************************************)

CONSTANTS
  Flows,          \* wallet verification flows
  WalletOf,       \* the wallet that signed in to a flow
  StartIds,       \* startRequestId values of the browser
  Accounts, Names,
  HolderOf,       \* the name the bank holds for an account
  Handlers,       \* concurrent requests to the bank route
  Attempts, FlowStarts, AccountStarts, WalletStarts, GlobalStarts,  \* BANK_LIMITS
  Lifetime,       \* a challenge: ten minutes
  TokenLife,      \* a sealed proof: thirty minutes
  Budget,         \* a record and a budget window: a day
  MaxTime, MaxStarts, NoRecord, NoId

ASSUME BankAssumption ==
  /\ HolderOf \in [Accounts -> Names]
  /\ {Attempts, FlowStarts, AccountStarts, WalletStarts, GlobalStarts} \subseteq Nat \ {0}
  /\ {Lifetime, TokenLife, Budget, MaxTime, MaxStarts} \subseteq Nat \ {0}
  \* A flow's last wallet proof is gone before the record of its first start.
  /\ Lifetime + TokenLife < Budget
  /\ NoId \notin 1 .. MaxStarts

VARIABLES
  now,        \* Redis TIME, and the clock of the web servers
  record,     \* record[f][s]: the request hash of start s in flow f
  counter,    \* the start budgets
  current,    \* the flow hash's current challenge
  starts,     \* challenge identifiers handed out so far
  start,      \* start[h]: a request to the bank route with action=start
  deposits,   \* the bank's ledger of one-won transfers
  held,       \* sealed challenges the browser has received
  wrong,      \* wrong[i]: codes refused for challenge i
  bankProofs, \* sealed bank results
  live        \* the configured vendors are on real rails

storeVars == <<record, counter, current, starts>>
bankVars == <<now, record, counter, current, starts, start, deposits, held, wrong, bankProofs>>

Ids == 1 .. MaxStarts

Payloads == [account : Accounts, name : Names]

Counters == {<<"flow", f>> : f \in Flows} \cup {<<"account", a>> : a \in Accounts}
              \cup {<<"wallet", WalletOf[f]>> : f \in Flows} \cup {<<"global">>}

\* The four budgets a start draws on.
CountersOf(f, payload) ==
  {<<"flow", f>>, <<"account", payload.account>>, <<"wallet", WalletOf[f]>>, <<"global">>}

LimitOf(c) ==
  CASE c[1] = "flow" -> FlowStarts
    [] c[1] = "account" -> AccountStarts
    [] c[1] = "wallet" -> WalletStarts
    [] c[1] = "global" -> GlobalStarts

Records ==
  [state : {"pending", "ready", "locked", "consumed"}, id : Ids, payload : Payloads,
   live : BOOLEAN, expires : Nat, deleteAt : Nat, attempts : 0 .. Attempts]

ASSUME NoRecordAssumption == NoRecord \notin Records

Challenges == [id : Ids, flow : Flows, start : StartIds, holder : Names, live : BOOLEAN, exp : Nat]

Idle == [at |-> "idle"]

BankTypeOK ==
  /\ now \in 0 .. MaxTime
  /\ record \in [Flows -> [StartIds -> Records \cup {NoRecord}]]
  /\ counter \in [Counters -> [n : Nat, until : Nat]]
  /\ current \in [Flows -> Ids \cup {NoId}]
  /\ starts \in 0 .. MaxStarts
  /\ deposits \subseteq [id : Ids, flow : Flows, start : StartIds, account : Accounts, at : Nat,
                         live : BOOLEAN]
  /\ held \subseteq Challenges
  /\ wrong \in [Ids -> Nat]
  /\ \A h \in Handlers : start[h] # Idle => start[h].flow \in Flows /\ start[h].id \in Ids

BankInit ==
  /\ now = 0
  /\ record = [f \in Flows |-> [s \in StartIds |-> NoRecord]]
  /\ counter = [c \in Counters |-> [n |-> 0, until |-> 0]]
  /\ current = [f \in Flows |-> NoId]
  /\ starts = 0
  /\ start = [h \in Handlers |-> Idle]
  /\ deposits = {} /\ held = {} /\ bankProofs = {}
  /\ wrong = [i \in Ids |-> 0]
-----------------------------------------------------------------------------
Exhausted(c) == counter[c].n >= LimitOf(c)

\* Faulty variant: a start that has not been answered yet may be reserved again.
MayReserveAgain(f, s, payload) ==
  /\ IF record[f][s] = NoRecord THEN TRUE ELSE record[f][s].state = "pending"
  /\ \A c \in CountersOf(f, payload) : ~Exhausted(c)

\* A start is new to the store and within all four budgets.
MayReserve(f, s, payload) ==
  /\ record[f][s] = NoRecord
  /\ \A c \in CountersOf(f, payload) : ~Exhausted(c)

\* A budget window opens with its first start and closes a day later.
Drawn(c) == [n |-> counter[c].n + 1,
             until |-> IF counter[c].n = 0 THEN now + Budget ELSE counter[c].until]

\* The start is recorded and paid for before any call to the bank.
Reserve(h, f, s, payload) ==
  /\ start[h] = Idle /\ starts < MaxStarts
  /\ MayReserve(f, s, payload)
  /\ starts' = starts + 1
  /\ counter' = [c \in Counters |-> IF c \in CountersOf(f, payload) THEN Drawn(c) ELSE counter[c]]
  /\ current' = [current EXCEPT ![f] = starts']
  /\ record' = [record EXCEPT ![f][s] =
       [state |-> "pending", id |-> starts', payload |-> payload, live |-> live,
        expires |-> now + Lifetime, deleteAt |-> now + Budget, attempts |-> 0]]
  /\ start' = [start EXCEPT ![h] =
       [at |-> "lookup", flow |-> f, start |-> s, id |-> starts', payload |-> payload,
        expires |-> now + Lifetime, since |-> now, live |-> live]]
  /\ UNCHANGED <<now, deposits, held, wrong, bankProofs>>

\* The same start again: an answered one returns its sealed response, every other one is refused.
Cached(f, s, payload) ==
  /\ record[f][s] # NoRecord
  /\ LET r == record[f][s]
     IN /\ r.payload = payload /\ r.state = "ready" /\ current[f] = r.id /\ r.expires > now
        /\ held' = held \cup {[id |-> r.id, flow |-> f, start |-> s, exp |-> r.expires,
                               holder |-> HolderOf[payload.account], live |-> r.live]}
  /\ UNCHANGED <<now, storeVars, start, deposits, wrong, bankProofs>>

\* lookupHolder: the bank's name for the account must be the declared one.
Lookup(h) ==
  /\ start[h].at = "lookup"
  /\ start' = [start EXCEPT ![h] =
       IF HolderOf[@.payload.account] = @.payload.name THEN [@ EXCEPT !.at = "send"] ELSE Idle]
  /\ UNCHANGED <<now, storeVars, deposits, held, wrong, bankProofs>>

\* sendOneWon: the transfer may be made although its answer is lost.
Send(h) ==
  /\ start[h].at = "send"
  /\ LET t == start[h]
     IN deposits' = deposits \cup {[id |-> t.id, flow |-> t.flow, start |-> t.start,
                                    account |-> t.payload.account, at |-> t.since,
                                    live |-> t.live]}
  /\ \E answered \in BOOLEAN :
       start' = [start EXCEPT ![h] = IF answered THEN [@ EXCEPT !.at = "activate"] ELSE Idle]
  /\ UNCHANGED <<now, storeVars, held, wrong, bankProofs>>

\* The script's common guard: the newest challenge of its flow, and not expired.
Standing(f, s, i) ==
  /\ record[f][s] # NoRecord
  /\ record[f][s].id = i /\ current[f] = i /\ record[f][s].expires > now

\* The challenge is sealed for what is left of its ten minutes and then activated.
Activate(h) ==
  /\ start[h].at = "activate"
  /\ LET t == start[h]
         ok == t.expires > now /\ Standing(t.flow, t.start, t.id)
                 /\ record[t.flow][t.start].state = "pending"
     IN /\ record' = IF ok THEN [record EXCEPT ![t.flow][t.start].state = "ready"] ELSE record
        /\ \/ ok /\ held' = held \cup {[id |-> t.id, flow |-> t.flow, start |-> t.start,
                                        holder |-> HolderOf[t.payload.account], live |-> t.live,
                                        exp |-> t.expires]}
           \/ held' = held      \* refused, or the answer did not reach the browser
  /\ start' = [start EXCEPT ![h] = Idle]
  /\ UNCHANGED <<now, counter, current, starts, deposits, wrong, bankProofs>>

\* A vendor error or the end of the process; the record stays as it is.
Abandon(h) ==
  /\ start[h] # Idle
  /\ start' = [start EXCEPT ![h] = Idle]
  /\ UNCHANGED <<now, storeVars, deposits, held, wrong, bankProofs>>

TakesCode(c) == Standing(c.flow, c.start, c.id) /\ record[c.flow][c.start].state = "ready"

\* action=verify with the code of the deposit: the challenge is used up.
CodeRead(c) ==
  /\ c.exp >= now /\ TakesCode(c)
  /\ record' = [record EXCEPT ![c.flow][c.start].state = "consumed"]
  /\ bankProofs' = bankProofs \cup {[flow |-> c.flow, id |-> c.id, name |-> c.holder,
                                     live |-> c.live, exp |-> now + TokenLife]}
  /\ UNCHANGED <<now, counter, current, starts, start, deposits, held, wrong>>

\* action=verify with another code: one try less, and none after the last.
CodeMissed(c) ==
  /\ c.exp >= now /\ TakesCode(c)
  /\ record' = [record EXCEPT ![c.flow][c.start].attempts = @ + 1,
                              ![c.flow][c.start].state =
                                IF record[c.flow][c.start].attempts + 1 >= Attempts
                                  THEN "locked" ELSE @]
  /\ wrong' = [wrong EXCEPT ![c.id] = @ + 1]
  /\ UNCHANGED <<now, counter, current, starts, start, deposits, held, bankProofs>>

\* The budgets left when the clock reads t.
Lapsed(t) ==
  [c \in Counters |-> IF counter[c].until <= t THEN [n |-> 0, until |-> 0] ELSE counter[c]]

\* Redis drops what has expired; the flow's current challenge lives in its budget hash.
Pass ==
  /\ now < MaxTime
  /\ now' = now + 1
  /\ record' = [f \in Flows |-> [s \in StartIds |->
       IF record[f][s] # NoRecord /\ record[f][s].deleteAt <= now' THEN NoRecord ELSE record[f][s]]]
  /\ counter' = Lapsed(now')
  /\ current' = [f \in Flows |-> IF counter'[<<"flow", f>>].n = 0 THEN NoId ELSE current[f]]
  /\ UNCHANGED <<starts, start, deposits, held, wrong, bankProofs>>
-----------------------------------------------------------------------------
(***************************************************************************)
(* A start request is idempotent: whatever is retried, answered late or    *)
(* left half done, one startRequestId never sends a second deposit.        *)
(***************************************************************************)
OneDepositPerStart ==
  \A d, e \in deposits : d.flow = e.flow /\ d.start = e.start => d = e

(***************************************************************************)
(* The guided flow around it.                                              *)
(***************************************************************************)
CONSTANTS
  Identity,       \* the operator's identity policy
  MaxRedeploys,
  NoEntry, NoProof

VARIABLES
  siwe,      \* siwe[f]: the sealed wallet message, its expiry and the policies it names
  wallet,    \* wallet[f]: the latest wallet proof of the flow
  twoWay,    \* sealed continuations of a document check
  idProofs,  \* sealed document results
  entry,     \* entry[f]: the journal entry of the flow's request
  policy,    \* the processing and retention policies in force
  redeploys

flowVars == <<siwe, wallet, twoWay, idProofs, entry, policy, redeploys, live>>
kycVars == <<bankVars, flowVars>>

NoToken == [exp |-> 0, policy |-> 0]

IdentityRequirement ==
  {"wallet_control", "document_authenticity", "account_control", "face_match", "liveness",
   "authorized_representative", "beneficial_owner_identity"}
Biometrics == {"face_match", "liveness"}

\* defineIdentityPolicy: a band of a higher level asks for no less.
PolicyDefined(p) ==
  /\ p.status \in {"synthetic", "approved"} /\ (p.status = "approved") = p.approval
  /\ p.subjectKind \in {"individual", "organization"}
  /\ p.required \subseteq IdentityRequirement
  /\ p.assuranceBands # {}
  /\ \A b \in p.assuranceBands :
       b.level \in 1 .. 5 /\ b.required \subseteq IdentityRequirement /\ "wallet_control" \in b.required
  /\ \A a, b \in p.assuranceBands :
       (a.level = b.level => a = b) /\ (a.level < b.level => a.required \subseteq b.required)
  /\ p.biometrics \subseteq Biometrics     \* the authorized checks, none when prohibited

\* identityPolicyForIssuance: an approved policy, or nothing is issued.
PolicyForIssuance(p) == PolicyDefined(p) /\ p.status = "approved"

ASSUME IdentityAssumption == PolicyForIssuance(Identity)

CommonClaims == {"fullName", "dateOfBirth", "nationality", "residence"}

\* The fields of a request's outcome that the properties speak of.
Outcomes ==
  [declared : Names, methods : SUBSET IdentityRequirement, production : BOOLEAN,
   assurance : 0 .. 5, claims : SUBSET (CommonClaims \cup {"idDocHash", "accountHolder"}),
   status : {"ISSUED", "REJECTED", "DENIED", "REVIEW"}, policy : Nat]

KycTypeOK ==
  /\ BankTypeOK
  /\ wallet \in [Flows -> [exp : Nat, policy : Nat]]
  /\ siwe \in [Flows -> [exp : Nat, policy : Nat]]
  /\ idProofs \subseteq [flow : Flows, name : Names, authentic : BOOLEAN, live : BOOLEAN, exp : Nat]
  /\ bankProofs \subseteq [flow : Flows, id : Ids, name : Names, live : BOOLEAN, exp : Nat]
  /\ entry \in [Flows -> Outcomes \cup {NoEntry}]

KycInit ==
  /\ BankInit
  /\ siwe = [f \in Flows |-> NoToken] /\ wallet = [f \in Flows |-> NoToken]
  /\ twoWay = {} /\ idProofs = {}
  /\ entry = [f \in Flows |-> NoEntry]
  /\ policy = 1 /\ redeploys = 0 /\ live \in BOOLEAN
-----------------------------------------------------------------------------
\* open: a token is good until its expiry.
Opens(t) == t.exp >= now

\* assertCurrentPrivacyProcessing and its counterpart for retention.
PolicyCurrent(t) == t.policy = policy

\* Step 0a: the message to sign, sealed with the policies it tells of.
WalletMessage(f) ==
  /\ siwe[f] = NoToken
  /\ siwe' = [siwe EXCEPT ![f] = [exp |-> now + Lifetime, policy |-> policy]]
  /\ UNCHANGED <<bankVars, wallet, twoWay, idProofs, entry, policy, redeploys, live>>

\* Step 0b: the signed message gives a wallet proof, again each time it is sent.
WalletSigned(f) ==
  /\ siwe[f] # NoToken /\ Opens(siwe[f]) /\ PolicyCurrent(siwe[f])
  /\ wallet' = [wallet EXCEPT ![f] = [exp |-> now + TokenLife, policy |-> policy]]
  /\ wallet' # wallet
  /\ UNCHANGED <<bankVars, siwe, twoWay, idProofs, entry, policy, redeploys, live>>

\* flowFromWalletToken and the policy checks every later step begins with.
Admitted(f) == wallet[f] # NoToken /\ Opens(wallet[f]) /\ PolicyCurrent(wallet[f])

BankStart(h, f, s, payload) ==
  /\ Admitted(f)
  /\ Reserve(h, f, s, payload)
  /\ UNCHANGED flowVars

BankStartAgain(f, s, payload) ==
  /\ Admitted(f)
  /\ Cached(f, s, payload)
  /\ UNCHANGED flowVars

BankWork(h) ==
  /\ Lookup(h) \/ Send(h) \/ Activate(h) \/ Abandon(h)
  /\ UNCHANGED flowVars

BankVerify(c) ==
  /\ Admitted(c.flow)
  /\ CodeRead(c) \/ CodeMissed(c)
  /\ UNCHANGED flowVars

\* The authority's word on a document that names n, sealed for the flow.
IdAnswer(f, n) ==
  \E authentic \in BOOLEAN :
    idProofs' = idProofs \cup {[flow |-> f, name |-> n, authentic |-> authentic,
                                live |-> live, exp |-> now + TokenLife]}

\* Step 1: the authority answers, or wants a captcha first; a failed call leaves nothing.
IdVerify(f, n) ==
  /\ Admitted(f)
  /\ \/ IdAnswer(f, n) /\ UNCHANGED twoWay
     \/ twoWay' = twoWay \cup {[flow |-> f, name |-> n, exp |-> now]} /\ UNCHANGED idProofs
  /\ UNCHANGED <<bankVars, siwe, wallet, entry, policy, redeploys, live>>

\* Faulty variant: a token of any flow will do.
AnyFlow(f, t) == TRUE

\* assertSameFlow
SameFlow(f, t) == t.flow = f

\* Step 1, second leg: the continuation carries the flow and the document.
IdContinue(f, n, t) ==
  /\ Admitted(f) /\ Opens(t) /\ SameFlow(f, t) /\ t.name = n
  /\ IdAnswer(f, n)
  /\ UNCHANGED <<bankVars, siwe, wallet, twoWay, entry, policy, redeploys, live>>
-----------------------------------------------------------------------------
\* A result counts toward a bit when it came from real rails.
Counts(t) == t # NoProof /\ t.live

\* reconcile: no two of the names may differ.
Reconciled(n, id, bank) ==
  /\ id # NoProof => id.name = n
  /\ bank # NoProof => bank.name = n

\* evaluateIdentityPolicy: the highest band the performed checks earn, if any.
Assurance(performed) ==
  LET earned == {b \in Identity.assuranceBands : b.required \subseteq performed}
  IN  IF earned = {} THEN 0 ELSE CHOOSE n \in {b.level : b \in earned} : \A b \in earned : b.level <= n

PolicyMet(performed) ==
  /\ Identity.required \subseteq performed
  /\ Identity.subjectKind = "individual"
  /\ (Identity.required \cup UNION {b.required : b \in Identity.assuranceBands}) \cap Biometrics # {} =>
       Identity.biometrics # {}
  /\ performed \cap Biometrics \subseteq Identity.biometrics
  /\ Assurance(performed) > 0

\* KrAdapter.run, then reconciliation, screening and the identity policy.
Outcome(n, id, bank, screening) ==
  LET methods == {"wallet_control"}
                   \cup (IF Counts(id) /\ id.authentic THEN {"document_authenticity"} ELSE {})
                   \cup (IF Counts(bank) THEN {"account_control"} ELSE {})
      status == CASE id # NoProof /\ ~id.authentic -> "REJECTED"
                  [] ~Reconciled(n, id, bank) -> "REJECTED"
                  [] screening = "BLOCK" -> "DENIED"
                  [] screening = "REVIEW" -> "REVIEW"
                  [] ~PolicyMet(methods) -> "REJECTED"
                  [] OTHER -> "ISSUED"
  IN [declared |-> n, methods |-> methods, status |-> status, policy |-> policy,
      production |-> live /\ {"document_authenticity", "account_control"} \subseteq methods,
      assurance |-> IF status = "ISSUED" THEN Assurance(methods) ELSE 0,
      claims |-> IF status # "ISSUED" THEN {}
                 ELSE CommonClaims \cup (IF id # NoProof THEN {"idDocHash"} ELSE {})
                                   \cup (IF bank # NoProof THEN {"accountHolder"} ELSE {})]

\* Steps 3 to 6: a flow has one request, and its payload never changes.
Issue(f, n, id, bank, screening) ==
  /\ Admitted(f) /\ entry[f] = NoEntry
  /\ \A t \in {id, bank} \ {NoProof} : Opens(t) /\ SameFlow(f, t)
  /\ entry' = [entry EXCEPT ![f] = Outcome(n, id, bank, screening)]
  /\ UNCHANGED <<bankVars, siwe, wallet, twoWay, idProofs, policy, redeploys, live>>

Redeploy ==
  /\ redeploys < MaxRedeploys
  /\ redeploys' = redeploys + 1
  /\ \/ live' = ~live /\ UNCHANGED policy
     \/ policy' = policy + 1 /\ UNCHANGED live
  /\ UNCHANGED <<bankVars, siwe, wallet, twoWay, idProofs, entry>>

TimePasses == Pass /\ UNCHANGED flowVars

KycNext ==
  \/ \E f \in Flows :
       \/ WalletMessage(f) \/ WalletSigned(f)
       \/ \E s \in StartIds, p \in Payloads :
            (\E h \in Handlers : BankStart(h, f, s, p)) \/ BankStartAgain(f, s, p)
       \/ \E n \in Names :
            \/ IdVerify(f, n)
            \/ \E t \in twoWay : IdContinue(f, n, t)
            \/ \E id \in idProofs \cup {NoProof}, bank \in bankProofs \cup {NoProof},
                  screening \in {"CLEAR", "REVIEW", "BLOCK"} : Issue(f, n, id, bank, screening)
  \/ \E h \in Handlers : BankWork(h)
  \/ \E c \in held : BankVerify(c)
  \/ Redeploy
  \/ TimePasses

KycSpec == KycInit /\ [][KycNext]_kycVars
-----------------------------------------------------------------------------
\* What happened outside, in flow f and in the name n.
Confirmed(f, n, real) ==
  \E q \in idProofs : q.flow = f /\ q.name = n /\ q.authentic /\ (real => q.live)
Deposited(f, n, real) ==
  \E d \in deposits : /\ d.flow = f /\ HolderOf[d.account] = n /\ (real => d.live)
                      /\ \E p \in bankProofs : p.id = d.id

(***************************************************************************)
(* What an issued request says is backed by what happened outside.  The    *)
(* document bit: the real authority confirmed, in this very flow, a        *)
(* document in the declared name; the account bit: a deposit of this flow  *)
(* over real rails to an account held in that name, whose code was read    *)
(* back; the production regime: both; an assurance level: all that its     *)
(* band and every lower one ask for; a claim about a document or account   *)
(* holder: such a document or deposit, real or not.  It holds whatever     *)
(* tokens the browser puts together and whichever vendors are configured   *)
(* by then.                                                                *)
(***************************************************************************)
BitsAreEarned ==
  \A f \in Flows : entry[f] # NoEntry /\ entry[f].status = "ISSUED" =>
    LET e == entry[f] IN
    /\ "document_authenticity" \in e.methods => Confirmed(f, e.declared, TRUE)
    /\ "account_control" \in e.methods => Deposited(f, e.declared, TRUE)
    /\ e.production => {"document_authenticity", "account_control"} \subseteq e.methods
    /\ \A b \in Identity.assuranceBands : b.level <= e.assurance =>
         /\ "document_authenticity" \in b.required => Confirmed(f, e.declared, TRUE)
         /\ "account_control" \in b.required => Deposited(f, e.declared, TRUE)
    /\ "idDocHash" \in e.claims => Confirmed(f, e.declared, FALSE)
    /\ "accountHolder" \in e.claims => Deposited(f, e.declared, FALSE)
=============================================================================
