-------------------------- MODULE IssuanceDelivery -------------------------
(***************************************************************************)
(* advanceIssuance: web processes and the resume script carry a request    *)
(* from its preparation to the hub, through the journal, the gas budget,   *)
(* the evidence vault and the source chain.  Every await is a point where  *)
(* the others move, so an action runs from one await to the next.  A pass  *)
(* holds its own copy of the entry and may lose its lease, its answers or  *)
(* its process at any of them.                                             *)
(***************************************************************************)
EXTENDS IssuanceJournal, Sequences

CONSTANTS
  Web,            \* owners that are web processes; the others run resume-issuances
  GasLimits,      \* gas ceilings an estimate may give
  GasUsed,        \* what a mined transaction uses
  NoRecord,       \* the vault has no record
  DailyGas, DailyTransactions,    \* the budget's limits for one day
  Unreconciled,   \* what a reserved transaction used is not known yet
  MaxFaults       \* lost answers, failing calls, crashes, delays, reverts, forks,
                  \* new lists and compliance decisions together

VARIABLES
  ledger,         \* [day, gas, tx], the budget's ledger of the last day somebody reserved on
  reservation,    \* reservation[h]: [day, reserved, used], for the hashes with one
  pass,           \* pass[o]: the advanceIssuance call in progress
  vault,          \* vault[r]: the retained record of request r
  retained,       \* the vault's lock file was left behind
  chain,          \* the source chain, seen through the issuer's account
  left,           \* signed transactions that were handed to the network
  hub,            \* what became of the credential on the hub
  list,           \* the sanctions list in force
  late,           \* requests past prepareUntil
  faults

ASSUME DeliveryAssumption ==
  /\ Hashes \subseteq [req : Requests, nonce : Nat, gas : Nat]
  /\ GasUsed \in Nat

budgetVars   == <<ledger, reservation>>
passVars     == <<pass>>
evidenceVars == <<vault, retained>>
worldVars    == <<chain, left, hub, list, late>>
deliveryVars == <<journalVars, budgetVars, pass, evidenceVars, worldVars, faults>>

Vault == INSTANCE EvidenceVault WITH NoDeletion <- NoRecord

(***************************************************************************)
(* The issuer's daily gas budget: one ledger per UTC day and one           *)
(* reservation per signed transaction, each operation one Redis script.    *)
(* Amounts are in units of gas.                                            *)
(***************************************************************************)
BudgetInit ==
  /\ ledger = [day |-> 0, gas |-> 0, tx |-> 0]
  /\ reservation = [h \in {} |-> ledger]

Reserved(h) == h \in DOMAIN reservation

\* The ledger as the script reads it on this day.
Ledger(day) == IF ledger.day = day THEN ledger ELSE [day |-> day, gas |-> 0, tx |-> 0]

MayReserve(h, gas, day) ==
  \/ Reserved(h)
  \/ Ledger(day).gas + gas <= DailyGas /\ Ledger(day).tx + 1 <= DailyTransactions

Reserve(h, gas, day) ==
  /\ MayReserve(h, gas, day)
  /\ IF Reserved(h)
     THEN UNCHANGED budgetVars
     ELSE /\ ledger' = [Ledger(day) EXCEPT !.gas = @ + gas, !.tx = @ + 1]
          /\ reservation' = [k \in DOMAIN reservation \cup {h} |->
                IF k = h THEN [day |-> day, reserved |-> gas, used |-> Unreconciled]
                ELSE reservation[k]]

\* reconcile: the ledger is corrected only on the day of the reservation.
Reconcile(h, used, day) ==
  /\ Reserved(h)
  /\ used <= reservation[h].reserved
  /\ reservation[h].used \in {Unreconciled, used}
  /\ reservation' = [reservation EXCEPT ![h].used = used]
  /\ ledger' = IF reservation[h].used = Unreconciled /\ ledger.day = day /\ reservation[h].day = day
               THEN [ledger EXCEPT !.gas = @ - reservation[h].reserved + used] ELSE ledger

(***************************************************************************)
(* The passes.                                                             *)
(***************************************************************************)
Idle == [pc |-> "idle", req |-> NoRequest, entry |-> FreshEntry(FALSE, 0), then |-> "idle"]

DeliveryInit ==
  /\ JournalInit /\ BudgetInit
  /\ pass = [o \in Owners |-> Idle]
  /\ vault = [r \in Requests |-> NoRecord] /\ retained = FALSE
  /\ chain = [pool |-> {}, mined |-> << >>, final |-> 0]
  /\ left = {}
  /\ hub = [r \in Requests |-> "none"]
  /\ list = 0 /\ late = {}
  /\ faults = 0

Fault == faults < MaxFaults /\ faults' = faults + 1
NoFault == UNCHANGED faults

(***************************************************************************)
(* The source chain and the hub.                                           *)
(***************************************************************************)
Mined == {chain.mined[i] : i \in 1 .. Len(chain.mined)}
Final == {chain.mined[i] : i \in 1 .. chain.final}

Processed(r) == \E m \in Mined : m.ok /\ m.tx.req = r

\* getTransactionCount("pending")
PendingNonce ==
  CHOOSE n \in Len(chain.mined) .. Len(chain.mined) + Cardinality(chain.pool) :
    /\ \A t \in chain.pool : t.nonce # n
    /\ \A k \in Len(chain.mined) .. n - 1 : \E t \in chain.pool : t.nonce = k

\* The node keeps a transaction whose nonce is neither used nor taken.
Pooled(t) ==
  IF t.nonce >= Len(chain.mined) /\ \A u \in chain.pool : u.nonce # t.nonce
  THEN [chain EXCEPT !.pool = @ \cup {t}] ELSE chain

ChainFrame == UNCHANGED <<journalVars, budgetVars, pass, evidenceVars, left, list, late>>

\* issueOnce succeeds once per request; it may revert for other reasons.
Mine ==
  /\ \E t \in chain.pool, ok \in BOOLEAN :
       /\ t.nonce = Len(chain.mined)
       /\ ok => ~Processed(t.req)
       /\ IF ok \/ Processed(t.req) THEN NoFault ELSE Fault
       /\ chain' = [chain EXCEPT !.pool = @ \ {t}, !.mined = Append(@, [tx |-> t, ok |-> ok])]
  /\ UNCHANGED hub /\ ChainFrame

\* A block reaches the configured number of confirmations; it is not reverted after that.
Finalise ==
  /\ chain.final < Len(chain.mined)
  /\ chain' = [chain EXCEPT !.final = @ + 1]
  /\ UNCHANGED <<hub, faults>> /\ ChainFrame

\* A fork takes the newest unconfirmed block back; the node may forget its transaction.
Fork ==
  /\ Fault
  /\ chain.final < Len(chain.mined)
  /\ LET t == chain.mined[Len(chain.mined)].tx IN
       \E pool \in {chain.pool, chain.pool \cup {t}} :
         chain' = [chain EXCEPT !.mined = SubSeq(@, 1, Len(@) - 1), !.pool = pool]
  /\ UNCHANGED hub /\ ChainFrame

\* The worker relays the confirmed event; a later event of the subject replaces it.
HubApplies(r) ==
  /\ hub[r] = "none"
  /\ \E m \in Final : m.ok /\ m.tx.req = r
  /\ hub' = [hub EXCEPT ![r] = "applied"]
  /\ UNCHANGED <<chain, faults>> /\ ChainFrame

HubSupersedes(r) ==
  /\ hub[r] = "applied" /\ Fault
  /\ hub' = [hub EXCEPT ![r] = "superseded"]
  /\ UNCHANGED chain /\ ChainFrame

(***************************************************************************)
(* How a pass moves on, fails and ends.                                    *)
(***************************************************************************)
At(o, pc) == pass[o].pc = pc

\* A pass on its way out has no more use for its copy of the entry.
Goto(o, pc) ==
  pass' = [pass EXCEPT ![o].pc = pc, ![o].then = "idle",
                       ![o].entry = IF pc \in {"error", "release"} THEN Idle.entry ELSE @]

\* The entry was changed in memory and is saved next.
SaveThen(o, e, pc) == pass' = [pass EXCEPT ![o].pc = "save", ![o].entry = e, ![o].then = pc]

Failed(e, reverted) == [e EXCEPT !.phase = "failed", !.reverted = reverted]

OnlyPass == UNCHANGED <<journalVars, budgetVars, evidenceVars, worldVars>>

\* A dependency is unavailable or refuses: the pass goes to its catch block.
Unavailable(o) == Fault /\ Goto(o, "error") /\ OnlyPass

\* EvidenceVault.mutate: done, or the write's outcome is unknown and the lock file stays,
\* or the lock file of an earlier one is in the way.
VaultWrite(o, r, rec, e, pc, saved) ==
  \/ /\ ~retained
     /\ vault' = [vault EXCEPT ![r] = rec]
     /\ IF saved THEN SaveThen(o, e, pc) ELSE Goto(o, pc)
     /\ UNCHANGED retained /\ NoFault
  \/ /\ ~retained /\ Fault
     /\ vault' \in {vault, [vault EXCEPT ![r] = rec]}
     /\ retained' = TRUE /\ Goto(o, "error")
  \/ /\ retained /\ Goto(o, "error")
     /\ UNCHANGED <<vault, retained, faults>>

VaultFrame == UNCHANGED <<journalVars, budgetVars, worldVars>>

\* A call to the journal whose answer never came: it was carried out or it was not.
LostJournalCall(call) == Fault /\ (call \/ UNCHANGED journalVars)

\* journal.save: stored; refused; or its answer is lost.
SaveEntry(o) ==
  /\ At(o, "save")
  /\ LET r == pass[o].req e == pass[o].entry IN
     \/ Save(o, r, e) /\ Goto(o, pass[o].then) /\ NoFault
     \/ ~MaySave(o, r, e) /\ Goto(o, "release") /\ UNCHANGED <<journalVars, faults>>
     \/ LostJournalCall(Save(o, r, e)) /\ Goto(o, "release")
  /\ UNCHANGED <<budgetVars, evidenceVars, worldVars>>

\* The catch block records a failed dependency on the stored entry, if it is still the pass's own.
Catch(o) ==
  /\ At(o, "error")
  /\ LET r == pass[o].req IN
       IF Leased(o, r) /\ slot[r].entry.phase # "failed" /\ MaySave(o, r, slot[r].entry)
       THEN Save(o, r, slot[r].entry) ELSE UNCHANGED journalVars
  /\ Goto(o, "release") /\ NoFault
  /\ UNCHANGED <<budgetVars, evidenceVars, worldVars>>

\* The finally block; a lost release leaves the lease to lapse.
Leave(o) ==
  /\ At(o, "release")
  /\ \/ Release(o, pass[o].req) /\ NoFault
     \/ Fault /\ UNCHANGED journalVars
  /\ pass' = [pass EXCEPT ![o] = Idle]
  /\ UNCHANGED <<budgetVars, evidenceVars, worldVars>>

Crash(o) ==
  /\ ~At(o, "idle") /\ Fault
  /\ pass' = [pass EXCEPT ![o] = Idle]
  /\ OnlyPass

(***************************************************************************)
(* advanceIssuance, from one await to the next.                            *)
(***************************************************************************)
\* handleIssuanceRequest creates the entry and resumes it.
Prepare(r, issued) ==
  /\ ~Exists(r)
  /\ Create(r, issued, list)
  /\ late' = late \ {r}
  /\ UNCHANGED <<budgetVars, pass, evidenceVars, chain, left, hub, list, faults>>

\* A web process takes the request it was sent; the resume script takes the pending
\* ones and retries none.
MayBegin(o, r, retry) == o \in Web \/ (r \in PendingRequests /\ ~retry)

\* journal.acquire and what runs before the first call.  A failed request that is
\* not retried is only handed back.
Begin(o, r, retry) ==
  /\ At(o, "idle")
  /\ MayBegin(o, r, retry)
  /\ Acquire(o, r)
  /\ slot[r].entry.phase = "failed" <=> retry /\ slot[r].entry.reverted
  /\ LET e == slot[r].entry
         expired == e.phase = "prepared" /\ e.tx = NoTx /\ e.issued /\ r \in late
     IN pass' = [pass EXCEPT ![o] =
          [req |-> r,
           pc |-> IF expired THEN "save"
                  ELSE IF ~e.stored THEN "put" ELSE IF e.issued THEN "target" ELSE "reject",
           entry |-> IF expired THEN Failed(e, FALSE) ELSE e,
           then |-> IF expired THEN "release" ELSE "idle"]]
  /\ UNCHANGED <<budgetVars, evidenceVars, worldVars, faults>>

\* evidence.put keeps the record it finds.
PutEvidence(o) ==
  /\ At(o, "put")
  /\ LET r == pass[o].req e == pass[o].entry IN
       \E outcome \in IF e.issued THEN {"ISSUED"} ELSE {"REVIEW", "DENIED", "ERROR"} :
         VaultWrite(o, r,
           IF vault[r] # NoRecord THEN vault[r]
           ELSE [state |-> Vault!PutState(outcome), src |-> NoTx, hub |-> FALSE],
           [e EXCEPT !.stored = TRUE], IF e.issued THEN "target" ELSE "reject", TRUE)
  /\ VaultFrame

RejectOutcome(o) ==
  /\ At(o, "reject")
  /\ SaveThen(o, Failed(pass[o].entry, FALSE), "release")
  /\ NoFault /\ OnlyPass

\* assertTarget reads what nothing here changes, so it is one step with the call
\* after it.  An explicit retry of a reverted request starts over; nothing is signed
\* after prepareUntil, nor for a request the source has consumed.
CheckTarget(o) ==
  /\ At(o, "target")
  /\ LET r == pass[o].req e == pass[o].entry IN
     \/ /\ e.phase = "failed"
        /\ SaveThen(o, [e EXCEPT !.past = @ \cup {e.tx}, !.tx = NoTx, !.phase = "prepared", !.reverted = FALSE],
                    "target")
        /\ NoFault /\ OnlyPass
     \/ e.phase # "failed" /\ e.tx # NoTx /\ Goto(o, "reserve") /\ NoFault /\ OnlyPass
     \/ /\ e.phase # "failed" /\ e.tx = NoTx /\ (r \in late \/ Processed(r))
        /\ SaveThen(o, Failed(e, FALSE), "release") /\ NoFault /\ OnlyPass
     \/ /\ e.phase # "failed" /\ e.tx = NoTx /\ r \notin late /\ ~Processed(r)
        /\ Goto(o, "fence-sign") /\ NoFault /\ OnlyPass
     \/ Unavailable(o)

\* assertMayBroadcast: the web process also insists on the screening list of the outcome.
ScreeningCurrent(o) == o \in Web => pass[o].entry.list = list

MayBroadcast(o) ==
  /\ ScreeningCurrent(o)
  /\ vault[pass[o].req] # NoRecord
  /\ vault[pass[o].req].state \in {"pending", "active"}

Fence(o) ==
  /\ pass[o].pc \in {"fence-sign", "fence-submit", "fence-send"}
  /\ \/ ScreeningCurrent(o) /\ retained /\ Goto(o, "error")
     \/ ~MayBroadcast(o) /\ (retained => ~ScreeningCurrent(o)) /\ Goto(o, "release")
     \/ /\ MayBroadcast(o) /\ ~retained
        /\ \/ At(o, "fence-sign") /\ Goto(o, "sign")
           \/ At(o, "fence-submit")
              /\ SaveThen(o, [pass[o].entry EXCEPT !.phase = "submitted"], "fence-send")
           \/ At(o, "fence-send") /\ Goto(o, "broadcast")
  /\ NoFault /\ OnlyPass

\* prepare: read the pending nonce, estimate, sign.
Sign(o) ==
  /\ At(o, "sign")
  /\ \/ \E gas \in GasLimits :
          LET t == [req |-> pass[o].req, nonce |-> PendingNonce, gas |-> gas] IN
            /\ t \in Hashes
            /\ pass' = [pass EXCEPT ![o].pc = "reserve-new", ![o].entry.tx = t]
            /\ NoFault /\ OnlyPass
     \/ Unavailable(o)

\* The same for the budget.
LostBudgetCall(call) == Fault /\ (call \/ UNCHANGED budgetVars)

\* budget.reserve for new bytes, or again for known ones; its errors end the pass.
ReserveGas(o) ==
  /\ pass[o].pc \in {"reserve-new", "reserve"}
  /\ LET t == pass[o].entry.tx IN
     \/ /\ Reserve(t, t.gas, tick) /\ NoFault
        /\ IF At(o, "reserve") THEN Goto(o, "receipt") ELSE SaveThen(o, pass[o].entry, "receipt")
     \/ ~MayReserve(t, t.gas, tick) /\ UNCHANGED budgetVars /\ NoFault /\ Goto(o, "release")
     \/ LostBudgetCall(Reserve(t, t.gas, tick)) /\ Goto(o, "release")
  /\ UNCHANGED <<journalVars, evidenceVars, worldVars>>

Confirmed(t) == \E m \in Final : m.tx = t

\* receipt; a lagging node may not know a confirmed transaction yet.
ReadReceipt(o) ==
  /\ pass[o].pc \in {"receipt", "receipt-again"}
  /\ LET t == pass[o].entry.tx
         pending == IF At(o, "receipt") THEN "fence-submit" ELSE "release"
     IN \/ Confirmed(t) /\ Goto(o, "reconcile") /\ NoFault /\ OnlyPass
        \/ ~Confirmed(t) /\ Goto(o, pending) /\ NoFault /\ OnlyPass
        \/ Confirmed(t) /\ Fault /\ Goto(o, pending) /\ OnlyPass
        \/ Unavailable(o)

\* Whether the node took the bytes is not known to the pass either way.
Broadcast(o) ==
  /\ At(o, "broadcast")
  /\ LET t == pass[o].entry.tx IN
       /\ left' = left \cup {t}
       /\ \/ chain' = Pooled(t) /\ NoFault
          \/ Fault /\ UNCHANGED chain
  /\ SaveThen(o, pass[o].entry, "receipt-again")
  /\ UNCHANGED <<journalVars, budgetVars, evidenceVars, hub, list, late>>

ReconcileGas(o) ==
  /\ At(o, "reconcile")
  /\ LET t == pass[o].entry.tx IN
     \/ /\ Reconcile(t, GasUsed, tick) /\ NoFault
        /\ IF \E m \in Final : m.tx = t /\ m.ok THEN Goto(o, "confirm")
           ELSE SaveThen(o, Failed(pass[o].entry, TRUE), "release")
     \/ ~Reserved(t) /\ UNCHANGED budgetVars /\ NoFault /\ Goto(o, "release")
     \/ LostBudgetCall(Reconcile(t, GasUsed, tick)) /\ Goto(o, "release")
  /\ UNCHANGED <<journalVars, evidenceVars, worldVars>>

\* evidence.sourceConfirmed, and then the phase that gives the gate back.
ConfirmSource(o) ==
  /\ At(o, "confirm")
  /\ LET r == pass[o].req e == pass[o].entry done == e.phase = "materialized" IN
       IF vault[r] # NoRecord /\ Vault!MayObserveSource(vault[r], e.tx)
       THEN VaultWrite(o, r, Vault!SourceObserved(vault[r], e.tx),
              [e EXCEPT !.phase = "source-confirmed"], IF done THEN "activate" ELSE "hub", ~done)
       ELSE Goto(o, "error") /\ UNCHANGED <<vault, retained, faults>>
  /\ VaultFrame

ReadHub(o) ==
  /\ At(o, "hub")
  /\ \/ Goto(o, IF hub[pass[o].req] = "applied" THEN "activate" ELSE "release") /\ NoFault /\ OnlyPass
     \/ Unavailable(o)

\* evidence.materialized before the terminal phase is saved.
ActivateEvidence(o) ==
  /\ At(o, "activate")
  /\ LET r == pass[o].req e == pass[o].entry IN
       IF vault[r] # NoRecord
       THEN VaultWrite(o, r, Vault!HubObserved(vault[r]), [e EXCEPT !.phase = "materialized"],
                       "release", e.phase # "materialized")
       ELSE Goto(o, "error") /\ UNCHANGED <<vault, retained, faults>>
  /\ VaultFrame

(***************************************************************************)
(* What happens around the passes.                                         *)
(***************************************************************************)
\* A rescreen or a review decides about a retained record.
Decide(r) ==
  /\ Fault
  /\ vault[r] # NoRecord /\ vault[r].state \in {"pending", "active", "review"} /\ ~retained
  /\ \E state \in {Vault!Cleared(vault[r]), "review", "blocked"} :
       vault' = [vault EXCEPT ![r].state = state]
  /\ UNCHANGED <<journalVars, budgetVars, pass, retained, worldVars>>

\* The operator establishes that the writer is dead and removes its lock file.
ClearLock ==
  /\ retained /\ retained' = FALSE
  /\ UNCHANGED <<journalVars, budgetVars, pass, vault, worldVars, faults>>

\* A lease outlives its pass, unless a fault slows the pass down.
Lapse(r) ==
  /\ LeaseLapses(r)
  /\ IF pass[slot[r].owner].req = r THEN Fault ELSE NoFault
  /\ UNCHANGED <<budgetVars, pass, evidenceVars, worldVars>>

\* prepareUntil is read for entries without a signature only.
Unsigned(r) == Exists(r) /\ slot[r].entry.phase = "prepared" /\ slot[r].entry.tx = NoTx

PastPrepareUntil(r) ==
  /\ Unsigned(r) /\ r \notin late /\ Fault
  /\ late' = late \cup {r}
  /\ UNCHANGED <<journalVars, budgetVars, pass, evidenceVars, chain, left, hub, list>>

\* No pass takes that long: its calls time out after seconds.
Midnight ==
  /\ \A o \in Owners : At(o, "idle")
  /\ JournalTick
  /\ late' = {r \in Requests : Unsigned(r)}
  /\ UNCHANGED <<budgetVars, pass, evidenceVars, chain, left, hub, list, faults>>

NewList ==
  /\ Fault /\ list' = list + 1
  /\ UNCHANGED <<journalVars, budgetVars, pass, evidenceVars, chain, left, hub, late>>

PassStep(o) ==
  \/ SaveEntry(o) \/ Catch(o) \/ Leave(o) \/ PutEvidence(o) \/ RejectOutcome(o)
  \/ CheckTarget(o) \/ Fence(o) \/ Sign(o) \/ ReserveGas(o)
  \/ ReadReceipt(o) \/ Broadcast(o) \/ ReconcileGas(o) \/ ConfirmSource(o) \/ ReadHub(o)
  \/ ActivateEvidence(o)

DeliveryNext ==
  \/ \E o \in Owners : PassStep(o) \/ Crash(o)
  \/ \E o \in Owners, r \in Requests, retry \in BOOLEAN : Begin(o, r, retry)
  \/ \E r \in Requests, issued \in BOOLEAN : Prepare(r, issued)
  \/ \E r \in Requests : Lapse(r) \/ PastPrepareUntil(r) \/ Decide(r) \/ HubApplies(r) \/ HubSupersedes(r)
  \/ Mine \/ Finalise \/ Fork \/ ClearLock \/ Midnight \/ NewList

\* The resume script is run again and again and tries every pending request;
\* a running pass goes on; blocks are mined, confirmed and relayed; leases
\* lapse and days pass by themselves; the operator removes a dead lock.
DeliveryFairness ==
  /\ \A o \in Owners : WF_deliveryVars(PassStep(o))
  /\ \A r \in Requests : SF_deliveryVars(\E o \in Owners \ Web : Begin(o, r, FALSE))
  /\ \A r \in Requests : WF_deliveryVars(Lapse(r)) /\ WF_deliveryVars(HubApplies(r))
  /\ WF_deliveryVars(Mine) /\ WF_deliveryVars(Finalise)
  /\ WF_deliveryVars(ClearLock) /\ WF_deliveryVars(Midnight)

DeliverySpec == DeliveryInit /\ [][DeliveryNext]_deliveryVars
FairDelivery == DeliverySpec /\ DeliveryFairness

(***************************************************************************)
(* Properties.                                                             *)
(***************************************************************************)
\* Types of the delivery's state.
DeliveryTypeOK ==
  /\ JournalTypeOK
  /\ left \subseteq Hashes /\ chain.pool \subseteq Hashes /\ chain.final \in 0 .. Len(chain.mined)
  /\ \A r \in Requests : vault[r] # NoRecord => vault[r].state \in Vault!VaultStates
  /\ \A o \in Owners : pass[o].entry \in Entries

\* Two transactions that left for the network never share the issuer's nonce:
\* whatever crashes, lapses or is retried, no issuance replaces another one
\* (issuance-delivery.ts, the durable save before the broadcast).
OneNonceOneTransaction ==
  \A t, u \in left : t.nonce = u.nonce => t = u

\* A transaction that left and is not confirmed is the one its journal entry
\* names, with a budget reservation, and its request holds the signer gate: a
\* later pass finds the same bytes instead of signing new ones.
UnresolvedIsHeld ==
  \A t \in left : ~Confirmed(t) =>
    /\ Reserved(t)
    /\ Exists(t.req) /\ slot[t.req].entry.tx = t
    /\ gate = t.req

\* The callbacks of an issuance never undo a compliance decision, however late
\* they arrive (vault.ts, recordSourceConfirmation and recordMaterialization).
DecisionStands ==
  [][pass' # pass =>
       \A r \in Requests : vault[r] # NoRecord /\ vault[r].state \in {"review", "blocked", "rejected"}
                             => vault'[r].state = vault[r].state]_deliveryVars

\* The gate's holder has signed bytes that its evidence no longer lets it send.
Withheld ==
  /\ gate # NoRequest
  /\ vault[gate] # NoRecord /\ vault[gate].state \notin {"pending", "active"}

\* Every request the journal took settles, or its credential was replaced on
\* the hub, or the gate stays with a request whose evidence was withdrawn.
RequestsSettle ==
  \A r \in Requests :
    Exists(r) ~> \/ ~Exists(r) \/ Terminal(slot[r].entry)
                 \/ hub[r] = "superseded" \/ Withheld
=============================================================================
