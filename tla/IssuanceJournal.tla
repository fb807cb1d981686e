-------------------------- MODULE IssuanceJournal --------------------------
(***************************************************************************)
(* The issuance journal: one encrypted Redis entry per request, a lease on *)
(* it, and one signer gate for the issuer's account.  Every operation is   *)
(* one Redis script, so it is one step here.  A lease lapses by itself     *)
(* after 30 seconds and a settled entry a day after it settled; the gate   *)
(* has no expiry.                                                          *)
(***************************************************************************)
EXTENDS Integers, FiniteSets

CONSTANTS
  Requests,      \* request identifiers
  Owners,        \* one lease owner per process that advances requests
  Hashes,        \* signed transactions
  NoTx, NoOwner, NoRequest, NoSlot,
  Never,         \* no deadline
  MaxTick        \* days on the Redis clock

ASSUME JournalAssumption ==
  /\ NoTx \notin Hashes /\ NoOwner \notin Owners /\ NoRequest \notin Requests
  /\ Never \notin Nat /\ MaxTick \in Nat

VARIABLES
  slot,   \* slot[r]: the stored hash of request r
  gate,   \* the request that may use the issuer's nonce
  tick    \* Redis TIME

journalVars == <<slot, gate, tick>>

Phases == {"prepared", "submitted", "source-confirmed", "materialized", "failed"}

\* The entry's fields that decide what happens to it.
Entries ==
  [phase : Phases,
   issued : BOOLEAN,            \* the outcome is ISSUED
   stored : BOOLEAN,            \* evidenceStored
   tx : Hashes \cup {NoTx},
   past : SUBSET Hashes,        \* revertedTransactions
   reverted : BOOLEAN,          \* lastError is SOURCE_REVERTED
   list : Nat]                  \* the screening snapshot of the outcome

Slots ==
  [entry : Entries,
   owner : Owners \cup {NoOwner},   \* who has an unexpired lease
   until : Nat \cup {Never}]        \* terminalExpiresAt

\* No entry is no slot.
ASSUME NoSlotAssumption == NoSlot \notin Slots

NeedsSigner(e) == e.issued /\ e.phase \in {"prepared", "submitted"}

Terminal(e) == e.phase \in {"failed", "materialized"}

JournalTypeOK ==
  /\ slot \in [Requests -> Slots \cup {NoSlot}]
  /\ gate \in Requests \cup {NoRequest}
  /\ tick \in 0 .. MaxTick

JournalInit ==
  /\ slot = [r \in Requests |-> NoSlot]
  /\ gate = NoRequest
  /\ tick = 0

Exists(r) == slot[r] # NoSlot

\* A terminal entry lives for 24 hours: two midnights do not find it.
TerminalDeadline(r) == IF slot[r].until # Never THEN slot[r].until ELSE tick + 2

Retain(r, e) == IF Terminal(e) THEN TerminalDeadline(r) ELSE Never

FreshEntry(issued, list) ==
  [phase |-> "prepared", issued |-> issued, stored |-> FALSE, tx |-> NoTx, past |-> {}, reverted |-> FALSE, list |-> list]

\* create: an existing entry is returned as it is.
Create(r, issued, list) ==
  /\ slot' = IF Exists(r) THEN slot
             ELSE [slot EXCEPT ![r] = [entry |-> FreshEntry(issued, list), owner |-> NoOwner,
                                       until |-> Never]]
  /\ UNCHANGED <<gate, tick>>

GateOpen(r) == gate \in {NoRequest, r}

\* Faulty variant: the gate is not consulted.
AcquireAnyGate(r) == Exists(r) /\ slot[r].owner = NoOwner

\* acquire answers neither NOT_FOUND, REQUEST_BUSY nor SIGNER_BUSY.
MayAcquire(r) ==
  /\ Exists(r)
  /\ slot[r].owner = NoOwner
  /\ NeedsSigner(slot[r].entry) => GateOpen(r)

Acquire(o, r) ==
  /\ MayAcquire(r)
  /\ gate' = IF NeedsSigner(slot[r].entry) THEN r ELSE gate
  /\ slot' = [slot EXCEPT ![r].owner = o]
  /\ UNCHANGED tick

Leased(o, r) == Exists(r) /\ slot[r].owner = o

\* Faulty variant: a save takes the gate from whoever holds it.
SaveAnyGate(o, r, e) == Leased(o, r)

\* save answers neither LEASE_LOST nor SIGNER_BUSY.  The revision of a leased
\* entry is the owner's own: nobody else can save it.
MaySave(o, r, e) == Leased(o, r) /\ (NeedsSigner(e) => GateOpen(r))

Save(o, r, e) ==
  /\ MaySave(o, r, e)
  /\ slot' = [slot EXCEPT ![r] = [entry |-> e, owner |-> o, until |-> Retain(r, e)]]
  /\ gate' = IF NeedsSigner(e) THEN r ELSE IF gate = r THEN NoRequest ELSE gate
  /\ UNCHANGED tick

Release(o, r) ==
  /\ slot' = IF Exists(r) /\ slot[r].owner = o
             THEN [slot EXCEPT ![r].owner = NoOwner] ELSE slot
  /\ UNCHANGED <<gate, tick>>

\* 30 seconds without a save.
LeaseLapses(r) ==
  /\ Exists(r) /\ slot[r].owner # NoOwner
  /\ slot' = [slot EXCEPT ![r].owner = NoOwner]
  /\ UNCHANGED <<gate, tick>>

\* Midnight: leases lapse, settled entries expire.
JournalTick ==
  /\ tick < MaxTick
  /\ tick' = tick + 1
  /\ slot' = [r \in Requests |->
                IF Exists(r) /\ slot[r].until # Never /\ slot[r].until <= tick + 1 THEN NoSlot
                ELSE IF Exists(r) THEN [slot[r] EXCEPT !.owner = NoOwner] ELSE NoSlot]
  /\ UNCHANGED gate

\* Faulty variant: only requests that were never submitted are resumed.
PendingUnsubmitted == {r \in Requests : Exists(r) /\ slot[r].entry.phase = "prepared"}

\* pending: what a resume run works through.
PendingRequests == {r \in Requests : Exists(r) /\ (~Terminal(slot[r].entry) \/ gate = r)}

\* Any client that saves what it likes.
JournalNext ==
  \/ \E r \in Requests, i \in BOOLEAN, l \in Nat : Create(r, i, l)
  \/ \E o \in Owners, r \in Requests :
       Acquire(o, r) \/ Release(o, r) \/ \E e \in Entries : Save(o, r, e)
  \/ \E r \in Requests : LeaseLapses(r)
  \/ JournalTick

JournalSpec == JournalInit /\ [][JournalNext]_journalVars

\* An entry whose signed transaction is not resolved holds the signer gate:
\* while its nonce is open no other request can take one.  And the gate, which
\* never expires, is never left with a request that has no use for it
\* (issuance-journal.ts, the gate in the acquire and save scripts).
SignedHoldsGate ==
  /\ \A r \in Requests :
       Exists(r) /\ NeedsSigner(slot[r].entry) /\ slot[r].entry.tx # NoTx => gate = r
  /\ gate # NoRequest => Exists(gate) /\ NeedsSigner(slot[gate].entry)
=============================================================================
