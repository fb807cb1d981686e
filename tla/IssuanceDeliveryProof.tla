----------------------- MODULE IssuanceDeliveryProof -----------------------
(***************************************************************************)
(* The delivery of issuances uses the journal as the journal expects, and  *)
(* never gives one nonce to two transactions: for any number of requests,  *)
(* web processes and resume runs, and any number of faults.                *)
(***************************************************************************)
EXTENDS IssuanceDelivery, TLAPS, SequenceTheorems, FiniteSetTheorems

(***************************************************************************)
(* The journal alone: one signer at a time, whatever its clients save.     *)
(***************************************************************************)
\* While somebody has the lease of an entry that may still sign, its request
\* holds the gate.
LeaseHoldsGate ==
  \A r \in Requests :
    Exists(r) /\ NeedsSigner(slot[r].entry) /\ slot[r].owner # NoOwner => gate = r

\* Only a settled entry has a deadline.
OnlySettledExpire ==
  \A r \in Requests : Exists(r) /\ slot[r].until # Never => Terminal(slot[r].entry)

JournalInv == JournalTypeOK /\ SignedHoldsGate /\ LeaseHoldsGate /\ OnlySettledExpire

\* What replacing the slot of one request does to the others: nothing.
LEMMA OneSlot ==
  ASSUME JournalTypeOK, NEW r \in Requests, NEW x \in Slots, slot' = [slot EXCEPT ![r] = x]
  PROVE  /\ slot' \in [Requests -> Slots \cup {NoSlot}]
         /\ slot'[r] = x /\ slot'[r] # NoSlot
         /\ \A q \in Requests : q # r => slot'[q] = slot[q]
BY NoSlotAssumption DEF JournalTypeOK

LEMMA CreateKeeps ==
  ASSUME JournalInv, NEW r \in Requests, NEW i \in BOOLEAN, NEW l \in Nat, Create(r, i, l)
  PROVE  JournalInv'
<1> DEFINE x == [entry |-> FreshEntry(i, l), owner |-> NoOwner, until |-> Never]
<1>1. CASE Exists(r)
  BY <1>1 DEF Create, JournalInv, JournalTypeOK, SignedHoldsGate, LeaseHoldsGate,
              OnlySettledExpire, Exists
<1>2. CASE ~Exists(r)
  <2>1. FreshEntry(i, l) \in Entries
    BY DEF FreshEntry, Entries, Phases
  <2>2. x \in Slots
    BY <2>1 DEF Slots
  <2>3. slot' = [slot EXCEPT ![r] = x] /\ UNCHANGED <<gate, tick>>
    BY <1>2 DEF Create
  <2>4. x.entry.tx = NoTx /\ x.owner = NoOwner /\ x.until = Never
    BY DEF FreshEntry
  <2> HIDE DEF x
  <2>5. /\ slot' \in [Requests -> Slots \cup {NoSlot}] /\ slot'[r] = x
        /\ \A q \in Requests : q # r => slot'[q] = slot[q]
    BY <2>2, <2>3, OneSlot DEF JournalInv
  <2>6. gate # r
    BY <1>2, JournalAssumption DEF JournalInv, SignedHoldsGate, Exists
  <2> QED
    BY <1>2, <2>3, <2>4, <2>5, <2>6
       DEF JournalInv, JournalTypeOK, SignedHoldsGate, LeaseHoldsGate, OnlySettledExpire, Exists
<1> QED
  BY <1>1, <1>2

\* Changing the owner of an entry, with the gate taken for it or not needed.
LEMMA OwnerKeeps ==
  ASSUME JournalInv, NEW r \in Requests, Exists(r), NEW o \in Owners \cup {NoOwner},
         slot' = [slot EXCEPT ![r].owner = o], UNCHANGED tick,
         \/ UNCHANGED gate /\ (o = NoOwner \/ ~NeedsSigner(slot[r].entry))
         \/ gate' = r /\ GateOpen(r) /\ NeedsSigner(slot[r].entry)
  PROVE  /\ JournalInv'
         /\ slot'[r].entry = slot[r].entry /\ slot'[r].owner = o
         /\ \A q \in Requests : q # r => slot'[q] = slot[q]
<1> DEFINE x == [slot[r] EXCEPT !.owner = o]
<1>1. slot[r] \in Slots
  BY DEF JournalInv, JournalTypeOK, Exists
<1>2. x \in Slots /\ x.entry = slot[r].entry /\ x.until = slot[r].until /\ x.owner = o
  BY <1>1 DEF Slots
<1>3. slot' = [slot EXCEPT ![r] = x]
  OBVIOUS
<1> HIDE DEF x
<1>4. /\ slot' \in [Requests -> Slots \cup {NoSlot}] /\ slot'[r] = x /\ slot'[r] # NoSlot
      /\ \A q \in Requests : q # r => slot'[q] = slot[q]
  BY <1>2, <1>3, OneSlot DEF JournalInv
<1>5. gate' \in {gate, r} /\ (gate' # gate => gate = NoRequest /\ gate' = r)
  BY DEF GateOpen
<1>6. JournalTypeOK'
  BY <1>4, <1>5 DEF JournalInv, JournalTypeOK
<1>7. SignedHoldsGate'
  <2>1. ASSUME NEW q \in Requests, slot'[q] # NoSlot, NeedsSigner(slot'[q].entry),
               slot'[q].entry.tx # NoTx
        PROVE  gate' = q
    BY <1>2, <1>4, <1>5, <2>1, JournalAssumption DEF JournalInv, SignedHoldsGate, Exists
  <2>2. ASSUME gate' # NoRequest
        PROVE  slot'[gate'] # NoSlot /\ NeedsSigner(slot'[gate'].entry)
    BY <1>2, <1>4, <1>5, <2>2 DEF JournalInv, JournalTypeOK, SignedHoldsGate, Exists
  <2> QED
    BY <2>1, <2>2 DEF SignedHoldsGate, Exists, NeedsSigner
<1>8. LeaseHoldsGate'
  <2>1. ASSUME NEW q \in Requests, slot'[q] # NoSlot, NeedsSigner(slot'[q].entry),
               slot'[q].owner # NoOwner
        PROVE  gate' = q
    BY <1>2, <1>4, <1>5, <2>1, JournalAssumption DEF JournalInv, LeaseHoldsGate, Exists
  <2> QED
    BY <2>1 DEF LeaseHoldsGate, Exists, NeedsSigner
<1>9. OnlySettledExpire'
  BY <1>2, <1>4 DEF JournalInv, OnlySettledExpire, Exists
<1>10. JournalInv'
  BY <1>6, <1>7, <1>8, <1>9 DEF JournalInv
<1> QED
  BY <1>2, <1>4, <1>10

LEMMA AcquireKeeps ==
  ASSUME JournalInv, NEW o \in Owners, NEW r \in Requests, Acquire(o, r)
  PROVE  JournalInv'
BY OwnerKeeps DEF Acquire, MayAcquire

LEMMA ReleaseKeeps ==
  ASSUME JournalInv, NEW o \in Owners, NEW r \in Requests, Release(o, r)
  PROVE  JournalInv'
<1>1. CASE Exists(r) /\ slot[r].owner = o
  BY <1>1, OwnerKeeps DEF Release
<1>2. CASE UNCHANGED <<slot, gate, tick>>
  BY <1>2 DEF JournalInv, JournalTypeOK, SignedHoldsGate, LeaseHoldsGate, OnlySettledExpire,
              Exists
<1> QED
  BY <1>1, <1>2 DEF Release

LEMMA LapseKeeps ==
  ASSUME JournalInv, NEW r \in Requests, LeaseLapses(r)
  PROVE  JournalInv'
BY OwnerKeeps DEF LeaseLapses

\* A save keeps the gate with a request that may still sign and gives it back
\* from one that may not.
LEMMA SaveKeeps ==
  ASSUME JournalInv, NEW o \in Owners, NEW r \in Requests, NEW e \in Entries, Save(o, r, e)
  PROVE  /\ JournalInv'
         /\ slot'[r] # NoSlot /\ slot'[r].entry = e /\ slot'[r].owner = o
         /\ \A q \in Requests : q # r => slot'[q] = slot[q]
<1> DEFINE x == [entry |-> e, owner |-> o, until |-> Retain(r, e)]
<1>1. slot[r] \in Slots
  BY DEF Save, MaySave, Leased, Exists, JournalInv, JournalTypeOK
<1>2. Retain(r, e) \in Nat \cup {Never} /\ (Retain(r, e) # Never => Terminal(e))
  <2>1. slot[r].until \in Nat \cup {Never} /\ tick + 2 \in Nat
    BY <1>1, JournalAssumption DEF Slots, JournalInv, JournalTypeOK
  <2> QED
    BY <2>1 DEF Retain, TerminalDeadline
<1>3. x \in Slots /\ x.entry = e /\ x.owner = o /\ x.until = Retain(r, e)
  BY <1>2 DEF Slots
<1>4. slot' = [slot EXCEPT ![r] = x] /\ tick' = tick
  BY DEF Save
<1> HIDE DEF x
<1>5. /\ slot' \in [Requests -> Slots \cup {NoSlot}] /\ slot'[r] = x /\ slot'[r] # NoSlot
      /\ \A q \in Requests : q # r => slot'[q] = slot[q]
  BY <1>3, <1>4, OneSlot DEF JournalInv
<1>6. gate' = IF NeedsSigner(e) THEN r ELSE IF gate = r THEN NoRequest ELSE gate
  BY DEF Save
<1>7. NeedsSigner(e) => gate \in {NoRequest, r}
  BY DEF Save, MaySave, GateOpen
<1>8. JournalTypeOK'
  BY <1>4, <1>5, <1>6 DEF JournalInv, JournalTypeOK
<1>9. SignedHoldsGate'
  <2>1. ASSUME NEW q \in Requests, slot'[q] # NoSlot, NeedsSigner(slot'[q].entry),
               slot'[q].entry.tx # NoTx
        PROVE  gate' = q
    BY <1>3, <1>5, <1>6, <1>7, <2>1, JournalAssumption DEF JournalInv, SignedHoldsGate, Exists
  <2>2. ASSUME gate' # NoRequest
        PROVE  slot'[gate'] # NoSlot /\ NeedsSigner(slot'[gate'].entry)
    BY <1>3, <1>5, <1>6, <2>2 DEF JournalInv, JournalTypeOK, SignedHoldsGate, Exists
  <2> QED
    BY <2>1, <2>2 DEF SignedHoldsGate, Exists, NeedsSigner
<1>10. LeaseHoldsGate'
  <2>1. ASSUME NEW q \in Requests, slot'[q] # NoSlot, NeedsSigner(slot'[q].entry),
               slot'[q].owner # NoOwner
        PROVE  gate' = q
    BY <1>3, <1>5, <1>6, <1>7, <2>1, JournalAssumption
       DEF JournalInv, SignedHoldsGate, LeaseHoldsGate, Exists
  <2> QED
    BY <2>1 DEF LeaseHoldsGate, Exists, NeedsSigner
<1>11. OnlySettledExpire'
  BY <1>2, <1>3, <1>5 DEF JournalInv, OnlySettledExpire, Exists
<1> QED
  BY <1>3, <1>5, <1>8, <1>9, <1>10, <1>11 DEF JournalInv

\* Midnight takes settled entries only, and none of them holds the gate.
LEMMA TickKeeps ==
  ASSUME JournalInv, JournalTick
  PROVE  /\ JournalInv'
         /\ \A r \in Requests :
              \/ slot'[r] = NoSlot /\ (Exists(r) => Terminal(slot[r].entry))
              \/ Exists(r) /\ slot'[r] # NoSlot /\ slot'[r].entry = slot[r].entry
                   /\ slot'[r].owner = NoOwner /\ slot'[r].until = slot[r].until
<1>1. ASSUME NEW r \in Requests
      PROVE  \/ slot'[r] = NoSlot /\ (Exists(r) => Terminal(slot[r].entry))
             \/ /\ Exists(r) /\ slot'[r] # NoSlot /\ slot'[r].entry = slot[r].entry
                /\ slot'[r].owner = NoOwner /\ slot'[r].until = slot[r].until
                /\ slot'[r] \in Slots
  <2>1. CASE slot'[r] = NoSlot
    <3>1. CASE Exists(r) /\ slot[r].until # Never
      BY <2>1, <3>1 DEF JournalInv, OnlySettledExpire
    <3>2. CASE Exists(r) /\ ~(slot[r].until # Never)
      <4>1. slot[r] \in Slots /\ slot'[r] = [slot[r] EXCEPT !.owner = NoOwner]
        BY <3>2 DEF JournalTick, JournalInv, JournalTypeOK, Exists
      <4>2. slot'[r] \in Slots
        BY <4>1 DEF Slots
      <4> QED
        BY <2>1, <4>2, NoSlotAssumption
    <3>3. CASE ~Exists(r)
      BY <2>1, <3>3
    <3> QED
      BY <3>1, <3>2, <3>3
  <2>2. CASE slot'[r] # NoSlot
    <3>1. Exists(r) /\ slot[r] \in Slots /\ slot'[r] = [slot[r] EXCEPT !.owner = NoOwner]
      BY <2>2 DEF JournalTick, JournalInv, JournalTypeOK, Exists
    <3> QED
      BY <2>2, <3>1 DEF Slots
  <2> QED
    BY <2>1, <2>2
<1>2. JournalTypeOK'
  <2>1. slot' \in [Requests -> Slots \cup {NoSlot}]
    <3>1. slot' = [r \in Requests |-> slot'[r]]
      BY DEF JournalTick
    <3> QED
      BY <1>1, <3>1
  <2>2. tick' \in 0 .. MaxTick
    BY JournalAssumption DEF JournalTick, JournalInv, JournalTypeOK
  <2> QED
    BY <2>1, <2>2 DEF JournalTick, JournalInv, JournalTypeOK
<1>3. SignedHoldsGate' /\ LeaseHoldsGate' /\ OnlySettledExpire'
  <2>1. \A r \in Requests : Terminal(slot[r].entry) => ~NeedsSigner(slot[r].entry)
    BY DEF Terminal, NeedsSigner
  <2>2. gate' = gate
    BY DEF JournalTick
  <2> QED
    BY <1>1, <2>1, <2>2
       DEF JournalInv, JournalTypeOK, SignedHoldsGate, LeaseHoldsGate, OnlySettledExpire, Exists
<1> QED
  BY <1>1, <1>2, <1>3 DEF JournalInv

\* The initial journal is empty.
LEMMA JournalStarts ==
  ASSUME JournalInit
  PROVE  JournalInv
<1>1. 0 \in 0 .. MaxTick
  BY JournalAssumption
<1> QED
  BY <1>1 DEF JournalInit, JournalInv, JournalTypeOK, SignedHoldsGate, LeaseHoldsGate,
              OnlySettledExpire, Exists

\* Every script of the journal keeps the invariant.
LEMMA JournalKeeps ==
  ASSUME JournalInv, [JournalNext]_journalVars
  PROVE  JournalInv'
<1>1. CASE \E r \in Requests, i \in BOOLEAN, l \in Nat : Create(r, i, l)
  BY <1>1, CreateKeeps
<1>2. CASE \E o \in Owners, r \in Requests :
             Acquire(o, r) \/ Release(o, r) \/ \E e \in Entries : Save(o, r, e)
  BY <1>2, AcquireKeeps, ReleaseKeeps, SaveKeeps
<1>3. CASE \E r \in Requests : LeaseLapses(r)
  BY <1>3, LapseKeeps
<1>4. CASE JournalTick
  BY <1>4, TickKeeps
<1>5. CASE UNCHANGED journalVars
  BY <1>5 DEF journalVars, JournalInv, JournalTypeOK, SignedHoldsGate, LeaseHoldsGate,
              OnlySettledExpire, Exists
<1> QED
  BY <1>1, <1>2, <1>3, <1>4, <1>5 DEF JournalNext

\* Whatever clients save into the journal, a signed transaction that is not
\* settled holds the signer gate, and the gate is never left with a request
\* that has no use for it (the scripts of issuance-journal.ts).
THEOREM OneSignerAtATime == JournalSpec => []SignedHoldsGate
<1>1. JournalInit => JournalInv
  BY JournalStarts
<1>2. JournalInv /\ [JournalNext]_journalVars => JournalInv'
  BY JournalKeeps
<1>3. JournalInv => SignedHoldsGate
  BY DEF JournalInv
<1> QED
  BY <1>1, <1>2, <1>3, PTL DEF JournalSpec
-----------------------------------------------------------------------------

\* Where a pass is.
Places ==
  {"idle", "error", "release", "save", "put", "reject", "target", "fence-sign", "sign",
   "reserve-new", "reserve", "receipt", "fence-submit", "fence-send", "broadcast",
   "receipt-again", "reconcile", "confirm", "hub", "activate"}

Passes ==
  [pc : Places, req : Requests \cup {NoRequest}, entry : Entries, then : Places]

Blocks == [tx : Hashes, ok : BOOLEAN]

DeliveryTypes ==
  /\ pass \in [Owners -> Passes]
  /\ \A o \in Owners : ~At(o, "idle") => pass[o].req \in Requests
  /\ chain \in [pool : SUBSET Hashes, mined : Seq(Blocks), final : Nat]
  /\ left \subseteq Hashes
  /\ list \in Nat

(***************************************************************************)
(* The invariant.  A signed transaction is done when it is confirmed, and  *)
(* open while its journal entry may still send it; open transactions hold  *)
(* the signer gate, so there is one at most.                               *)
(***************************************************************************)
Done == {m.tx : m \in Final}

Open ==
  {t \in Hashes : Exists(t.req) /\ slot[t.req].entry.tx = t /\ NeedsSigner(slot[t.req].entry)}

Booked == DOMAIN reservation

\* An entry that no longer needs the signer has a confirmed transaction or none.
EntryFits(r, e, done) ==
  /\ e.tx = NoTx => e.phase \in {"prepared", "failed"}
  /\ e.tx # NoTx => e.issued /\ e.tx.req = r /\ (NeedsSigner(e) \/ e.tx \in done)
  /\ e.phase = "failed" /\ e.reverted => e.tx # NoTx

JournalFits ==
  \A r \in Requests : Exists(r) =>
    /\ EntryFits(r, slot[r].entry, Done)
    /\ slot[r].entry.tx # NoTx => slot[r].entry.tx \in Booked

\* The chain has one transaction per nonce, and those that are not confirmed
\* are open.
ChainFits ==
  /\ chain.final <= Len(chain.mined)
  /\ \A i \in 1 .. Len(chain.mined) :
       /\ chain.mined[i].tx.nonce = i - 1
       /\ i > chain.final => chain.mined[i].tx \in Open
  /\ \A t \in chain.pool : t \in Open /\ t.nonce >= Len(chain.mined)
  /\ \A t \in Open : t \in Done \/ t.nonce >= chain.final

LeftFits == \A t \in left : t \in Booked /\ t \in Open \cup Done

\* A pass under way: it may still touch the journal, the chain or the vault.
Working(p) == p.pc \notin {"idle", "error", "release"}

\* Bytes that the journal does not have yet.
Fresh(p) == p.pc = "reserve-new" \/ (p.pc = "save" /\ p.then = "receipt")

\* Where the pass is, or will be once its copy is saved.
Stage(p) == IF p.pc = "save" THEN p.then ELSE p.pc

Signed == {"reserve-new", "reserve", "receipt", "fence-submit", "fence-send", "broadcast",
           "receipt-again", "reconcile", "confirm", "hub", "activate"}

Continuations == {"release", "target", "reject", "receipt", "fence-send", "receipt-again", "hub"}

\* What the copy of the entry is like at a stage.
Suits(q, e, done) ==
  /\ q = "target" => e.issued
  /\ q = "reject" => ~e.issued
  /\ q \in {"put", "target"} /\ e.phase = "failed" => e.reverted
  /\ q \in {"fence-sign", "sign"} => e.issued /\ e.tx = NoTx /\ e.phase = "prepared"
  /\ q \in Signed => e.tx # NoTx
  /\ q \in {"reconcile", "confirm", "hub", "activate"} => e.tx \in done

PassFits(p, done, open, booked) ==
  /\ EntryFits(p.req, p.entry, done)
  /\ Suits(Stage(p), p.entry, done)
  /\ p.pc = "save" => p.then \in Continuations
  /\ Fresh(p) => p.entry.phase = "prepared" /\ (p.pc = "save" => p.entry.tx \in booked)
  /\ ~Fresh(p) /\ p.entry.tx # NoTx => p.entry.tx \in booked /\ p.entry.tx \in open \cup done

\* What the copy has to do with the entry, while the pass has the lease.
CopyFits(p, e, final) ==
  /\ p.pc \notin {"save", "reserve-new"} => p.entry = e
  /\ Fresh(p) => e.tx = NoTx /\ NeedsSigner(e) /\ p.entry.tx.nonce >= final
  /\ p.pc = "save" /\ ~Fresh(p) => p.entry.tx = e.tx \/ ~NeedsSigner(e)

PassesFit ==
  \A o \in Owners : Working(pass[o]) =>
    /\ PassFits(pass[o], Done, Open, Booked)
    /\ Leased(o, pass[o].req) => CopyFits(pass[o], slot[pass[o].req].entry, chain.final)

DeliveryInv ==
  DeliveryTypes /\ JournalInv /\ JournalFits /\ ChainFits /\ LeftFits /\ PassesFit

-----------------------------------------------------------------------------
\* How a pass record changes.

LEMMA IdleIsPass == Idle \in Passes /\ Idle.pc = "idle" /\ Idle.entry \in Entries
<1>1. FreshEntry(FALSE, 0) \in Entries
  BY DEF FreshEntry, Entries, Phases
<1>2. "idle" \in Places
  BY DEF Places
<1> QED
  BY <1>1, <1>2 DEF Idle, Passes

\* Goto keeps the request, and the entry unless the pass is on its way out.
LEMMA GotoPass ==
  ASSUME pass \in [Owners -> Passes], NEW o \in Owners, NEW pc \in Places, Goto(o, pc)
  PROVE  /\ pass' \in [Owners -> Passes]
         /\ pass'[o].pc = pc /\ pass'[o].then = "idle" /\ pass'[o].req = pass[o].req
         /\ pc \notin {"error", "release"} => pass'[o].entry = pass[o].entry
         /\ \A q \in Owners : q # o => pass'[q] = pass[q]
<1> DEFINE e == IF pc \in {"error", "release"} THEN Idle.entry ELSE pass[o].entry
           x == [pass[o] EXCEPT !.pc = pc, !.then = "idle", !.entry = e]
<1>1. pass[o] \in Passes /\ e \in Entries /\ "idle" \in Places
  BY IdleIsPass DEF Passes, Places
<1> HIDE DEF e
<1>2. /\ x \in Passes
      /\ x.pc = pc /\ x.then = "idle" /\ x.req = pass[o].req /\ x.entry = e
  BY <1>1 DEF Passes
<1>3. pass' = [pass EXCEPT ![o] = x]
  BY DEF Goto, e
<1> HIDE DEF x
<1> QED
  BY <1>2, <1>3 DEF e

\* SaveThen keeps the request and puts the changed entry in the copy.
LEMMA SaveThenPass ==
  ASSUME pass \in [Owners -> Passes], NEW o \in Owners, NEW pc \in Places, NEW e \in Entries,
         SaveThen(o, e, pc)
  PROVE  /\ pass' \in [Owners -> Passes]
         /\ pass'[o].pc = "save" /\ pass'[o].then = pc /\ pass'[o].req = pass[o].req
         /\ pass'[o].entry = e
         /\ \A q \in Owners : q # o => pass'[q] = pass[q]
<1> DEFINE x == [pass[o] EXCEPT !.pc = "save", !.entry = e, !.then = pc]
<1>0. "save" \in Places
  BY DEF Places
<1>1. /\ x \in Passes
      /\ x.pc = "save" /\ x.then = pc /\ x.req = pass[o].req /\ x.entry = e
  BY <1>0 DEF Passes
<1>2. pass' = [pass EXCEPT ![o] = x]
  BY DEF SaveThen
<1> HIDE DEF x
<1> QED
  BY <1>1, <1>2

\* Edits of an entry.
LEMMA EntryEdits ==
  ASSUME NEW e \in Entries
  PROVE  /\ [e EXCEPT !.stored = TRUE] \in Entries
         /\ \A b \in BOOLEAN : Failed(e, b) \in Entries
         /\ \A p \in Phases : [e EXCEPT !.phase = p] \in Entries
         /\ \A t \in Hashes : [e EXCEPT !.tx = t] \in Entries
         /\ e.tx # NoTx =>
              [e EXCEPT !.past = @ \cup {e.tx}, !.tx = NoTx, !.phase = "prepared",
                        !.reverted = FALSE] \in Entries
<1>1. "failed" \in Phases /\ "prepared" \in Phases
  BY DEF Phases
<1> QED
  BY <1>1 DEF Entries, Failed

-----------------------------------------------------------------------------
\* What stays true of passes while more is confirmed, booked and closed.
LEMMA FitsStay ==
  ASSUME NEW p, NEW done, NEW open, NEW booked, NEW done2, NEW open2, NEW booked2,
         PassFits(p, done, open, booked),
         done \subseteq done2, booked \subseteq booked2, open \subseteq open2 \cup done2
  PROVE  PassFits(p, done2, open2, booked2)
<1>1. EntryFits(p.req, p.entry, done2)
  BY DEF PassFits, EntryFits
<1>2. Suits(Stage(p), p.entry, done2)
  BY DEF PassFits, Suits
<1> QED
  BY <1>1, <1>2 DEF PassFits

\* An open transaction holds the gate, so there is one at most.
LEMMA OneOpen ==
  ASSUME JournalInv
  PROVE  \A t \in Open : t \in Hashes /\ t.req \in Requests /\ gate = t.req
                           /\ Exists(gate) /\ slot[gate].entry.tx = t
<1>1. \A t \in Hashes : t # NoTx /\ t.req \in Requests
  BY JournalAssumption, DeliveryAssumption
<1> QED
  BY <1>1 DEF Open, JournalInv, SignedHoldsGate

\* Confirmed transactions have the nonces below the confirmed height.
LEMMA DoneBelow ==
  ASSUME DeliveryTypes, ChainFits
  PROVE  /\ \A t \in Done : t \in Hashes /\ t.nonce < chain.final
         /\ \A t \in Done, u \in Done : t.nonce = u.nonce => t = u
<1>1. chain.final \in Nat /\ Len(chain.mined) \in Nat /\ chain.mined \in Seq(Blocks)
  BY DEF DeliveryTypes
<1>2. \A t \in Done : \E i \in 1 .. chain.final : t = chain.mined[i].tx
  BY DEF Done, Final
<1>3. ASSUME NEW i \in 1 .. chain.final
      PROVE  /\ chain.mined[i].tx \in Hashes /\ chain.mined[i].tx.nonce \in Nat
             /\ chain.mined[i].tx.nonce = i - 1 /\ i \in Nat
  <2>1. i \in 1 .. Len(chain.mined)
    BY <1>1 DEF ChainFits
  <2>2. chain.mined[i] \in Blocks
    BY <1>1, <2>1
  <2>3. chain.mined[i].tx \in Hashes
    BY <2>2 DEF Blocks
  <2>4. chain.mined[i].tx.nonce \in Nat
    BY <2>3, DeliveryAssumption
  <2> QED
    BY <2>1, <2>3, <2>4 DEF ChainFits
<1>4. ASSUME NEW t \in Done
      PROVE  t \in Hashes /\ t.nonce < chain.final
  <2>1. PICK i \in 1 .. chain.final : t = chain.mined[i].tx
    BY <1>2
  <2> QED
    BY <1>1, <1>3, <2>1
<1>5. ASSUME NEW t \in Done, NEW u \in Done, t.nonce = u.nonce
      PROVE  t = u
  <2>1. PICK i \in 1 .. chain.final : t = chain.mined[i].tx
    BY <1>2
  <2>2. PICK j \in 1 .. chain.final : u = chain.mined[j].tx
    BY <1>2
  <2>3. i = j
    BY <1>3, <1>5, <2>1, <2>2
  <2> QED
    BY <2>1, <2>2, <2>3
<1> QED
  BY <1>4, <1>5

(***************************************************************************)
(* A step that leaves the journal and the chain alone.                     *)
(***************************************************************************)
Quiet ==
  /\ UNCHANGED <<journalVars, chain, left>>
  /\ Booked \subseteq Booked' /\ list' \in Nat

LEMMA QuietKeeps ==
  ASSUME DeliveryInv, Quiet, NEW o \in Owners, pass' \in [Owners -> Passes],
         \A q \in Owners : q # o => pass'[q] = pass[q],
         pass'[o].pc # "idle" => pass'[o].req \in Requests,
         Working(pass'[o]) =>
           /\ PassFits(pass'[o], Done, Open, Booked')
           /\ Leased(o, pass'[o].req) => CopyFits(pass'[o], slot[pass'[o].req].entry, chain.final)
  PROVE  DeliveryInv'
<1>1. /\ Done' = Done /\ Open' = Open
      /\ slot' = slot /\ chain' = chain /\ left' = left
  BY DEF Quiet, journalVars, Done, Final, Open, Exists
<1>2. DeliveryTypes'
  BY <1>1 DEF DeliveryInv, DeliveryTypes, At, Quiet
<1>3. JournalInv'
  BY JournalKeeps DEF DeliveryInv, Quiet
<1>4. JournalFits'
  BY <1>1 DEF DeliveryInv, JournalFits, Exists, Quiet
<1>5. ChainFits' /\ LeftFits'
  BY <1>1 DEF DeliveryInv, ChainFits, LeftFits, Quiet
<1>6. PassesFit'
  <2>1. ASSUME NEW q \in Owners, q # o, Working(pass'[q])
        PROVE  /\ PassFits(pass'[q], Done', Open', Booked')
               /\ Leased(q, pass[q].req) => CopyFits(pass'[q], slot'[pass'[q].req].entry, chain'.final)
    <3>1. PassFits(pass[q], Done, Open, Booked)
      BY <2>1 DEF DeliveryInv, PassesFit
    <3>2. PassFits(pass[q], Done', Open', Booked')
      BY <1>1, <3>1, FitsStay DEF Quiet
    <3> QED
      BY <1>1, <2>1, <3>2 DEF DeliveryInv, PassesFit
  <2> QED
    BY <1>1, <2>1 DEF PassesFit, Leased, Exists
<1> QED
  BY <1>2, <1>3, <1>4, <1>5, <1>6 DEF DeliveryInv

\* A pass goes on with its copy as it is, or gives up.
LEMMA GoOn ==
  ASSUME DeliveryInv, Quiet, NEW o \in Owners, NEW pc \in Places, Goto(o, pc),
         pass[o].pc # "idle",
         \/ pc \in {"error", "release"}
         \/ /\ pass[o].pc \notin {"error", "release", "save", "reserve-new"}
            /\ pc \notin {"save", "reserve-new"}
            /\ Suits(pc, pass[o].entry, Done)
  PROVE  DeliveryInv'
<1>1. /\ pass' \in [Owners -> Passes]
      /\ pass'[o].pc = pc /\ pass'[o].req = pass[o].req
      /\ pc \notin {"error", "release"} => pass'[o].entry = pass[o].entry
      /\ \A q \in Owners : q # o => pass'[q] = pass[q]
  BY GotoPass DEF DeliveryInv, DeliveryTypes
<1>2. pass'[o].req \in Requests
  BY <1>1 DEF DeliveryInv, DeliveryTypes, At
<1>3. ASSUME Working(pass'[o])
      PROVE  /\ PassFits(pass'[o], Done, Open, Booked')
             /\ Leased(o, pass'[o].req) => CopyFits(pass'[o], slot[pass'[o].req].entry, chain.final)
  <2>1. /\ pass[o].pc \notin {"error", "release", "save", "reserve-new", "idle"}
        /\ pc \notin {"error", "release", "save", "reserve-new"}
        /\ Suits(pc, pass[o].entry, Done) /\ pass'[o].entry = pass[o].entry
    BY <1>1, <1>3 DEF Working
  <2>2. /\ PassFits(pass[o], Done, Open, Booked)
        /\ Leased(o, pass[o].req) => CopyFits(pass[o], slot[pass[o].req].entry, chain.final)
    BY <2>1 DEF DeliveryInv, PassesFit, Working
  <2>3. Stage(pass'[o]) = pc /\ ~Fresh(pass'[o]) /\ ~Fresh(pass[o])
    BY <1>1, <2>1 DEF Stage, Fresh
  <2>4. PassFits(pass'[o], Done, Open, Booked')
    BY <1>1, <2>1, <2>2, <2>3 DEF PassFits, Quiet
  <2>5. Leased(o, pass'[o].req) => CopyFits(pass'[o], slot[pass'[o].req].entry, chain.final)
    BY <1>1, <2>1, <2>2, <2>3 DEF CopyFits
  <2> QED
    BY <2>4, <2>5
<1> QED
  BY <1>1, <1>2, <1>3, QuietKeeps

\* A pass changes its copy and is about to save it.  It signs nothing new here,
\* and lets go of a transaction only if the entry had no use for it.
LEMMA ToSave ==
  ASSUME DeliveryInv, Quiet, NEW o \in Owners, NEW pc \in Continuations \ {"receipt"},
         NEW e \in Entries, SaveThen(o, e, pc),
         Working(pass[o]), pass[o].pc \notin {"save", "reserve-new"},
         Suits(pc, e, Done), EntryFits(pass[o].req, e, Done),
         e.tx \in {NoTx, pass[o].entry.tx},
         e.tx = pass[o].entry.tx \/ ~NeedsSigner(pass[o].entry)
  PROVE  DeliveryInv'
<1>0. pc \in Places /\ pc # "receipt" /\ pc \in Continuations
  BY DEF Places, Continuations
<1>1. /\ pass' \in [Owners -> Passes]
      /\ pass'[o].pc = "save" /\ pass'[o].then = pc /\ pass'[o].req = pass[o].req
      /\ pass'[o].entry = e
      /\ \A q \in Owners : q # o => pass'[q] = pass[q]
  BY <1>0, SaveThenPass DEF DeliveryInv, DeliveryTypes
<1>2. pass'[o].req \in Requests
  BY <1>1 DEF DeliveryInv, DeliveryTypes, At, Working
<1>3. /\ PassFits(pass[o], Done, Open, Booked)
      /\ Leased(o, pass[o].req) => CopyFits(pass[o], slot[pass[o].req].entry, chain.final)
  BY DEF DeliveryInv, PassesFit
<1>4. Stage(pass'[o]) = pc /\ ~Fresh(pass'[o]) /\ ~Fresh(pass[o])
  BY <1>0, <1>1 DEF Stage, Fresh
<1>5. PassFits(pass'[o], Done, Open, Booked')
  BY <1>0, <1>1, <1>3, <1>4 DEF PassFits, Quiet
<1>6. Leased(o, pass'[o].req) => CopyFits(pass'[o], slot[pass'[o].req].entry, chain.final)
  BY <1>1, <1>3, <1>4 DEF CopyFits
<1> QED
  BY <1>1, <1>2, <1>5, <1>6, QuietKeeps

\* The copy of a pass under way.
LEMMA CopyFacts ==
  ASSUME DeliveryInv, NEW o \in Owners, Working(pass[o])
  PROVE  /\ pass[o].entry \in Entries /\ pass[o].req \in Requests
         /\ PassFits(pass[o], Done, Open, Booked)
         /\ pass[o].pc # "save" => Suits(pass[o].pc, pass[o].entry, Done)
         /\ EntryFits(pass[o].req, pass[o].entry, Done)
BY DEF DeliveryInv, DeliveryTypes, At, PassesFit, Working, PassFits, Stage, Passes

\* Which frames are quiet.
LEMMA QuietFrames ==
  ASSUME list \in Nat
  PROVE  /\ OnlyPass => Quiet
         /\ VaultFrame => Quiet
BY DEF OnlyPass, VaultFrame, Quiet, journalVars, budgetVars, worldVars, Booked

-----------------------------------------------------------------------------
\* The steps of a pass that leave the journal and the chain alone.

LEMMA RejectKeeps ==
  ASSUME DeliveryInv, NEW o \in Owners, RejectOutcome(o)
  PROVE  DeliveryInv'
<1> DEFINE e == pass[o].entry
<1>1. Quiet /\ pass[o].pc = "reject" /\ SaveThen(o, Failed(e, FALSE), "release")
  BY QuietFrames DEF RejectOutcome, At, DeliveryInv, DeliveryTypes
<1>2. Working(pass[o])
  BY <1>1 DEF Working
<1>3. e \in Entries /\ EntryFits(pass[o].req, e, Done) /\ ~e.issued
  BY <1>1, <1>2, CopyFacts DEF Suits
<1>4. /\ Failed(e, FALSE) \in Entries /\ Failed(e, FALSE).tx = e.tx
      /\ Failed(e, FALSE).phase = "failed" /\ ~Failed(e, FALSE).reverted
  BY <1>3, EntryEdits DEF Failed, Entries
<1>5. EntryFits(pass[o].req, Failed(e, FALSE), Done)
  BY <1>3, <1>4 DEF EntryFits
<1>6. Suits("release", Failed(e, FALSE), Done) /\ "release" \in Continuations \ {"receipt"}
  BY DEF Suits, Signed, Continuations
<1> QED
  BY <1>1, <1>2, <1>3, <1>4, <1>5, <1>6, ToSave

LEMMA CheckTargetKeeps ==
  ASSUME DeliveryInv, NEW o \in Owners, CheckTarget(o)
  PROVE  DeliveryInv'
<1> DEFINE e == pass[o].entry r == pass[o].req
           again == [e EXCEPT !.past = @ \cup {e.tx}, !.tx = NoTx, !.phase = "prepared",
                              !.reverted = FALSE]
<1>1. Quiet /\ pass[o].pc = "target"
  BY QuietFrames DEF CheckTarget, At, DeliveryInv, DeliveryTypes, Unavailable
<1>2. Working(pass[o])
  BY <1>1 DEF Working
<1>3. e \in Entries /\ EntryFits(r, e, Done) /\ Suits("target", e, Done)
  BY <1>1, <1>2, CopyFacts
<1>4. CASE e.phase = "failed" /\ SaveThen(o, again, "target")
  <2>1. e.tx # NoTx /\ e.issued
    BY <1>3, <1>4 DEF Suits, EntryFits
  <2>2. /\ again \in Entries /\ again.tx = NoTx /\ again.phase = "prepared"
        /\ again.issued = e.issued
    BY <1>3, <2>1, EntryEdits DEF Entries
  <2> HIDE DEF again
  <2>3. Suits("target", again, Done) /\ EntryFits(r, again, Done)
    BY <2>1, <2>2 DEF Suits, EntryFits, Signed
  <2>4. ~NeedsSigner(e) /\ "target" \in Continuations \ {"receipt"}
    BY <1>4 DEF NeedsSigner, Continuations
  <2> QED
    BY <1>1, <1>2, <1>4, <2>2, <2>3, <2>4, ToSave
<1>5. CASE e.phase # "failed" /\ e.tx # NoTx /\ Goto(o, "reserve")
  <2>1. Suits("reserve", e, Done) /\ "reserve" \in Places
    BY <1>5 DEF Suits, Places
  <2> QED
    BY <1>1, <1>5, <2>1, GoOn
<1>6. CASE e.phase # "failed" /\ e.tx = NoTx /\ SaveThen(o, Failed(e, FALSE), "release")
  <2>1. /\ Failed(e, FALSE) \in Entries /\ Failed(e, FALSE).tx = e.tx
        /\ Failed(e, FALSE).phase = "failed" /\ ~Failed(e, FALSE).reverted
    BY <1>3, EntryEdits DEF Failed, Entries
  <2>2. EntryFits(r, Failed(e, FALSE), Done)
    BY <1>3, <1>6, <2>1 DEF EntryFits
  <2>3. Suits("release", Failed(e, FALSE), Done) /\ "release" \in Continuations \ {"receipt"}
    BY DEF Suits, Signed, Continuations
  <2> QED
    BY <1>1, <1>2, <1>6, <2>1, <2>2, <2>3, ToSave
<1>7. CASE e.phase # "failed" /\ e.tx = NoTx /\ Goto(o, "fence-sign")
  <2>1. Suits("fence-sign", e, Done) /\ "fence-sign" \in Places
    BY <1>3, <1>7 DEF Suits, EntryFits, Places, Signed
  <2> QED
    BY <1>1, <1>7, <2>1, GoOn
<1>8. CASE Goto(o, "error")
  BY <1>1, <1>8, GoOn DEF Places
<1> QED
  BY <1>4, <1>5, <1>6, <1>7, <1>8 DEF CheckTarget, Unavailable

LEMMA FenceKeeps ==
  ASSUME DeliveryInv, NEW o \in Owners, Fence(o)
  PROVE  DeliveryInv'
<1> DEFINE e == pass[o].entry sent == [e EXCEPT !.phase = "submitted"]
<1>1. Quiet /\ pass[o].pc \in {"fence-sign", "fence-submit", "fence-send"}
  BY QuietFrames DEF Fence, DeliveryInv, DeliveryTypes
<1>2. Working(pass[o]) /\ pass[o].pc # "save"
  BY <1>1 DEF Working
<1>3. /\ e \in Entries /\ EntryFits(pass[o].req, e, Done)
      /\ Suits(pass[o].pc, e, Done)
  BY <1>1, <1>2, CopyFacts
<1>4. CASE Goto(o, "error") \/ Goto(o, "release")
  BY <1>1, <1>4, GoOn DEF Places
<1>5. CASE pass[o].pc = "fence-sign" /\ Goto(o, "sign")
  <2>1. Suits("sign", e, Done) /\ "sign" \in Places
    BY <1>3, <1>5 DEF Suits, Places, Signed
  <2> QED
    BY <1>1, <1>5, <2>1, GoOn
<1>6. CASE pass[o].pc = "fence-submit" /\ SaveThen(o, sent, "fence-send")
  <2>1. e.tx # NoTx
    BY <1>3, <1>6 DEF Suits, Signed
  <2>0. "submitted" \in Phases
    BY DEF Phases
  <2>2. /\ sent \in Entries /\ sent.tx = e.tx /\ sent.phase = "submitted"
        /\ sent.issued = e.issued
    BY <1>3, <2>0 DEF Entries
  <2> HIDE DEF sent
  <2>3. Suits("fence-send", sent, Done) /\ EntryFits(pass[o].req, sent, Done)
    BY <1>3, <2>1, <2>2 DEF Suits, EntryFits, NeedsSigner
  <2>4. "fence-send" \in Continuations \ {"receipt"}
    BY DEF Continuations
  <2> QED
    BY <1>1, <1>2, <1>6, <2>2, <2>3, <2>4, ToSave
<1>7. CASE pass[o].pc = "fence-send" /\ Goto(o, "broadcast")
  <2>1. Suits("broadcast", e, Done) /\ "broadcast" \in Places
    BY <1>3, <1>7 DEF Suits, Places, Signed
  <2> QED
    BY <1>1, <1>7, <2>1, GoOn
<1> QED
  BY <1>4, <1>5, <1>6, <1>7 DEF Fence, At

LEMMA ReadReceiptKeeps ==
  ASSUME DeliveryInv, NEW o \in Owners, ReadReceipt(o)
  PROVE  DeliveryInv'
<1> DEFINE e == pass[o].entry
<1>1. Quiet /\ pass[o].pc \in {"receipt", "receipt-again"}
  BY QuietFrames DEF ReadReceipt, DeliveryInv, DeliveryTypes, Unavailable
<1>2. Working(pass[o]) /\ pass[o].pc # "save"
  BY <1>1 DEF Working
<1>3. Suits(pass[o].pc, e, Done)
  BY <1>1, <1>2, CopyFacts
<1>4. CASE Goto(o, "error") \/ Goto(o, "release")
  BY <1>1, <1>4, GoOn DEF Places
<1>5. CASE Confirmed(e.tx) /\ Goto(o, "reconcile")
  <2>1. e.tx \in Done
    BY <1>5 DEF Confirmed, Done
  <2>2. Suits("reconcile", e, Done) /\ "reconcile" \in Places
    BY <1>1, <1>3, <2>1 DEF Suits, Places, Signed
  <2> QED
    BY <1>1, <1>5, <2>2, GoOn
<1>6. CASE Goto(o, "fence-submit")
  <2>1. Suits("fence-submit", e, Done) /\ "fence-submit" \in Places
    BY <1>1, <1>3 DEF Suits, Places, Signed
  <2> QED
    BY <1>1, <1>6, <2>1, GoOn
<1> QED
  BY <1>4, <1>5, <1>6 DEF ReadReceipt, Unavailable

LEMMA ReadHubKeeps ==
  ASSUME DeliveryInv, NEW o \in Owners, ReadHub(o)
  PROVE  DeliveryInv'
<1> DEFINE e == pass[o].entry
<1>1. Quiet /\ pass[o].pc = "hub"
  BY QuietFrames DEF ReadHub, At, DeliveryInv, DeliveryTypes, Unavailable
<1>2. Working(pass[o])
  BY <1>1 DEF Working
<1>3. Suits("hub", e, Done)
  BY <1>1, <1>2, CopyFacts
<1>4. CASE Goto(o, "error") \/ Goto(o, "release")
  BY <1>1, <1>4, GoOn DEF Places
<1>5. CASE Goto(o, "activate")
  <2>1. Suits("activate", e, Done) /\ "activate" \in Places
    BY <1>3 DEF Suits, Places, Signed
  <2> QED
    BY <1>1, <1>5, <2>1, GoOn
<1> QED
  BY <1>4, <1>5 DEF ReadHub, Unavailable

LEMMA CrashKeeps ==
  ASSUME DeliveryInv, NEW o \in Owners, Crash(o)
  PROVE  DeliveryInv'
<1>1. Quiet
  BY QuietFrames DEF Crash, DeliveryInv, DeliveryTypes
<1>2. /\ pass' \in [Owners -> Passes] /\ pass'[o] = Idle
      /\ \A q \in Owners : q # o => pass'[q] = pass[q]
  BY IdleIsPass DEF Crash, DeliveryInv, DeliveryTypes
<1>3. pass'[o].pc = "idle" /\ ~Working(pass'[o])
  BY <1>2, IdleIsPass DEF Working
<1> QED
  BY <1>1, <1>2, <1>3, QuietKeeps

LEMMA PutKeeps ==
  ASSUME DeliveryInv, NEW o \in Owners, PutEvidence(o)
  PROVE  DeliveryInv'
<1> DEFINE e == pass[o].entry stored == [e EXCEPT !.stored = TRUE]
           pc == IF e.issued THEN "target" ELSE "reject"
<1>1. Quiet /\ pass[o].pc = "put"
  BY QuietFrames DEF PutEvidence, At, DeliveryInv, DeliveryTypes
<1>2. Working(pass[o])
  BY <1>1 DEF Working
<1>3. e \in Entries /\ EntryFits(pass[o].req, e, Done) /\ Suits("put", e, Done)
  BY <1>1, <1>2, CopyFacts
<1>4. SaveThen(o, stored, pc) \/ Goto(o, "error")
  BY DEF PutEvidence, VaultWrite
<1>5. CASE Goto(o, "error")
  BY <1>1, <1>5, GoOn DEF Places
<1>6. CASE SaveThen(o, stored, pc)
  <2>1. /\ stored \in Entries /\ stored.tx = e.tx /\ stored.phase = e.phase
        /\ stored.issued = e.issued /\ stored.reverted = e.reverted
    BY <1>3 DEF Entries
  <2> HIDE DEF stored
  <2>2. pc \in Continuations \ {"receipt"} /\ pc \in {"target", "reject"}
    BY DEF Continuations
  <2>3. Suits(pc, stored, Done) /\ EntryFits(pass[o].req, stored, Done)
    BY <1>3, <2>1, <2>2 DEF Suits, EntryFits, NeedsSigner, Signed
  <2> QED
    BY <1>1, <1>2, <1>6, <2>1, <2>2, <2>3, ToSave
<1> QED
  BY <1>4, <1>5, <1>6

LEMMA ConfirmKeeps ==
  ASSUME DeliveryInv, NEW o \in Owners, ConfirmSource(o)
  PROVE  DeliveryInv'
<1> DEFINE e == pass[o].entry sourced == [e EXCEPT !.phase = "source-confirmed"]
<1>1. Quiet /\ pass[o].pc = "confirm"
  BY QuietFrames DEF ConfirmSource, At, DeliveryInv, DeliveryTypes
<1>2. Working(pass[o])
  BY <1>1 DEF Working
<1>3. e \in Entries /\ EntryFits(pass[o].req, e, Done) /\ Suits("confirm", e, Done)
  BY <1>1, <1>2, CopyFacts
<1>4. \/ Goto(o, "error") \/ Goto(o, "activate") \/ SaveThen(o, sourced, "hub")
  BY DEF ConfirmSource, VaultWrite
<1>5. CASE Goto(o, "error")
  BY <1>1, <1>5, GoOn DEF Places
<1>6. CASE Goto(o, "activate")
  <2>1. Suits("activate", e, Done) /\ "activate" \in Places
    BY <1>3 DEF Suits, Places, Signed
  <2> QED
    BY <1>1, <1>6, <2>1, GoOn
<1>7. CASE SaveThen(o, sourced, "hub")
  <2>1. e.tx # NoTx /\ e.tx \in Done
    BY <1>3 DEF Suits, Signed
  <2>2. "source-confirmed" \in Phases
    BY DEF Phases
  <2>3. /\ sourced \in Entries /\ sourced.tx = e.tx /\ sourced.phase = "source-confirmed"
        /\ sourced.issued = e.issued
    BY <1>3, <2>2 DEF Entries
  <2> HIDE DEF sourced
  <2>4. Suits("hub", sourced, Done) /\ EntryFits(pass[o].req, sourced, Done)
    BY <1>3, <2>1, <2>3 DEF Suits, EntryFits
  <2>5. "hub" \in Continuations \ {"receipt"}
    BY DEF Continuations
  <2> QED
    BY <1>1, <1>2, <1>7, <2>3, <2>4, <2>5, ToSave
<1> QED
  BY <1>4, <1>5, <1>6, <1>7

LEMMA ActivateKeeps ==
  ASSUME DeliveryInv, NEW o \in Owners, ActivateEvidence(o)
  PROVE  DeliveryInv'
<1> DEFINE e == pass[o].entry settled == [e EXCEPT !.phase = "materialized"]
<1>1. Quiet /\ pass[o].pc = "activate"
  BY QuietFrames DEF ActivateEvidence, At, DeliveryInv, DeliveryTypes
<1>2. Working(pass[o])
  BY <1>1 DEF Working
<1>3. e \in Entries /\ EntryFits(pass[o].req, e, Done) /\ Suits("activate", e, Done)
  BY <1>1, <1>2, CopyFacts
<1>4. Goto(o, "error") \/ Goto(o, "release") \/ SaveThen(o, settled, "release")
  BY DEF ActivateEvidence, VaultWrite
<1>5. CASE Goto(o, "error") \/ Goto(o, "release")
  BY <1>1, <1>5, GoOn DEF Places
<1>6. CASE SaveThen(o, settled, "release")
  <2>1. e.tx # NoTx /\ e.tx \in Done
    BY <1>3 DEF Suits, Signed
  <2>2. "materialized" \in Phases
    BY DEF Phases
  <2>3. /\ settled \in Entries /\ settled.tx = e.tx /\ settled.phase = "materialized"
        /\ settled.issued = e.issued
    BY <1>3, <2>2 DEF Entries
  <2> HIDE DEF settled
  <2>4. Suits("release", settled, Done) /\ EntryFits(pass[o].req, settled, Done)
    BY <1>3, <2>1, <2>3 DEF Suits, EntryFits, Signed
  <2>5. "release" \in Continuations \ {"receipt"}
    BY DEF Continuations
  <2> QED
    BY <1>1, <1>2, <1>6, <2>3, <2>4, <2>5, ToSave
<1> QED
  BY <1>4, <1>5, <1>6

-----------------------------------------------------------------------------
\* The budget never forgets a reservation.
LEMMA BudgetBooks ==
  ASSUME NEW t, NEW n, NEW d
  PROVE  /\ Reserve(t, n, d) => t \in Booked' /\ Booked \subseteq Booked'
         /\ Reconcile(t, n, d) => Booked' = Booked
         /\ UNCHANGED budgetVars => Booked' = Booked
<1>1. ASSUME Reserve(t, n, d)
      PROVE  t \in Booked' /\ Booked \subseteq Booked'
  <2>1. CASE Reserved(t)
    BY <1>1, <2>1 DEF Reserve, Reserved, Booked, budgetVars
  <2>2. CASE ~Reserved(t)
    BY <1>1, <2>2 DEF Reserve, Booked
  <2> QED
    BY <2>1, <2>2
<1>2. ASSUME Reconcile(t, n, d)
      PROVE  Booked' = Booked
  BY <1>2 DEF Reconcile, Booked
<1> QED
  BY <1>1, <1>2 DEF Booked, budgetVars

\* With nothing open, the next nonce is the one after the mined ones.
LEMMA NextNonce ==
  ASSUME DeliveryTypes, ChainFits, Open = {}
  PROVE  PendingNonce >= chain.final
<1> DEFINE n == Len(chain.mined)
<1>1. n \in Nat /\ chain.final \in Nat /\ chain.final <= n /\ chain.pool = {}
  BY DEF DeliveryTypes, ChainFits
<1>2. Cardinality(chain.pool) = 0
  BY <1>1, FS_EmptySet
<1> HIDE DEF n
<1>3. PendingNonce = CHOOSE k \in n .. n + 0 :
                       /\ \A t \in {} : t.nonce # k
                       /\ \A j \in n .. k - 1 : \E t \in {} : t.nonce = j
  BY <1>1, <1>2 DEF PendingNonce, n
<1>4. \E k \in n .. n + 0 :
        /\ \A t \in {} : t.nonce # k
        /\ \A j \in n .. k - 1 : \E t \in {} : t.nonce = j
  <2>1. n \in n .. n + 0
    BY <1>1
  <2>2. ~ \E j \in n .. n - 1 : TRUE
    BY <1>1
  <2> QED
    BY <2>1, <2>2
<1>5. PendingNonce \in n .. n + 0
  BY <1>3, <1>4
<1> QED
  BY <1>1, <1>5

LEMMA SignKeeps ==
  ASSUME DeliveryInv, NEW o \in Owners, Sign(o)
  PROVE  DeliveryInv'
<1> DEFINE e == pass[o].entry r == pass[o].req
<1>1. Quiet /\ pass[o].pc = "sign"
  BY QuietFrames DEF Sign, At, DeliveryInv, DeliveryTypes, Unavailable
<1>2. Working(pass[o])
  BY <1>1 DEF Working
<1>3. /\ e \in Entries /\ r \in Requests
      /\ e.issued /\ e.tx = NoTx /\ e.phase = "prepared"
  BY <1>1, <1>2, CopyFacts DEF Suits
<1>4. CASE Goto(o, "error")
  BY <1>1, <1>4, GoOn DEF Places
<1>5. CASE ~Goto(o, "error")
  <2>1. PICK gas \in GasLimits :
          LET t == [req |-> r, nonce |-> PendingNonce, gas |-> gas] IN
            t \in Hashes /\ pass' = [pass EXCEPT ![o].pc = "reserve-new", ![o].entry.tx = t]
    BY <1>5 DEF Sign, Unavailable
  <2> DEFINE t == [req |-> r, nonce |-> PendingNonce, gas |-> gas]
             x == [e EXCEPT !.tx = t]
             p == [pass[o] EXCEPT !.pc = "reserve-new", !.entry = x]
  <2>2. t \in Hashes /\ t.req = r /\ t.nonce = PendingNonce /\ t # NoTx
    BY <2>1, JournalAssumption
  <2>3. pass' = [pass EXCEPT ![o] = p]
    BY <2>1
  <2> HIDE DEF t
  <2>4. x \in Entries /\ x.tx = t /\ x.phase = "prepared" /\ x.issued
    BY <1>3, <2>2 DEF Entries
  <2> HIDE DEF x
  <2>5. pass[o] \in Passes /\ "reserve-new" \in Places
    BY DEF DeliveryInv, DeliveryTypes, Places
  <2>6. p \in Passes /\ p.pc = "reserve-new" /\ p.req = r /\ p.entry = x
    BY <2>4, <2>5 DEF Passes
  <2> HIDE DEF p
  <2>7. /\ pass' \in [Owners -> Passes] /\ pass'[o] = p
        /\ \A q \in Owners : q # o => pass'[q] = pass[q]
    BY <2>3, <2>6 DEF DeliveryInv, DeliveryTypes
  <2>8. Fresh(p) /\ Stage(p) = "reserve-new"
    BY <2>6 DEF Fresh, Stage
  <2>9. PassFits(p, Done, Open, Booked')
    <3>1. EntryFits(r, x, Done)
      BY <2>2, <2>4 DEF EntryFits, NeedsSigner
    <3>2. Suits("reserve-new", x, Done)
      BY <2>2, <2>4 DEF Suits
    <3> QED
      BY <2>4, <2>6, <2>8, <3>1, <3>2 DEF PassFits
  <2>10. ASSUME Leased(o, r)
         PROVE  CopyFits(p, slot[r].entry, chain.final)
    <3>1. slot[r].entry = e
      BY <1>1, <1>2, <2>10 DEF DeliveryInv, PassesFit, CopyFits
    <3>2. NeedsSigner(slot[r].entry) /\ slot[r].entry.tx = NoTx
      BY <1>3, <3>1 DEF NeedsSigner
    <3>3. gate = r
      BY <1>3, <2>10, <3>2, JournalAssumption DEF DeliveryInv, JournalInv, LeaseHoldsGate, Leased
    <3>4. Open = {}
      BY <3>2, <3>3, OneOpen, JournalAssumption DEF DeliveryInv
    <3>5. t.nonce >= chain.final
      BY <2>2, <3>4, NextNonce DEF DeliveryInv
    <3> QED
      BY <2>4, <2>6, <2>8, <3>2, <3>5 DEF CopyFits
  <2> QED
    BY <1>1, <1>3, <2>6, <2>7, <2>9, <2>10, QuietKeeps
<1> QED
  BY <1>4, <1>5

LEMMA ReserveKeeps ==
  ASSUME DeliveryInv, NEW o \in Owners, ReserveGas(o)
  PROVE  DeliveryInv'
<1> DEFINE e == pass[o].entry t == e.tx
<1>1. pass[o].pc \in {"reserve-new", "reserve"}
  BY DEF ReserveGas
<1>2. Working(pass[o]) /\ pass[o].pc # "save"
  BY <1>1 DEF Working
<1>3. Booked \subseteq Booked'
  BY BudgetBooks DEF ReserveGas, LostBudgetCall
<1>4. Quiet
  BY <1>3 DEF ReserveGas, worldVars, Quiet, DeliveryInv, DeliveryTypes
<1>5. /\ e \in Entries /\ pass[o].req \in Requests
      /\ PassFits(pass[o], Done, Open, Booked) /\ Suits(pass[o].pc, e, Done)
  BY <1>2, CopyFacts
<1>6. CASE Goto(o, "release")
  BY <1>1, <1>4, <1>6, GoOn DEF Places
<1>7. CASE pass[o].pc = "reserve" /\ Goto(o, "receipt")
  <2>1. Suits("receipt", e, Done) /\ "receipt" \in Places
    BY <1>5, <1>7 DEF Suits, Places, Signed
  <2> QED
    BY <1>4, <1>7, <2>1, GoOn
<1>8. CASE pass[o].pc = "reserve-new" /\ SaveThen(o, e, "receipt") /\ t \in Booked'
  <2>0. "receipt" \in Places /\ "receipt" \in Continuations
    BY DEF Places, Continuations
  <2>1. /\ pass' \in [Owners -> Passes]
        /\ pass'[o].pc = "save" /\ pass'[o].then = "receipt" /\ pass'[o].req = pass[o].req
        /\ pass'[o].entry = e
        /\ \A q \in Owners : q # o => pass'[q] = pass[q]
    BY <1>5, <1>8, <2>0, SaveThenPass DEF DeliveryInv, DeliveryTypes
  <2>2. Fresh(pass[o]) /\ Fresh(pass'[o]) /\ Stage(pass'[o]) = "receipt"
    BY <1>8, <2>1 DEF Fresh, Stage
  <2>3. Suits("receipt", e, Done)
    BY <1>5, <1>8 DEF Suits, Signed
  <2>4. PassFits(pass'[o], Done, Open, Booked')
    BY <1>5, <1>8, <2>0, <2>1, <2>2, <2>3 DEF PassFits
  <2>5. Leased(o, pass[o].req) => CopyFits(pass'[o], slot[pass[o].req].entry, chain.final)
    BY <1>2, <2>1, <2>2 DEF DeliveryInv, PassesFit, CopyFits
  <2> QED
    BY <1>4, <1>5, <2>1, <2>4, <2>5, QuietKeeps
<1> QED
  BY <1>1, <1>6, <1>7, <1>8, BudgetBooks DEF ReserveGas, At

LEMMA ReconcileKeeps ==
  ASSUME DeliveryInv, NEW o \in Owners, ReconcileGas(o)
  PROVE  DeliveryInv'
<1> DEFINE e == pass[o].entry
<1>1. pass[o].pc = "reconcile" /\ Booked \subseteq Booked'
  BY BudgetBooks DEF ReconcileGas, LostBudgetCall, At
<1>2. Quiet
  BY <1>1 DEF ReconcileGas, worldVars, Quiet, DeliveryInv, DeliveryTypes
<1>3. Working(pass[o])
  BY <1>1 DEF Working
<1>4. e \in Entries /\ EntryFits(pass[o].req, e, Done) /\ Suits("reconcile", e, Done)
  BY <1>1, <1>3, CopyFacts
<1>5. CASE Goto(o, "release")
  BY <1>1, <1>2, <1>5, GoOn DEF Places
<1>6. CASE Goto(o, "confirm")
  <2>1. Suits("confirm", e, Done) /\ "confirm" \in Places
    BY <1>4 DEF Suits, Places, Signed
  <2> QED
    BY <1>1, <1>2, <1>6, <2>1, GoOn
<1>7. CASE SaveThen(o, Failed(e, TRUE), "release")
  <2>1. e.tx # NoTx /\ e.tx \in Done
    BY <1>4 DEF Suits, Signed
  <2>2. /\ Failed(e, TRUE) \in Entries /\ Failed(e, TRUE).tx = e.tx
        /\ Failed(e, TRUE).issued = e.issued
    BY <1>4, EntryEdits DEF Failed, Entries
  <2>3. EntryFits(pass[o].req, Failed(e, TRUE), Done)
    BY <1>4, <2>1, <2>2 DEF EntryFits
  <2>4. Suits("release", Failed(e, TRUE), Done) /\ "release" \in Continuations \ {"receipt"}
    BY DEF Suits, Signed, Continuations
  <2> QED
    BY <1>1, <1>2, <1>3, <1>7, <2>2, <2>3, <2>4, ToSave
<1> QED
  BY <1>5, <1>6, <1>7 DEF ReconcileGas

-----------------------------------------------------------------------------
\* Every step of the delivery is a script of the journal, or none.
LEMMA StepIsJournalStep ==
  ASSUME DeliveryTypes, JournalTypeOK, [DeliveryNext]_deliveryVars
  PROVE  [JournalNext]_journalVars
<1>1. ASSUME NEW o \in Owners, ~At(o, "idle")
      PROVE  pass[o].entry \in Entries /\ pass[o].req \in Requests
  BY <1>1 DEF DeliveryTypes, Passes
<1>2. ASSUME NEW o \in Owners, PassStep(o) \/ Crash(o)
      PROVE  [JournalNext]_journalVars
  <2>1. CASE SaveEntry(o)
    <3>1. ~At(o, "idle")
      BY <2>1 DEF SaveEntry, At
    <3>2. Save(o, pass[o].req, pass[o].entry) \/ UNCHANGED journalVars
      BY <2>1 DEF SaveEntry, LostJournalCall
    <3> QED
      BY <1>1, <3>1, <3>2 DEF JournalNext
  <2>2. CASE Catch(o)
    <3>1. ~At(o, "idle")
      BY <2>2 DEF Catch, At
    <3>2. CASE Leased(o, pass[o].req) /\ Save(o, pass[o].req, slot[pass[o].req].entry)
      <4>1. slot[pass[o].req].entry \in Entries
        BY <1>1, <3>1, <3>2 DEF Leased, Exists, JournalTypeOK, Slots
      <4> QED
        BY <1>1, <3>1, <3>2, <4>1 DEF JournalNext
    <3> QED
      BY <2>2, <3>2 DEF Catch
  <2>3. CASE Leave(o)
    <3>1. CASE At(o, "release") /\ Release(o, pass[o].req)
      BY <1>1, <3>1 DEF At, JournalNext
    <3> QED
      BY <2>3, <3>1 DEF Leave
  <2>4. CASE UNCHANGED journalVars
    BY <2>4
  <2> QED
    BY <1>2, <2>1, <2>2, <2>3, <2>4
       DEF PassStep, Crash, PutEvidence, RejectOutcome, CheckTarget, Fence, Sign, ReserveGas,
           ReadReceipt, Broadcast, ReconcileGas, ConfirmSource, ReadHub, ActivateEvidence,
           OnlyPass, VaultFrame, Unavailable
<1>3. ASSUME NEW o \in Owners, NEW r \in Requests, NEW retry \in BOOLEAN, Begin(o, r, retry)
      PROVE  JournalNext
  BY <1>3 DEF Begin, JournalNext
<1>4. ASSUME NEW r \in Requests, NEW issued \in BOOLEAN, Prepare(r, issued)
      PROVE  JournalNext
  BY <1>4 DEF Prepare, JournalNext, DeliveryTypes
<1>5. ASSUME NEW r \in Requests,
             Lapse(r) \/ PastPrepareUntil(r) \/ Decide(r) \/ HubApplies(r) \/ HubSupersedes(r)
      PROVE  [JournalNext]_journalVars
  BY <1>5 DEF Lapse, PastPrepareUntil, Decide, HubApplies, HubSupersedes, ChainFrame, JournalNext
<1>6. CASE Mine \/ Finalise \/ Fork \/ ClearLock \/ Midnight \/ NewList
  BY <1>6 DEF Mine, Finalise, Fork, ClearLock, Midnight, NewList, ChainFrame, JournalNext
<1>7. CASE UNCHANGED deliveryVars
  BY <1>7 DEF deliveryVars
<1> QED
  BY <1>2, <1>3, <1>4, <1>5, <1>6, <1>7 DEF DeliveryNext

\* A step of the journal that changes no entry: it may create a fresh one and
\* take away a settled one.
SlotStays(r) ==
  \/ Exists(r) /\ slot'[r] # NoSlot /\ slot'[r].entry = slot[r].entry
  \/ slot'[r] = NoSlot /\ (Exists(r) => Terminal(slot[r].entry))
  \/ ~Exists(r) /\ slot'[r] # NoSlot
       /\ slot'[r].entry.tx = NoTx /\ slot'[r].entry.phase = "prepared"
       /\ ~slot'[r].entry.reverted

\* The pass is as it was, and has no lease it did not have.
PassStays(q) ==
  /\ pass'[q] = pass[q]
  /\ Working(pass[q]) /\ slot'[pass[q].req] # NoSlot /\ slot'[pass[q].req].owner = q
       => Leased(q, pass[q].req) /\ slot'[pass[q].req].entry = slot[pass[q].req].entry

\* The pass fits after the step.
PassMoves(q) ==
  /\ pass'[q].pc # "idle" => pass'[q].req \in Requests
  /\ Working(pass'[q]) =>
       /\ PassFits(pass'[q], Done, Open, Booked)
       /\ slot'[pass'[q].req] # NoSlot /\ slot'[pass'[q].req].owner = q
            => CopyFits(pass'[q], slot'[pass'[q].req].entry, chain.final)

LEMMA EntriesStay ==
  ASSUME DeliveryInv, JournalInv', UNCHANGED <<chain, left, reservation>>, list' \in Nat,
         pass' \in [Owners -> Passes],
         \A r \in Requests : SlotStays(r),
         \A q \in Owners : PassStays(q) \/ PassMoves(q)
  PROVE  DeliveryInv'
<1>1. Done' = Done /\ Booked' = Booked
  BY DEF Done, Final, Booked
<1>2. Open' = Open
  <2>1. ASSUME NEW t \in Hashes
        PROVE  t \in Open' <=> t \in Open
    <3>1. t.req \in Requests /\ t # NoTx
      BY JournalAssumption, DeliveryAssumption
    <3>2. SlotStays(t.req)
      BY <3>1
    <3>3. \A e : Terminal(e) => ~NeedsSigner(e)
      BY DEF Terminal, NeedsSigner
    <3>4. t \in Open <=> Exists(t.req) /\ slot[t.req].entry.tx = t /\ NeedsSigner(slot[t.req].entry)
      BY DEF Open
    <3>5. t \in Open' <=> slot'[t.req] # NoSlot /\ slot'[t.req].entry.tx = t
                            /\ NeedsSigner(slot'[t.req].entry)
      BY DEF Open, Exists, NeedsSigner
    <3> QED
      BY <3>1, <3>2, <3>3, <3>4, <3>5 DEF SlotStays, Exists
  <2>2. Open \subseteq Hashes /\ Open' \subseteq Hashes
    BY DEF Open
  <2> QED
    BY <2>1, <2>2
<1>3. DeliveryTypes'
  BY DEF DeliveryInv, DeliveryTypes, At, PassStays, PassMoves
<1>4. JournalFits'
  <2>1. ASSUME NEW r \in Requests, slot'[r] # NoSlot
        PROVE  /\ EntryFits(r, slot'[r].entry, Done)
               /\ slot'[r].entry.tx # NoTx => slot'[r].entry.tx \in Booked
    <3>1. SlotStays(r)
      OBVIOUS
    <3>2. CASE Exists(r) /\ slot'[r].entry = slot[r].entry
      BY <3>2 DEF DeliveryInv, JournalFits
    <3>3. CASE slot'[r].entry.tx = NoTx /\ slot'[r].entry.phase = "prepared"
                 /\ ~slot'[r].entry.reverted
      BY <3>3 DEF EntryFits
    <3> QED
      BY <2>1, <3>1, <3>2, <3>3 DEF SlotStays
  <2> QED
    BY <1>1, <2>1 DEF JournalFits, Exists
<1>5. ChainFits' /\ LeftFits'
  BY <1>1, <1>2 DEF DeliveryInv, ChainFits, LeftFits
<1>6. PassesFit'
  <2>1. ASSUME NEW q \in Owners, Working(pass'[q])
        PROVE  /\ PassFits(pass'[q], Done, Open, Booked)
               /\ slot'[pass'[q].req] # NoSlot /\ slot'[pass'[q].req].owner = q
                    => CopyFits(pass'[q], slot'[pass'[q].req].entry, chain.final)
    <3>1. CASE PassStays(q)
      BY <2>1, <3>1 DEF PassStays, DeliveryInv, PassesFit
    <3>2. CASE PassMoves(q)
      BY <2>1, <3>2 DEF PassMoves
    <3> QED
      BY <3>1, <3>2
  <2> QED
    BY <1>1, <1>2, <2>1 DEF PassesFit, Leased, Exists
<1> QED
  BY <1>3, <1>4, <1>5, <1>6 DEF DeliveryInv

\* Steps around the passes that concern neither journal nor chain.
LEMMA AroundKeeps ==
  ASSUME DeliveryInv, UNCHANGED <<journalVars, budgetVars, pass, chain, left>>, list' \in Nat
  PROVE  DeliveryInv'
<1>1. JournalInv'
  BY JournalKeeps DEF DeliveryInv
<1>2. \A r \in Requests : SlotStays(r)
  BY DEF SlotStays, Exists, journalVars
<1>3. \A q \in Owners : PassStays(q)
  BY DEF PassStays, Leased, Exists, journalVars
<1>4. pass' \in [Owners -> Passes]
  BY DEF DeliveryInv, DeliveryTypes
<1> QED
  BY <1>1, <1>2, <1>3, <1>4, EntriesStay DEF budgetVars

LEMMA PrepareKeeps ==
  ASSUME DeliveryInv, NEW r \in Requests, NEW issued \in BOOLEAN, Prepare(r, issued)
  PROVE  DeliveryInv'
<1>1. /\ slot' = [slot EXCEPT ![r] = [entry |-> FreshEntry(issued, list), owner |-> NoOwner,
                                      until |-> Never]]
      /\ ~Exists(r) /\ Create(r, issued, list)
      /\ UNCHANGED <<pass, chain, left, reservation, list>>
  BY DEF Prepare, Create, budgetVars
<1>2. list \in Nat /\ JournalInv /\ JournalTypeOK
  BY DEF DeliveryInv, DeliveryTypes, JournalInv
<1>3. JournalInv'
  BY <1>1, <1>2, CreateKeeps
<1> DEFINE x == [entry |-> FreshEntry(issued, list), owner |-> NoOwner, until |-> Never]
<1>4. /\ slot'[r] = x /\ \A q \in Requests : q # r => slot'[q] = slot[q]
      /\ x.entry.tx = NoTx /\ x.entry.phase = "prepared" /\ ~x.entry.reverted
      /\ x.owner = NoOwner
  BY <1>1, <1>2 DEF JournalTypeOK, FreshEntry
<1>5. x # NoSlot
  <2>1. FreshEntry(issued, list) \in Entries
    BY <1>2 DEF FreshEntry, Entries, Phases
  <2>2. x \in Slots
    BY <2>1 DEF Slots
  <2> QED
    BY <2>2, NoSlotAssumption
<1> HIDE DEF x
<1>6. \A q \in Requests : SlotStays(q)
  BY <1>1, <1>4, <1>5 DEF SlotStays, Exists
<1>7. ASSUME NEW q \in Owners
      PROVE  PassStays(q)
  <2>1. q # NoOwner /\ (Working(pass[q]) => pass[q].req \in Requests)
    BY JournalAssumption DEF DeliveryInv, DeliveryTypes, Working, At
  <2> QED
    BY <1>1, <1>4, <2>1 DEF PassStays, Leased, Exists
<1>8. pass' \in [Owners -> Passes]
  BY <1>1 DEF DeliveryInv, DeliveryTypes
<1> QED
  BY <1>1, <1>2, <1>3, <1>6, <1>7, <1>8, EntriesStay

\* A lease ends or changes hands: the entries stay.
LEMMA OwnerStep ==
  ASSUME JournalInv, NEW r \in Requests, Exists(r), NEW o \in Owners \cup {NoOwner},
         slot' = [slot EXCEPT ![r].owner = o]
  PROVE  /\ \A q \in Requests : SlotStays(q)
         /\ slot'[r] # NoSlot /\ slot'[r].owner = o /\ slot'[r].entry = slot[r].entry
         /\ \A q \in Requests : q # r => slot'[q] = slot[q]
<1> DEFINE x == [slot[r] EXCEPT !.owner = o]
<1>1. slot[r] \in Slots
  BY DEF JournalInv, JournalTypeOK, Exists
<1>2. x \in Slots /\ x.entry = slot[r].entry /\ x.owner = o
  BY <1>1 DEF Slots
<1>3. slot' = [slot EXCEPT ![r] = x]
  OBVIOUS
<1> HIDE DEF x
<1>4. /\ slot'[r] = x /\ slot'[r] # NoSlot
      /\ \A q \in Requests : q # r => slot'[q] = slot[q]
  BY <1>2, <1>3, OneSlot DEF JournalInv
<1> QED
  BY <1>2, <1>4 DEF SlotStays, Exists

LEMMA LapseLeavesPasses ==
  ASSUME DeliveryInv, NEW r \in Requests, Lapse(r)
  PROVE  DeliveryInv'
<1>1. /\ Exists(r) /\ slot' = [slot EXCEPT ![r].owner = NoOwner]
      /\ UNCHANGED <<pass, chain, left, reservation, list>>
  BY DEF Lapse, LeaseLapses, budgetVars, worldVars
<1>2. JournalInv'
  BY LapseKeeps DEF DeliveryInv, Lapse
<1>3. /\ \A q \in Requests : SlotStays(q)
      /\ slot'[r].owner = NoOwner /\ \A q \in Requests : q # r => slot'[q] = slot[q]
  BY <1>1, OwnerStep DEF DeliveryInv
<1>4. ASSUME NEW q \in Owners
      PROVE  PassStays(q)
  <2>1. q # NoOwner /\ (Working(pass[q]) => pass[q].req \in Requests)
    BY JournalAssumption DEF DeliveryInv, DeliveryTypes, Working, At
  <2> QED
    BY <1>1, <1>3, <2>1 DEF PassStays, Leased, Exists
<1> QED
  BY <1>1, <1>2, <1>3, <1>4, EntriesStay DEF DeliveryInv, DeliveryTypes

LEMMA MidnightKeeps ==
  ASSUME DeliveryInv, Midnight
  PROVE  DeliveryInv'
<1>1. JournalInv' /\ \A r \in Requests : SlotStays(r)
  BY TickKeeps DEF DeliveryInv, Midnight, SlotStays
<1>2. \A q \in Owners : PassStays(q)
  BY DEF Midnight, PassStays, Working, At
<1> QED
  BY <1>1, <1>2, EntriesStay DEF Midnight, DeliveryInv, DeliveryTypes, budgetVars

LEMMA LeaveKeeps ==
  ASSUME DeliveryInv, NEW o \in Owners, Leave(o)
  PROVE  DeliveryInv'
<1> DEFINE r == pass[o].req
<1>1. /\ pass' = [pass EXCEPT ![o] = Idle] /\ r \in Requests
      /\ UNCHANGED <<chain, left, reservation, list>>
  BY DEF Leave, At, DeliveryInv, DeliveryTypes, budgetVars, worldVars
<1>2. /\ pass' \in [Owners -> Passes] /\ pass'[o] = Idle
      /\ \A q \in Owners : q # o => pass'[q] = pass[q]
  BY <1>1, IdleIsPass DEF DeliveryInv, DeliveryTypes
<1>3. PassMoves(o)
  BY <1>2, IdleIsPass DEF PassMoves, Working
<1>4. CASE Exists(r) /\ slot[r].owner = o /\ Release(o, r)
  <2>1. JournalInv'
    BY <1>1, <1>4, ReleaseKeeps DEF DeliveryInv
  <2>2. /\ \A q \in Requests : SlotStays(q)
        /\ slot'[r].owner = NoOwner /\ \A q \in Requests : q # r => slot'[q] = slot[q]
    BY <1>1, <1>4, OwnerStep DEF DeliveryInv, Release
  <2>3. ASSUME NEW q \in Owners, q # o
        PROVE  PassStays(q)
    <3>1. q # NoOwner /\ (Working(pass[q]) => pass[q].req \in Requests)
      BY JournalAssumption DEF DeliveryInv, DeliveryTypes, Working, At
    <3> QED
      BY <1>2, <2>2, <2>3, <3>1 DEF PassStays, Leased, Exists
  <2> QED
    BY <1>1, <1>2, <1>3, <2>1, <2>2, <2>3, EntriesStay DEF DeliveryInv, DeliveryTypes
<1>5. CASE UNCHANGED journalVars
  <2>1. JournalInv'
    BY <1>5, JournalKeeps DEF DeliveryInv
  <2>2. \A q \in Requests : SlotStays(q)
    BY <1>5 DEF SlotStays, Exists, journalVars
  <2>3. \A q \in Owners : q # o => PassStays(q)
    BY <1>2, <1>5 DEF PassStays, Leased, Exists, journalVars
  <2> QED
    BY <1>1, <1>2, <1>3, <2>1, <2>2, <2>3, EntriesStay DEF DeliveryInv, DeliveryTypes
<1> QED
  BY <1>4, <1>5 DEF Leave, Release, journalVars

LEMMA BeginKeeps ==
  ASSUME DeliveryInv, NEW o \in Owners, NEW r \in Requests, NEW retry \in BOOLEAN,
         Begin(o, r, retry)
  PROVE  DeliveryInv'
<1> DEFINE e == slot[r].entry
           expired == e.phase = "prepared" /\ e.tx = NoTx /\ e.issued /\ r \in late
           p == [req |-> r,
                 pc |-> IF expired THEN "save"
                        ELSE IF ~e.stored THEN "put" ELSE IF e.issued THEN "target" ELSE "reject",
                 entry |-> IF expired THEN Failed(e, FALSE) ELSE e,
                 then |-> IF expired THEN "release" ELSE "idle"]
<1>1. /\ pass' = [pass EXCEPT ![o] = p] /\ Acquire(o, r) /\ Exists(r)
      /\ e.phase = "failed" => e.reverted
      /\ UNCHANGED <<chain, left, reservation, list>>
  BY DEF Begin, Acquire, MayAcquire, budgetVars, worldVars
<1>2. e \in Entries /\ e.issued \in BOOLEAN /\ e.stored \in BOOLEAN
  BY <1>1 DEF DeliveryInv, JournalInv, JournalTypeOK, Exists, Slots, Entries
<1>3. /\ EntryFits(r, e, Done) /\ (e.tx # NoTx => e.tx \in Booked /\ e.tx \in Open \cup Done)
  <2>1. EntryFits(r, e, Done) /\ (e.tx # NoTx => e.tx \in Booked)
    BY <1>1 DEF DeliveryInv, JournalFits
  <2>2. ASSUME e.tx # NoTx
        PROVE  e.tx \in Open \cup Done
    <3>1. e.tx \in Hashes
      BY <1>2, <2>2 DEF Entries
    <3> QED
      BY <1>1, <2>1, <2>2, <3>1 DEF Open, EntryFits
  <2> QED
    BY <2>1, <2>2
<1>4. JournalInv'
  BY <1>1, AcquireKeeps DEF DeliveryInv
<1>5. /\ \A q \in Requests : SlotStays(q)
      /\ slot'[r] # NoSlot /\ slot'[r].owner = o /\ slot'[r].entry = e
      /\ \A q \in Requests : q # r => slot'[q] = slot[q]
  BY <1>1, OwnerStep DEF DeliveryInv, Acquire
<1>6. /\ p \in Passes /\ p.req = r /\ p.pc \in {"save", "put", "target", "reject"}
      /\ p.pc = "save" => expired /\ p.then = "release" /\ p.entry = Failed(e, FALSE)
      /\ p.pc # "save" => p.entry = e
      /\ p.pc = "target" => e.issued
      /\ p.pc = "reject" => ~e.issued
  <2>1. Failed(e, FALSE) \in Entries
    BY <1>2, EntryEdits
  <2>2. {"save", "put", "target", "reject", "release", "idle"} \subseteq Places
    BY DEF Places
  <2>3. CASE expired
    BY <1>2, <2>1, <2>2, <2>3 DEF Passes
  <2>4. CASE ~expired
    BY <1>2, <2>2, <2>4 DEF Passes
  <2> QED
    BY <2>3, <2>4
<1> HIDE DEF p
<1>7. /\ pass' \in [Owners -> Passes] /\ pass'[o] = p
      /\ \A q \in Owners : q # o => pass'[q] = pass[q]
  BY <1>1, <1>6 DEF DeliveryInv, DeliveryTypes
<1>8. PassFits(p, Done, Open, Booked) /\ CopyFits(p, e, chain.final)
  <2>1. CASE p.pc = "save"
    <3>1. /\ Stage(p) = "release" /\ ~Fresh(p) /\ e.tx = NoTx
          /\ p.then \in Continuations
      BY <1>6, <2>1 DEF Stage, Fresh, Continuations
    <3>2. p.entry.tx = NoTx /\ p.entry.phase = "failed" /\ ~p.entry.reverted
      BY <1>2, <1>6, <2>1, <3>1 DEF Failed, Entries
    <3>3. EntryFits(r, p.entry, Done) /\ Suits("release", p.entry, Done)
      BY <3>2 DEF EntryFits, Suits, Signed
    <3> QED
      BY <1>6, <2>1, <3>1, <3>2, <3>3 DEF PassFits, CopyFits
  <2>2. CASE p.pc # "save"
    <3>1. /\ Stage(p) = p.pc /\ ~Fresh(p) /\ p.entry = e /\ p.pc # "reserve-new"
      BY <1>6, <2>2 DEF Stage, Fresh
    <3>2. Suits(p.pc, e, Done)
      BY <1>1, <1>6, <2>2 DEF Suits, Signed
    <3> QED
      BY <1>3, <1>6, <2>2, <3>1, <3>2 DEF PassFits, CopyFits
  <2> QED
    BY <2>1, <2>2
<1>9. PassMoves(o)
  BY <1>5, <1>6, <1>7, <1>8 DEF PassMoves
<1>10. ASSUME NEW q \in Owners, q # o
       PROVE  PassStays(q)
  <2>1. Working(pass[q]) => pass[q].req \in Requests
    BY DEF DeliveryInv, DeliveryTypes, Working, At
  <2> QED
    BY <1>5, <1>7, <1>10, <2>1 DEF PassStays, Leased, Exists
<1>11. list' \in Nat
  BY <1>1 DEF DeliveryInv, DeliveryTypes
<1> QED
  BY <1>1, <1>4, <1>5, <1>7, <1>9, <1>10, <1>11, EntriesStay

-----------------------------------------------------------------------------
(***************************************************************************)
(* A save: the copy becomes the entry.  An open transaction stays open or  *)
(* is done, and a new one was signed when none was open.                   *)
(***************************************************************************)
LEMMA SaveStep ==
  ASSUME DeliveryInv, NEW o \in Owners, NEW r \in Requests, NEW e \in Entries, Save(o, r, e),
         EntryFits(r, e, Done),
         e.tx # NoTx => e.tx \in Booked /\ (e.tx \in Open \cup Done \/ e.tx.nonce >= chain.final),
         slot[r].entry.tx = NoTx \/ ~NeedsSigner(slot[r].entry) \/ e.tx = slot[r].entry.tx,
         UNCHANGED <<chain, left, reservation, list>>,
         pass' \in [Owners -> Passes],
         \A q \in Owners : q # o => pass'[q] = pass[q],
         pass'[o].req = r,
         Working(pass'[o]) =>
           /\ e.tx # NoTx /\ NeedsSigner(e) => PassFits(pass'[o], Done, Open \cup {e.tx}, Booked)
           /\ e.tx = NoTx \/ ~NeedsSigner(e) => PassFits(pass'[o], Done, Open, Booked)
           /\ CopyFits(pass'[o], e, chain.final)
  PROVE  DeliveryInv'
<1>1. Done' = Done /\ Booked' = Booked
  BY DEF Done, Final, Booked
<1>2. /\ JournalInv'
      /\ slot'[r] # NoSlot /\ slot'[r].entry = e /\ slot'[r].owner = o
      /\ \A q \in Requests : q # r => slot'[q] = slot[q]
  BY SaveKeeps DEF DeliveryInv
<1>3. ASSUME NEW t \in Open
      PROVE  t \in Open' \cup Done
  <2>1. /\ t \in Hashes /\ t.req \in Requests /\ t # NoTx
        /\ Exists(t.req) /\ slot[t.req].entry.tx = t /\ NeedsSigner(slot[t.req].entry)
    BY JournalAssumption, DeliveryAssumption DEF Open
  <2>2. CASE t.req = r
    <3>1. e.tx = t
      BY <2>1, <2>2
    <3>2. NeedsSigner(e) \/ t \in Done
      BY <2>1, <3>1 DEF EntryFits
    <3> QED
      BY <1>2, <2>1, <2>2, <3>1, <3>2 DEF Open, Exists, NeedsSigner
  <2>3. CASE t.req # r
    BY <1>2, <2>1, <2>3 DEF Open, Exists, NeedsSigner
  <2> QED
    BY <2>2, <2>3
<1>4. ASSUME NEW t \in Open'
      PROVE  t \in Open \/ (t = e.tx /\ e.tx # NoTx)
  <2>1. /\ t \in Hashes /\ t.req \in Requests /\ t # NoTx
        /\ slot'[t.req] # NoSlot /\ slot'[t.req].entry.tx = t /\ NeedsSigner(slot'[t.req].entry)
    BY <1>4, JournalAssumption, DeliveryAssumption DEF Open, Exists, NeedsSigner
  <2> QED
    BY <1>2, <2>1 DEF Open, Exists
<1>5. e.tx # NoTx /\ NeedsSigner(e) => e.tx \in Open'
  BY <1>2 DEF EntryFits, Entries, Open, Exists, NeedsSigner
<1>6. DeliveryTypes'
  BY DEF DeliveryInv, DeliveryTypes, At
<1>7. JournalFits'
  BY <1>1, <1>2 DEF DeliveryInv, JournalFits, Exists
<1>8. ChainFits'
  <2>1. chain.final \in Nat /\ Len(chain.mined) \in Nat /\ chain.final <= Len(chain.mined)
    BY DEF DeliveryInv, DeliveryTypes, ChainFits
  <2>2. ASSUME NEW i \in 1 .. Len(chain.mined)
        PROVE  /\ chain.mined[i].tx.nonce = i - 1
               /\ i > chain.final => chain.mined[i].tx \in Open'
    <3>1. /\ chain.mined[i].tx.nonce = i - 1
          /\ i > chain.final => chain.mined[i].tx \in Open
      BY DEF DeliveryInv, ChainFits
    <3>2. \A t \in Done : t.nonce < chain.final
      BY DoneBelow DEF DeliveryInv
    <3> QED
      BY <1>3, <2>1, <3>1, <3>2
  <2>3. ASSUME NEW t \in chain.pool
        PROVE  t \in Open' /\ t.nonce >= Len(chain.mined)
    <3>1. t \in Open /\ t.nonce >= Len(chain.mined) /\ t.nonce \in Nat
      BY DeliveryAssumption DEF DeliveryInv, ChainFits, Open
    <3>2. t \notin Done
      BY <2>1, <3>1, DoneBelow DEF DeliveryInv
    <3> QED
      BY <1>3, <3>1, <3>2
  <2>4. ASSUME NEW t \in Open'
        PROVE  t \in Done \/ t.nonce >= chain.final
    BY <1>4 DEF DeliveryInv, ChainFits
  <2> QED
    BY <1>1, <2>1, <2>2, <2>3, <2>4 DEF ChainFits
<1>9. LeftFits'
  BY <1>1, <1>3 DEF DeliveryInv, LeftFits
<1>10. PassesFit'
  <2>1. ASSUME NEW q \in Owners, q # o, Working(pass'[q])
        PROVE  /\ PassFits(pass'[q], Done', Open', Booked')
               /\ slot'[pass'[q].req] # NoSlot /\ slot'[pass'[q].req].owner = q
                    => CopyFits(pass'[q], slot'[pass'[q].req].entry, chain.final)
    <3>1. /\ pass'[q] = pass[q] /\ Working(pass[q]) /\ pass[q].req \in Requests
          /\ PassFits(pass[q], Done, Open, Booked)
      BY <2>1 DEF DeliveryInv, PassesFit, DeliveryTypes, Working, At
    <3>2. PassFits(pass[q], Done', Open', Booked')
      BY <1>1, <1>3, <3>1, FitsStay
    <3>3. slot'[pass[q].req] # NoSlot /\ slot'[pass[q].req].owner = q
            => Leased(q, pass[q].req) /\ slot'[pass[q].req] = slot[pass[q].req]
      BY <1>2, <2>1, <3>1 DEF Leased, Exists
    <3> QED
      BY <3>1, <3>2, <3>3 DEF DeliveryInv, PassesFit
  <2>2. ASSUME Working(pass'[o])
        PROVE  /\ PassFits(pass'[o], Done', Open', Booked')
               /\ CopyFits(pass'[o], slot'[pass'[o].req].entry, chain.final)
    <3>1. CASE e.tx # NoTx /\ NeedsSigner(e)
      <4>1. PassFits(pass'[o], Done, Open \cup {e.tx}, Booked)
        BY <2>2, <3>1
      <4>2. Open \cup {e.tx} \subseteq Open' \cup Done'
        BY <1>1, <1>3, <1>5, <3>1
      <4> QED
        BY <1>1, <1>2, <2>2, <4>1, <4>2, FitsStay
    <3>2. CASE e.tx = NoTx \/ ~NeedsSigner(e)
      <4>1. PassFits(pass'[o], Done, Open, Booked)
        BY <2>2, <3>2
      <4>2. Open \subseteq Open' \cup Done'
        BY <1>1, <1>3
      <4> QED
        BY <1>1, <1>2, <2>2, <4>1, <4>2, FitsStay
    <3> QED
      BY <3>1, <3>2
  <2> QED
    BY <2>1, <2>2 DEF PassesFit, Leased, Exists
<1> QED
  BY <1>2, <1>6, <1>7, <1>8, <1>9, <1>10 DEF DeliveryInv

LEMMA SaveEntryKeeps ==
  ASSUME DeliveryInv, NEW o \in Owners, SaveEntry(o)
  PROVE  DeliveryInv'
<1> DEFINE r == pass[o].req e == pass[o].entry
<1>1. /\ pass[o].pc = "save" /\ Working(pass[o])
      /\ UNCHANGED <<chain, left, reservation, list>>
  BY DEF SaveEntry, At, Working, budgetVars, worldVars
<1>2. /\ e \in Entries /\ r \in Requests /\ PassFits(pass[o], Done, Open, Booked)
      /\ EntryFits(r, e, Done) /\ pass[o].then \in Continuations
      /\ Suits(pass[o].then, e, Done)
  BY <1>1, CopyFacts DEF PassFits, Stage
<1>3. /\ pass[o].then \in Places /\ "release" \in Places
      /\ pass[o].then \notin {"save", "reserve-new", "idle", "error"}
  BY <1>2 DEF Continuations, Places
<1>4. CASE UNCHANGED journalVars /\ Goto(o, "release")
  <2>1. Quiet
    BY <1>1, <1>4 DEF Quiet, Booked, DeliveryInv, DeliveryTypes
  <2> QED
    BY <1>1, <1>3, <1>4, <2>1, GoOn
<1>5. ASSUME Save(o, r, e), NEW pc \in {"release", pass[o].then}, Goto(o, pc)
      PROVE  DeliveryInv'
  <2>1. /\ pass' \in [Owners -> Passes]
        /\ pass'[o].pc = pc /\ pass'[o].req = r
        /\ pc \notin {"error", "release"} => pass'[o].entry = e
        /\ \A q \in Owners : q # o => pass'[q] = pass[q]
    BY <1>3, <1>5, GotoPass DEF DeliveryInv, DeliveryTypes
  <2>2. Leased(o, r) /\ CopyFits(pass[o], slot[r].entry, chain.final)
    BY <1>1, <1>5 DEF Save, MaySave, DeliveryInv, PassesFit
  <2>3. e.tx # NoTx =>
          e.tx \in Booked /\ (e.tx \in Open \cup Done \/ e.tx.nonce >= chain.final)
    BY <1>1, <1>2, <2>2 DEF PassFits, CopyFits
  <2>4. slot[r].entry.tx = NoTx \/ ~NeedsSigner(slot[r].entry) \/ e.tx = slot[r].entry.tx
    BY <1>1, <2>2 DEF CopyFits
  <2>5. ASSUME Working(pass'[o])
        PROVE  /\ e.tx # NoTx /\ NeedsSigner(e) =>
                    PassFits(pass'[o], Done, Open \cup {e.tx}, Booked)
               /\ e.tx = NoTx \/ ~NeedsSigner(e) => PassFits(pass'[o], Done, Open, Booked)
               /\ CopyFits(pass'[o], e, chain.final)
    <3>1. /\ pc = pass[o].then /\ pass'[o].entry = e
          /\ pc \notin {"release", "save", "reserve-new"}
      BY <1>3, <2>1, <2>5 DEF Working
    <3>2. Stage(pass'[o]) = pc /\ ~Fresh(pass'[o])
      BY <2>1, <3>1 DEF Stage, Fresh
    <3>3. CopyFits(pass'[o], e, chain.final)
      BY <2>1, <3>1, <3>2 DEF CopyFits
    <3>4. ASSUME NEW open, e.tx # NoTx => e.tx \in open \cup Done
          PROVE  PassFits(pass'[o], Done, open, Booked)
      BY <1>2, <2>1, <2>3, <3>1, <3>2, <3>4 DEF PassFits
    <3>5. e.tx # NoTx => NeedsSigner(e) \/ e.tx \in Done
      BY <1>2 DEF EntryFits
    <3> QED
      BY <3>3, <3>4, <3>5
  <2> QED
    BY <1>1, <1>2, <1>5, <2>1, <2>3, <2>4, <2>5, SaveStep
<1> QED
  BY <1>4, <1>5 DEF SaveEntry, LostJournalCall

\* The catch block saves the entry as it is.
LEMMA CatchKeeps ==
  ASSUME DeliveryInv, NEW o \in Owners, Catch(o)
  PROVE  DeliveryInv'
<1> DEFINE r == pass[o].req e == slot[r].entry
<1>1. /\ pass[o].pc = "error" /\ r \in Requests /\ Goto(o, "release") /\ "release" \in Places
      /\ UNCHANGED <<chain, left, reservation, list>>
  BY DEF Catch, At, budgetVars, worldVars, DeliveryInv, DeliveryTypes, Places
<1>2. CASE UNCHANGED journalVars
  <2>1. Quiet
    BY <1>1, <1>2 DEF Quiet, Booked, DeliveryInv, DeliveryTypes
  <2> QED
    BY <1>1, <2>1, GoOn
<1>3. CASE Leased(o, r) /\ Save(o, r, e)
  <2>1. e \in Entries
    BY <1>1, <1>3 DEF Leased, Exists, DeliveryInv, JournalInv, JournalTypeOK, Slots
  <2>2. EntryFits(r, e, Done) /\ (e.tx # NoTx => e.tx \in Booked)
    BY <1>1, <1>3 DEF Leased, DeliveryInv, JournalFits
  <2>3. e.tx # NoTx => e.tx \in Open \cup Done
    BY <1>3, <2>1, <2>2 DEF Entries, Open, EntryFits, Leased
  <2>4. /\ pass' \in [Owners -> Passes] /\ pass'[o].pc = "release" /\ pass'[o].req = r
        /\ \A q \in Owners : q # o => pass'[q] = pass[q]
    BY <1>1, GotoPass DEF DeliveryInv, DeliveryTypes
  <2>5. ~Working(pass'[o])
    BY <2>4 DEF Working
  <2> QED
    BY <1>1, <1>3, <2>1, <2>2, <2>3, <2>4, <2>5, SaveStep
<1> QED
  BY <1>2, <1>3 DEF Catch

-----------------------------------------------------------------------------
\* Steps of the source chain.
LEMMA ChainStep ==
  ASSUME DeliveryInv, UNCHANGED <<journalVars, reservation, list, pass, left>>,
         chain' \in [pool : SUBSET Hashes, mined : Seq(Blocks), final : Nat],
         Done \subseteq Done', ChainFits',
         \/ chain'.final = chain.final
         \/ \A o \in Owners : Leased(o, pass[o].req) /\ Working(pass[o]) => ~Fresh(pass[o])
  PROVE  DeliveryInv'
<1>1. /\ Open' = Open /\ Booked' = Booked /\ slot' = slot /\ pass' = pass
  BY DEF journalVars, Open, Exists, Booked
<1>2. DeliveryTypes'
  BY DEF DeliveryInv, DeliveryTypes, At
<1>3. JournalInv'
  BY JournalKeeps DEF DeliveryInv
<1>4. JournalFits'
  <2>1. \A r \in Requests : \A e : EntryFits(r, e, Done) => EntryFits(r, e, Done')
    BY DEF EntryFits
  <2> QED
    BY <1>1, <2>1 DEF DeliveryInv, JournalFits, Exists
<1>5. LeftFits'
  BY <1>1 DEF DeliveryInv, LeftFits
<1>6. PassesFit'
  <2>1. ASSUME NEW q \in Owners, Working(pass[q])
        PROVE  /\ PassFits(pass[q], Done', Open', Booked')
               /\ Leased(q, pass[q].req) => CopyFits(pass[q], slot[pass[q].req].entry, chain'.final)
    <3>1. PassFits(pass[q], Done, Open, Booked)
      BY <2>1 DEF DeliveryInv, PassesFit
    <3>2. PassFits(pass[q], Done', Open', Booked')
      BY <1>1, <3>1, FitsStay
    <3>3. Leased(q, pass[q].req) => CopyFits(pass[q], slot[pass[q].req].entry, chain'.final)
      BY <2>1 DEF DeliveryInv, PassesFit, CopyFits
    <3> QED
      BY <3>2, <3>3
  <2> QED
    BY <1>1, <2>1 DEF PassesFit, Leased, Exists
<1> QED
  BY <1>2, <1>3, <1>4, <1>5, <1>6 DEF DeliveryInv

LEMMA MineKeeps ==
  ASSUME DeliveryInv, Mine
  PROVE  DeliveryInv'
<1>1. PICK t \in chain.pool, ok \in BOOLEAN :
        /\ t.nonce = Len(chain.mined)
        /\ chain' = [chain EXCEPT !.pool = @ \ {t}, !.mined = Append(@, [tx |-> t, ok |-> ok])]
  BY DEF Mine
<1> DEFINE n == Len(chain.mined) b == [tx |-> t, ok |-> ok]
<1>2. /\ chain.pool \subseteq Hashes /\ chain.mined \in Seq(Blocks) /\ chain.final \in Nat
      /\ n \in Nat /\ chain.final <= n
  BY DEF DeliveryInv, DeliveryTypes, ChainFits
<1>3. b \in Blocks /\ b.tx = t
  BY <1>1, <1>2 DEF Blocks
<1> HIDE DEF b
<1>4. /\ chain'.pool = chain.pool \ {t} /\ chain'.mined = Append(chain.mined, b)
      /\ chain'.final = chain.final
      /\ chain' \in [pool : SUBSET Hashes, mined : Seq(Blocks), final : Nat]
  <2>1. Append(chain.mined, b) \in Seq(Blocks)
    BY <1>2, <1>3, AppendProperties
  <2>2. chain' = [chain EXCEPT !.pool = chain.pool \ {t}, !.mined = Append(chain.mined, b)]
    BY <1>1 DEF b
  <2> QED
    BY <1>2, <2>1, <2>2 DEF DeliveryInv, DeliveryTypes
<1>5. /\ Len(chain'.mined) = n + 1 /\ chain'.mined[n + 1] = b
      /\ \A i \in 1 .. n : chain'.mined[i] = chain.mined[i]
  BY <1>2, <1>3, <1>4, AppendProperties
<1>6. Done' = Done
  <2>1. Final' = Final
    BY <1>2, <1>4, <1>5 DEF Final
  <2> QED
    BY <2>1 DEF Done
<1>7. Open' = Open
  BY DEF Mine, ChainFrame, journalVars, Open, Exists
<1>8. t \in Open /\ \A u \in chain.pool : u = t
  BY OneOpen DEF DeliveryInv, ChainFits
<1>9. ChainFits'
  <2>1. ASSUME NEW i \in 1 .. n + 1
        PROVE  /\ chain'.mined[i].tx.nonce = i - 1
               /\ i > chain.final => chain'.mined[i].tx \in Open
    <3>1. CASE i = n + 1
      BY <1>1, <1>2, <1>3, <1>5, <1>8, <3>1
    <3>2. CASE i \in 1 .. n
      BY <1>5, <3>2 DEF DeliveryInv, ChainFits
    <3> QED
      BY <1>2, <3>1, <3>2
  <2>2. \A u \in Open : u \in Done \/ u.nonce >= chain.final
    BY DEF DeliveryInv, ChainFits
  <2> QED
    BY <1>2, <1>4, <1>5, <1>6, <1>7, <1>8, <2>1, <2>2 DEF ChainFits
<1> QED
  BY <1>4, <1>6, <1>9, ChainStep DEF Mine, ChainFrame, budgetVars

LEMMA FinaliseKeeps ==
  ASSUME DeliveryInv, Finalise
  PROVE  DeliveryInv'
<1> DEFINE n == Len(chain.mined) f == chain.final t == chain.mined[f + 1].tx
<1>1. /\ chain' = [chain EXCEPT !.final = f + 1] /\ f < n
      /\ chain.mined \in Seq(Blocks) /\ f \in Nat /\ n \in Nat
  BY DEF Finalise, DeliveryInv, DeliveryTypes
<1>2. /\ chain'.final = f + 1 /\ chain'.mined = chain.mined /\ chain'.pool = chain.pool
      /\ chain' \in [pool : SUBSET Hashes, mined : Seq(Blocks), final : Nat]
  BY <1>1 DEF DeliveryInv, DeliveryTypes
<1>3. t \in Open
  <2>1. \A i \in 1 .. n : i > f => chain.mined[i].tx \in Open
    BY DEF DeliveryInv, ChainFits
  <2>2. f + 1 \in 1 .. n /\ f + 1 > f
    BY <1>1
  <2> QED
    BY <2>1, <2>2
<1>4. Done \subseteq Done' /\ t \in Done'
  <2>1. Final \subseteq Final' /\ chain.mined[f + 1] \in Final'
    BY <1>1, <1>2 DEF Final
  <2> QED
    BY <2>1 DEF Done
<1>5. Open' = Open
  BY DEF Finalise, ChainFrame, journalVars, Open, Exists
<1>6. \A u \in Open : u = t
  BY <1>3, OneOpen DEF DeliveryInv
<1>7. ChainFits'
  <2>1. f + 1 <= n
    BY <1>1
  <2>2. ASSUME NEW i \in 1 .. n
        PROVE  /\ chain.mined[i].tx.nonce = i - 1
               /\ i > f + 1 => chain.mined[i].tx \in Open
    BY <1>1 DEF DeliveryInv, ChainFits
  <2>3. \A u \in chain.pool : u \in Open /\ u.nonce >= n
    BY DEF DeliveryInv, ChainFits
  <2> QED
    BY <1>2, <1>4, <1>5, <1>6, <2>1, <2>2, <2>3 DEF ChainFits
<1>8. ASSUME NEW o \in Owners, Leased(o, pass[o].req), Working(pass[o])
      PROVE  ~Fresh(pass[o])
  <2> DEFINE r == pass[o].req
  <2>1. r \in Requests /\ CopyFits(pass[o], slot[r].entry, f)
    BY <1>8 DEF DeliveryInv, DeliveryTypes, PassesFit, Working, At
  <2>2. ASSUME Fresh(pass[o])
        PROVE  FALSE
    <3>1. NeedsSigner(slot[r].entry) /\ slot[r].entry.tx = NoTx
      BY <2>1, <2>2 DEF CopyFits
    <3>2. gate = r
      BY <1>8, <2>1, <3>1, JournalAssumption DEF DeliveryInv, JournalInv, LeaseHoldsGate, Leased
    <3> QED
      BY <1>3, <3>1, <3>2, OneOpen, JournalAssumption DEF DeliveryInv
  <2> QED
    BY <2>2
<1> QED
  BY <1>2, <1>4, <1>7, <1>8, ChainStep DEF Finalise, ChainFrame, budgetVars

LEMMA ForkKeeps ==
  ASSUME DeliveryInv, Fork
  PROVE  DeliveryInv'
<1> DEFINE n == Len(chain.mined) f == chain.final t == chain.mined[n].tx
<1>1. /\ f < n /\ chain.mined \in Seq(Blocks) /\ f \in Nat /\ n \in Nat
      /\ chain.pool \subseteq Hashes
  BY DEF Fork, DeliveryInv, DeliveryTypes
<1>2. /\ t \in Open /\ t \in Hashes /\ t.nonce = n - 1
  <2>1. n \in 1 .. n /\ n > f
    BY <1>1
  <2>2. \A i \in 1 .. n : chain.mined[i].tx.nonce = i - 1 /\ (i > f => chain.mined[i].tx \in Open)
    BY DEF DeliveryInv, ChainFits
  <2> QED
    BY <2>1, <2>2 DEF Open
<1>3. PICK pool \in {chain.pool, chain.pool \cup {t}} :
        chain' = [chain EXCEPT !.mined = SubSeq(chain.mined, 1, n - 1), !.pool = pool]
  BY DEF Fork
<1> DEFINE m == SubSeq(chain.mined, 1, n - 1)
<1>4. /\ m \in Seq(Blocks) /\ Len(m) = n - 1
      /\ \A i \in 1 .. n - 1 : m[i] = chain.mined[i]
  BY <1>1
<1> HIDE DEF m
<1>5. /\ chain'.mined = m /\ chain'.pool = pool /\ chain'.final = f
      /\ chain' \in [pool : SUBSET Hashes, mined : Seq(Blocks), final : Nat]
  BY <1>1, <1>2, <1>3, <1>4 DEF m, DeliveryInv, DeliveryTypes
<1>6. Done' = Done
  <2>1. Final' = Final
    BY <1>1, <1>4, <1>5 DEF Final
  <2> QED
    BY <2>1 DEF Done
<1>7. Open' = Open
  BY DEF Fork, ChainFrame, journalVars, Open, Exists
<1>8. ChainFits'
  <2>1. ASSUME NEW i \in 1 .. n - 1
        PROVE  /\ m[i].tx.nonce = i - 1
               /\ i > f => m[i].tx \in Open
    <3>1. i \in 1 .. n /\ m[i] = chain.mined[i]
      BY <1>1, <1>4
    <3> QED
      BY <3>1 DEF DeliveryInv, ChainFits
  <2>2. ASSUME NEW u \in pool
        PROVE  u \in Open /\ u.nonce >= n - 1
    <3>1. CASE u \in chain.pool
      <4>1. u \in Open /\ u.nonce >= n /\ u.nonce \in Nat
        BY <3>1, DeliveryAssumption DEF DeliveryInv, ChainFits, Open
      <4> QED
        BY <1>1, <4>1
    <3>2. CASE u = t
      BY <1>1, <1>2, <3>2
    <3> QED
      BY <3>1, <3>2
  <2>3. \A u \in Open : u \in Done \/ u.nonce >= f
    BY DEF DeliveryInv, ChainFits
  <2>4. f <= n - 1
    BY <1>1
  <2> QED
    BY <1>4, <1>5, <1>6, <1>7, <2>1, <2>2, <2>3, <2>4 DEF ChainFits
<1> QED
  BY <1>5, <1>6, <1>8, ChainStep DEF Fork, ChainFrame, budgetVars

\* The node may take the bytes; the entry that names them was saved before.
LEMMA BroadcastKeeps ==
  ASSUME DeliveryInv, NEW o \in Owners, Broadcast(o)
  PROVE  DeliveryInv'
<1> DEFINE e == pass[o].entry t == e.tx r == pass[o].req
<1>1. /\ pass[o].pc = "broadcast" /\ left' = left \cup {t}
      /\ chain' = Pooled(t) \/ chain' = chain
      /\ SaveThen(o, e, "receipt-again")
      /\ UNCHANGED <<slot, gate, tick, reservation, list>>
  BY DEF Broadcast, At, journalVars, budgetVars
<1>2. Working(pass[o])
  BY <1>1 DEF Working
<1>3. /\ e \in Entries /\ r \in Requests /\ PassFits(pass[o], Done, Open, Booked)
      /\ t # NoTx /\ ~Fresh(pass[o])
  BY <1>1, <1>2, CopyFacts DEF Suits, Signed, Fresh
<1>4. t \in Hashes /\ t \in Booked /\ t \in Open \cup Done
  BY <1>3 DEF PassFits, Entries
<1>5. /\ chain' \in [pool : SUBSET Hashes, mined : Seq(Blocks), final : Nat]
      /\ chain'.mined = chain.mined /\ chain'.final = chain.final
      /\ \/ chain'.pool = chain.pool
         \/ chain'.pool = chain.pool \cup {t} /\ t.nonce >= Len(chain.mined)
  BY <1>1, <1>4 DEF Pooled, DeliveryInv, DeliveryTypes
<1>6. Done' = Done /\ Open' = Open /\ Booked' = Booked
  BY <1>1, <1>5 DEF Done, Final, Open, Exists, Booked
<1>7. /\ pass' \in [Owners -> Passes]
      /\ pass'[o].pc = "save" /\ pass'[o].then = "receipt-again" /\ pass'[o].req = r
      /\ pass'[o].entry = e
      /\ \A q \in Owners : q # o => pass'[q] = pass[q]
  BY <1>1, <1>3, SaveThenPass DEF DeliveryInv, DeliveryTypes, Places
<1>8. DeliveryTypes'
  BY <1>1, <1>3, <1>4, <1>5, <1>7 DEF DeliveryInv, DeliveryTypes, At
<1>9. JournalInv'
  BY <1>1, JournalKeeps DEF DeliveryInv, journalVars
<1>10. JournalFits'
  BY <1>1, <1>6 DEF DeliveryInv, JournalFits, Exists
<1>11. ChainFits'
  <2>1. ASSUME chain'.pool = chain.pool \cup {t}, t.nonce >= Len(chain.mined)
        PROVE  t \in Open
    <3>1. /\ t.nonce \in Nat /\ Len(chain.mined) \in Nat /\ chain.final \in Nat
          /\ chain.final <= Len(chain.mined)
      BY <1>4, DeliveryAssumption DEF DeliveryInv, DeliveryTypes, ChainFits
    <3>2. t \notin Done
      BY <2>1, <3>1, DoneBelow DEF DeliveryInv
    <3> QED
      BY <1>4, <3>2
  <2> QED
    BY <1>5, <1>6, <2>1 DEF DeliveryInv, ChainFits
<1>12. LeftFits'
  BY <1>1, <1>4, <1>6 DEF DeliveryInv, LeftFits
<1>13. PassesFit'
  <2>1. ASSUME NEW q \in Owners, q # o, Working(pass'[q])
        PROVE  /\ PassFits(pass'[q], Done', Open', Booked')
               /\ Leased(q, pass[q].req) => CopyFits(pass'[q], slot[pass[q].req].entry, chain.final)
    BY <1>6, <1>7, <2>1 DEF DeliveryInv, PassesFit
  <2>2. PassFits(pass'[o], Done', Open', Booked')
    <3>1. Stage(pass'[o]) = "receipt-again" /\ ~Fresh(pass'[o])
      BY <1>7 DEF Stage, Fresh
    <3>2. Suits("receipt-again", e, Done) /\ "receipt-again" \in Continuations
      BY <1>3 DEF Suits, Continuations
    <3> QED
      BY <1>3, <1>4, <1>6, <1>7, <3>1, <3>2 DEF PassFits
  <2>3. Leased(o, r) => CopyFits(pass'[o], slot[r].entry, chain.final)
    BY <1>1, <1>2, <1>7 DEF DeliveryInv, PassesFit, CopyFits, Fresh
  <2> QED
    BY <1>1, <1>5, <1>7, <2>1, <2>2, <2>3 DEF PassesFit, Leased, Exists
<1> QED
  BY <1>8, <1>9, <1>10, <1>11, <1>12, <1>13 DEF DeliveryInv

-----------------------------------------------------------------------------
LEMMA DeliveryStarts ==
  ASSUME DeliveryInit
  PROVE  DeliveryInv
<1>1. JournalInv
  BY JournalStarts DEF DeliveryInit
<1>2. /\ pass \in [Owners -> Passes] /\ \A o \in Owners : pass[o] = Idle
  BY IdleIsPass DEF DeliveryInit
<1>3. /\ chain \in [pool : SUBSET Hashes, mined : Seq(Blocks), final : Nat]
      /\ chain.pool = {} /\ chain.mined = << >> /\ chain.final = 0 /\ Len(chain.mined) = 0
  BY DEF DeliveryInit
<1>4. DeliveryTypes
  BY <1>2, <1>3, IdleIsPass DEF DeliveryInit, DeliveryTypes, At
<1>5. JournalFits /\ Open = {}
  BY DeliveryAssumption DEF DeliveryInit, JournalInit, JournalFits, Exists, Open
<1>6. ChainFits /\ LeftFits
  BY <1>3, <1>5 DEF ChainFits, LeftFits, DeliveryInit
<1>7. PassesFit
  BY <1>2, IdleIsPass DEF PassesFit, Working
<1> QED
  BY <1>1, <1>4, <1>5, <1>6, <1>7 DEF DeliveryInv

\* Every step of every process, and of the world around them, keeps the invariant.
LEMMA DeliveryKeeps ==
  ASSUME DeliveryInv, [DeliveryNext]_deliveryVars
  PROVE  DeliveryInv'
<1>1. list \in Nat
  BY DEF DeliveryInv, DeliveryTypes
<1>2. ASSUME NEW o \in Owners, PassStep(o)
      PROVE  DeliveryInv'
  BY <1>2, SaveEntryKeeps, CatchKeeps, LeaveKeeps, PutKeeps, RejectKeeps, CheckTargetKeeps,
     FenceKeeps, SignKeeps, ReserveKeeps, ReadReceiptKeeps, BroadcastKeeps, ReconcileKeeps,
     ConfirmKeeps, ReadHubKeeps, ActivateKeeps DEF PassStep
<1>3. ASSUME NEW o \in Owners, Crash(o)
      PROVE  DeliveryInv'
  BY <1>3, CrashKeeps
<1>4. ASSUME NEW o \in Owners, NEW r \in Requests, NEW retry \in BOOLEAN, Begin(o, r, retry)
      PROVE  DeliveryInv'
  BY <1>4, BeginKeeps
<1>5. ASSUME NEW r \in Requests, NEW issued \in BOOLEAN, Prepare(r, issued)
      PROVE  DeliveryInv'
  BY <1>5, PrepareKeeps
<1>6. ASSUME NEW r \in Requests, Lapse(r)
      PROVE  DeliveryInv'
  BY <1>6, LapseLeavesPasses
<1>7. ASSUME NEW r \in Requests,
             PastPrepareUntil(r) \/ Decide(r) \/ HubApplies(r) \/ HubSupersedes(r)
      PROVE  DeliveryInv'
  BY <1>1, <1>7, AroundKeeps
     DEF PastPrepareUntil, Decide, HubApplies, HubSupersedes, ChainFrame, worldVars
<1>8. CASE Mine \/ Finalise \/ Fork \/ Midnight
  BY <1>8, MineKeeps, FinaliseKeeps, ForkKeeps, MidnightKeeps
<1>9. CASE ClearLock \/ NewList
  BY <1>1, <1>9, AroundKeeps DEF ClearLock, NewList, worldVars
<1>10. CASE UNCHANGED deliveryVars
  BY <1>1, <1>10, AroundKeeps DEF deliveryVars, worldVars
<1> QED
  BY <1>2, <1>3, <1>4, <1>5, <1>6, <1>7, <1>8, <1>9, <1>10 DEF DeliveryNext

\* What the inductive invariant gives.
LEMMA DeliveryInvariant == DeliverySpec => []DeliveryInv
BY DeliveryStarts, DeliveryKeeps, PTL DEF DeliverySpec

\* The delivery uses the journal through its scripts only: whatever is shown
\* of the journal alone holds of it inside the delivery
\* (issuance-delivery.ts, its calls of acquire, save, release and create).
THEOREM DeliveryImplementsJournal == DeliverySpec => JournalSpec
<1>1. DeliveryInit => JournalInit
  BY DEF DeliveryInit
<1>2. DeliveryInv /\ [DeliveryNext]_deliveryVars => [JournalNext]_journalVars
  BY StepIsJournalStep DEF DeliveryInv, JournalInv
<1> QED
  BY <1>1, <1>2, DeliveryInvariant, PTL DEF DeliverySpec, JournalSpec

\* An issuance that is signed and not settled holds the issuer's signer gate,
\* and the gate never stays with a request that has no use for it, in every
\* delivery (issuance-journal.ts, the gate of the acquire and save scripts).
THEOREM SignerIsHeld == DeliverySpec => []SignedHoldsGate
BY DeliveryImplementsJournal, OneSignerAtATime, PTL

\* No two transactions that left for the network share the issuer's nonce, with
\* any number of requests, processes, crashes, lapsed leases, lost answers and
\* forks: no issuance ever replaces another one (issuance-delivery.ts, the save
\* of the signed bytes before they are sent).
THEOREM NoIssuanceReplacesAnother == DeliverySpec => []OneNonceOneTransaction
<1>1. ASSUME DeliveryInv
      PROVE  OneNonceOneTransaction
  <2>1. ASSUME NEW t \in left, NEW u \in left, t.nonce = u.nonce
        PROVE  t = u
    <3>1. /\ t \in Open \cup Done /\ u \in Open \cup Done
          /\ t.nonce \in Nat /\ u.nonce \in Nat /\ chain.final \in Nat
      BY <1>1, DeliveryAssumption DEF DeliveryInv, LeftFits, DeliveryTypes
    <3>2. /\ \A x \in Done : x.nonce < chain.final
          /\ \A x \in Done, y \in Done : x.nonce = y.nonce => x = y
      BY <1>1, DoneBelow DEF DeliveryInv
    <3>3. \A x \in Open : x \in Done \/ x.nonce >= chain.final
      BY <1>1 DEF DeliveryInv, ChainFits
    <3>4. CASE t \in Open /\ u \in Open
      BY <1>1, <3>4, OneOpen DEF DeliveryInv
    <3>5. CASE t \in Done \/ u \in Done
      <4>1. t \in Done /\ u \in Done
        BY <2>1, <3>1, <3>2, <3>3, <3>5
      <4> QED
        BY <2>1, <3>2, <4>1
    <3> QED
      BY <3>1, <3>4, <3>5
  <2> QED
    BY <2>1 DEF OneNonceOneTransaction
<1> QED
  BY <1>1, DeliveryInvariant, PTL

\* A transaction that left and is not confirmed is named by its journal entry,
\* has its gas booked and its request holds the signer gate: whoever resumes
\* the request finds the same bytes (issuance-delivery.ts, the order of reserve,
\* save and broadcast).
THEOREM UnresolvedIsNeverLost == DeliverySpec => []UnresolvedIsHeld
<1>1. ASSUME DeliveryInv
      PROVE  UnresolvedIsHeld
  <2>1. ASSUME NEW t \in left, ~Confirmed(t)
        PROVE  Reserved(t) /\ Exists(t.req) /\ slot[t.req].entry.tx = t /\ gate = t.req
    <3>1. t \notin Done
      BY <2>1 DEF Confirmed, Done
    <3>2. t \in Booked /\ t \in Open
      BY <1>1, <3>1 DEF DeliveryInv, LeftFits
    <3> QED
      BY <1>1, <3>2, OneOpen DEF DeliveryInv, Open, Booked, Reserved
  <2> QED
    BY <2>1 DEF UnresolvedIsHeld
<1> QED
  BY <1>1, DeliveryInvariant, PTL

-----------------------------------------------------------------------------
(***************************************************************************)
(* The evidence.                                                           *)
(***************************************************************************)
Records == [state : Vault!VaultStates, src : Hashes \cup {NoTx}, hub : BOOLEAN]

VaultTypes == vault \in [Requests -> Records \cup {NoRecord}]

Standing == {"review", "blocked", "rejected"}

\* A record that was decided about keeps its state.
Stands(rec, new) == rec # NoRecord /\ rec.state \in Standing => new.state = rec.state

\* A write of a record that respects the decision, with its three outcomes.
LEMMA WriteStands ==
  ASSUME VaultTypes, NEW o \in Owners, NEW r \in Requests, NEW rec \in Records, NEW e, NEW pc,
         NEW saved, VaultWrite(o, r, rec, e, pc, saved), Stands(vault[r], rec)
  PROVE  VaultTypes' /\ \A q \in Requests : Stands(vault[q], vault'[q])
<1>1. CASE vault' = vault
  BY <1>1 DEF VaultTypes, Stands
<1>2. CASE vault' = [vault EXCEPT ![r] = rec]
  <2>1. vault'[r] = rec /\ \A q \in Requests : q # r => vault'[q] = vault[q]
    BY <1>2 DEF VaultTypes
  <2> QED
    BY <1>2, <2>1 DEF VaultTypes, Stands
<1> QED
  BY <1>1, <1>2 DEF VaultWrite

LEMMA PassesRespectDecisions ==
  ASSUME VaultTypes, DeliveryTypes, NEW o \in Owners, PassStep(o)
  PROVE  VaultTypes' /\ \A q \in Requests : Stands(vault[q], vault'[q])
<1> DEFINE r == pass[o].req e == pass[o].entry
<1>1. e.tx \in Hashes \cup {NoTx} /\ (~At(o, "idle") => r \in Requests)
  BY DEF DeliveryTypes, Passes, Entries
<1>2. CASE PutEvidence(o)
  <2>1. r \in Requests
    BY <1>1, <1>2 DEF PutEvidence, At
  <2> DEFINE stored == [e EXCEPT !.stored = TRUE] pc == IF e.issued THEN "target" ELSE "reject"
  <2>2. PICK outcome \in {"ISSUED", "REVIEW", "DENIED", "ERROR"} :
          VaultWrite(o, r,
            IF vault[r] # NoRecord THEN vault[r]
            ELSE [state |-> Vault!PutState(outcome), src |-> NoTx, hub |-> FALSE], stored, pc, TRUE)
    BY <1>2 DEF PutEvidence
  <2> HIDE DEF stored, pc
  <2>3. Vault!PutState(outcome) \in Vault!VaultStates
    BY DEF Vault!PutState, Vault!VaultStates
  <2>4. CASE vault[r] # NoRecord
    <3>1. vault[r] \in Records /\ Stands(vault[r], vault[r])
      BY <2>1, <2>4 DEF VaultTypes, Stands
    <3> QED
      BY <2>1, <2>2, <2>4, <3>1, WriteStands
  <2>5. CASE vault[r] = NoRecord
    <3> DEFINE new == [state |-> Vault!PutState(outcome), src |-> NoTx, hub |-> FALSE]
    <3>1. new \in Records /\ Stands(vault[r], new)
      BY <2>3, <2>5 DEF Records, Stands
    <3>2. VaultWrite(o, r, new, stored, pc, TRUE)
      BY <2>2, <2>5
    <3> HIDE DEF new
    <3> QED
      BY <2>1, <3>1, <3>2, WriteStands
  <2> QED
    BY <2>4, <2>5
<1>3. CASE ConfirmSource(o)
  <2>1. r \in Requests
    BY <1>1, <1>3 DEF ConfirmSource, At
  <2>2. CASE UNCHANGED vault
    BY <2>2 DEF VaultTypes, Stands
  <2>3. ASSUME vault[r] # NoRecord, NEW x, NEW pc, NEW saved,
               VaultWrite(o, r, Vault!SourceObserved(vault[r], e.tx), x, pc, saved)
        PROVE  VaultTypes' /\ \A q \in Requests : Stands(vault[q], vault'[q])
    <3>1. vault[r] \in Records
      BY <2>1, <2>3 DEF VaultTypes
    <3>2. /\ Vault!SourceObserved(vault[r], e.tx) \in Records
          /\ Stands(vault[r], Vault!SourceObserved(vault[r], e.tx))
      BY <1>1, <3>1 DEF Vault!SourceObserved, Records, Stands
    <3> QED
      BY <2>1, <2>3, <3>2, WriteStands
  <2> QED
    BY <1>3, <2>2, <2>3 DEF ConfirmSource
<1>4. CASE ActivateEvidence(o)
  <2>1. r \in Requests
    BY <1>1, <1>4 DEF ActivateEvidence, At
  <2>2. CASE UNCHANGED vault
    BY <2>2 DEF VaultTypes, Stands
  <2>3. ASSUME vault[r] # NoRecord, NEW x, NEW pc, NEW saved,
               VaultWrite(o, r, Vault!HubObserved(vault[r]), x, pc, saved)
        PROVE  VaultTypes' /\ \A q \in Requests : Stands(vault[q], vault'[q])
    <3>1. vault[r] \in Records
      BY <2>1, <2>3 DEF VaultTypes
    <3>2. "active" \in Vault!VaultStates
      BY DEF Vault!VaultStates
    <3>3. /\ Vault!HubObserved(vault[r]) \in Records
          /\ Stands(vault[r], Vault!HubObserved(vault[r]))
      BY <3>1, <3>2 DEF Vault!HubObserved, Records, Stands, Standing
    <3> QED
      BY <2>1, <2>3, <3>3, WriteStands
  <2> QED
    BY <1>4, <2>2, <2>3 DEF ActivateEvidence
<1>5. CASE UNCHANGED vault
  BY <1>5 DEF VaultTypes, Stands
<1> QED
  BY <1>2, <1>3, <1>4, <1>5
     DEF PassStep, SaveEntry, Catch, Leave, RejectOutcome, CheckTarget, Fence, Sign, ReserveGas,
         ReadReceipt, Broadcast, ReconcileGas, ReadHub, OnlyPass, Unavailable, evidenceVars

\* The vault's records stay records.
LEMMA VaultKeeps ==
  ASSUME VaultTypes, DeliveryTypes, [DeliveryNext]_deliveryVars
  PROVE  /\ VaultTypes'
         /\ pass' # pass => \A q \in Requests : Stands(vault[q], vault'[q])
<1>1. ASSUME NEW o \in Owners, PassStep(o)
      PROVE  VaultTypes' /\ \A q \in Requests : Stands(vault[q], vault'[q])
  BY <1>1, PassesRespectDecisions
<1>2. ASSUME NEW r \in Requests, Decide(r)
      PROVE  VaultTypes' /\ pass' = pass
  <2>1. PICK state \in {Vault!Cleared(vault[r]), "review", "blocked"} :
          vault' = [vault EXCEPT ![r].state = state]
    BY <1>2 DEF Decide
  <2>2. state \in Vault!VaultStates
    BY DEF Vault!Cleared, Vault!VaultStates
  <2> DEFINE new == [vault[r] EXCEPT !.state = state]
  <2>3. vault[r] \in Records
    BY <1>2 DEF Decide, VaultTypes
  <2>4. new \in Records
    BY <2>2, <2>3 DEF Records
  <2>5. vault' = [vault EXCEPT ![r] = new]
    BY <2>1
  <2> HIDE DEF new
  <2> QED
    BY <1>2, <2>4, <2>5 DEF Decide, VaultTypes
<1>3. CASE UNCHANGED vault
  BY <1>3 DEF VaultTypes, Stands
<1> QED
  BY <1>1, <1>2, <1>3
     DEF DeliveryNext, Crash, Begin, Prepare, Lapse, PastPrepareUntil, HubApplies, HubSupersedes,
         Mine, Finalise, Fork, ClearLock, Midnight, NewList, OnlyPass, ChainFrame, evidenceVars,
         deliveryVars

LEMMA VaultInvariant == DeliverySpec => []VaultTypes
<1>1. DeliveryInit => VaultTypes
  BY DEF DeliveryInit, VaultTypes
<1>2. VaultTypes /\ DeliveryInv /\ [DeliveryNext]_deliveryVars => VaultTypes'
  BY VaultKeeps DEF DeliveryInv
<1> QED
  BY <1>1, <1>2, DeliveryInvariant, PTL DEF DeliverySpec

\* The types of everything the delivery keeps: journal, chain, vault and the
\* copies of its passes.
THEOREM DeliveryTypeCorrect == DeliverySpec => []DeliveryTypeOK
<1>1. ASSUME DeliveryInv, VaultTypes
      PROVE  DeliveryTypeOK
  <2>1. \A r \in Requests : vault[r] # NoRecord => vault[r].state \in Vault!VaultStates
    BY <1>1 DEF VaultTypes, Records
  <2>2. chain.final \in 0 .. Len(chain.mined)
    BY <1>1 DEF DeliveryInv, DeliveryTypes, ChainFits
  <2> QED
    BY <1>1, <2>1, <2>2 DEF DeliveryTypeOK, DeliveryInv, DeliveryTypes, JournalInv, Passes
<1> QED
  BY <1>1, DeliveryInvariant, VaultInvariant, PTL

\* Whatever an advanceIssuance call does, however late its callbacks are, a
\* record in review, blocked or rejected stays so: only a rescreen or a review
\* changes it (vault.ts, recordSourceConfirmation and recordMaterialization).
THEOREM ComplianceDecisionStands == DeliverySpec => DecisionStands
<1>1. VaultTypes /\ DeliveryInv /\ [DeliveryNext]_deliveryVars
        => [pass' # pass =>
              \A r \in Requests :
                vault[r] # NoRecord /\ vault[r].state \in {"review", "blocked", "rejected"}
                  => vault'[r].state = vault[r].state]_deliveryVars
  BY VaultKeeps DEF DeliveryInv, Stands, Standing
<1> QED
  BY <1>1, DeliveryInvariant, VaultInvariant, PTL DEF DeliverySpec, DecisionStands
=============================================================================
