-------------------------- MODULE PublicationProof --------------------------
(***************************************************************************)
(* Publishing an epoch, proved: what a node was ever given can be          *)
(* recovered from the publisher's host, and a confirmation in the journal  *)
(* is still what the chain has.  For any number of publications, replicas, *)
(* forks, faults and other publishers.                                     *)
(***************************************************************************)
EXTENDS EpochPublication, FiniteSetTheorems, SequenceTheorems, WellFoundedInduction, TLAPS

-----------------------------------------------------------------------------
(***************************************************************************)
(* The inductive invariant.                                                *)
(***************************************************************************)
\* One account's transactions are mined in the order of their nonces, each once.
NoncesFit ==
  /\ IsFiniteSet(source.mined) /\ IsFiniteSet(source.pool)
  /\ \A m \in source.mined : m.tx.nonce < MinedNonce
  /\ \A m, n \in source.mined : m.tx.nonce = n.tx.nonce => m = n

\* Every roster in the journal is in every replica directory.
RostersAreStaged ==
  \A i \in DOMAIN entries, r \in Replicas : entries[i].plan \in store.seeds[r]

JournalHolds ==
  Journal!Valid(entries) /\ RostersAreStaged /\ SentIsRecoverable /\ ConfirmedStands

\* The steps of a process that has the journal open and works on entry i: nobody
\* else abandons the entry, and past the first stage it is signed.
Working == CliSteps \ {"off", "open", "plan", "stage", "begin"}

CliFits ==
  /\ cli.at \in Working =>
       /\ cli.i \in Journal!Standing(entries) /\ cli.stage # 0
       /\ cli.stage # 1 => entries[cli.i].tx # NoTx
  /\ cli.at = "send" => cli.stage # 1
  /\ cli.at \in {"stage", "begin"} => cli.plan \in Plans
  /\ cli.at = "begin" => \A r \in Replicas : cli.plan \in store.seeds[r]

PubInv == PubTypeOK /\ NoncesFit /\ JournalHolds /\ CliFits

-----------------------------------------------------------------------------
(***************************************************************************)
(* Epochs, entries and receipts.                                           *)
(***************************************************************************)
LEMMA Bounds ==
  /\ {MaxTime, MaxForks, MaxFaults, MaxLists, MaxEpoch, MaxEntries, Age} \subseteq Nat
  /\ NoTx \notin Nat /\ MaxEpoch >= 1 /\ MaxEntries >= 1
BY PublicationAssumption

LEMMA Greatest ==
  ASSUME NEW n \in Nat, NEW S, S \subseteq 0 .. n, S # {}
  PROVE  \E x \in S : \A y \in S : y <= x
<1> DEFINE T == {n - x : x \in S}
<1>1. T \subseteq Nat /\ T # {}
  <2>1. \A x \in S : n - x \in Nat
    OBVIOUS
  <2>2. PICK x \in S : TRUE
    OBVIOUS
  <2>3. n - x \in T
    BY <2>2
  <2> QED BY <2>1, <2>3
<1>2. PICK y \in T : \A z \in T : ~(<<z, y>> \in OpToRel(<, Nat))
  BY <1>1, WFMin, NatLessThanWellFounded
<1>3. PICK x \in S : y = n - x
  BY <1>2
<1>4. ASSUME NEW z \in S PROVE z <= x
  <2> SUFFICES ASSUME ~(z <= x) PROVE FALSE
    OBVIOUS
  <2>1. n - z \in T /\ n - z \in Nat /\ y \in Nat /\ n - z < y
    BY <1>1, <1>3
  <2>2. OpToRel(<, Nat) = {ss \in Nat \X Nat : ss[1] < ss[2]}
    BY DEF OpToRel
  <2> QED BY <1>2, <2>1, <2>2
<1> QED BY <1>4

\* The last epoch of the source is one.
LEMMA LastEpochTyped ==
  ASSUME PubTypeOK PROVE LastEpoch \in 0 .. MaxEpoch
<1> DEFINE S == {0} \cup source.others \cup {m.tx.plan.epoch : m \in {n \in source.mined : n.ok}}
<1>1. S \subseteq 0 .. MaxEpoch /\ S # {} /\ MaxEpoch \in Nat
  <2>1. source.others \subseteq 1 .. MaxEpoch
    BY DEF PubTypeOK, Sources
  <2>2. \A n \in source.mined : n.tx \in Txs
    BY DEF PubTypeOK, Sources
  <2>3. \A n \in source.mined : n.tx.plan.epoch \in 1 .. MaxEpoch
    BY <2>2 DEF Txs, Plans
  <2> QED BY <2>1, <2>3, Bounds
<1>2. LastEpoch = Max(S)
  BY DEF LastEpoch
<1> HIDE DEF S
<1>3. PICK x \in S : \A y \in S : y <= x
  BY <1>1, Greatest
<1>4. \A y \in S : x >= y
  BY <1>1, <1>3
<1>5. Max(S) \in S
  BY <1>4 DEF Max
<1> QED BY <1>1, <1>2, <1>5

LEMMA HubLatestTyped ==
  ASSUME PubTypeOK PROVE HubLatest \in 0 .. MaxEpoch
<1>1. hub \in Seq(HubEpochs) /\ MaxEpoch \in Nat
  BY Bounds DEF PubTypeOK
<1>2. CASE hub = << >>
  BY <1>1, <1>2 DEF HubLatest
<1>3. CASE hub # << >>
  <2>1. hub[Len(hub)] \in HubEpochs
    BY <1>1, <1>3
  <2> QED BY <1>1, <1>3, <2>1 DEF HubLatest, HubEpochs
<1> QED BY <1>2, <1>3

LEMMA NextPlanTyped ==
  ASSUME PubTypeOK, LastEpoch < MaxEpoch PROVE NextPlan \in Plans
<1>1. LastEpoch + 1 \in 1 .. MaxEpoch
  BY LastEpochTyped, Bounds
<1>2. now \in 0 .. MaxTime /\ lists \in 1 .. MaxLists
  BY DEF PubTypeOK
<1> QED BY <1>1, <1>2 DEF NextPlan, Plans

LEMMA NoncesTyped ==
  ASSUME PubInv
  PROVE  MinedNonce \in Nat /\ PendingNonce \in Nat /\ PendingNonce # NoTx
BY FS_CardinalityType, PublicationAssumption DEF PubInv, NoncesFit, MinedNonce, PendingNonce

\* What is on the chain for an entry depends on its plan and its nonce.
LEMMA SameReceipts ==
  ASSUME NEW i \in DOMAIN entries, entries'[i].tx = entries[i].tx,
         Receipts(entries[i], i)' = Receipts(entries[i], i)
  PROVE  \A c : Reobserved(i, c)' <=> Reobserved(i, c)
<1>1. Observation(i)' = Observation(i)
  BY DEF Observation
<1>2. Receipt(i)' = Receipt(i)
  BY DEF Receipt
<1> QED BY <1>1, <1>2 DEF Reobserved

\* An observed confirmation is typed.
LEMMA ReceiptTyped ==
  ASSUME PubTypeOK, NEW i \in DOMAIN entries, Observation(i) = "confirmed"
  PROVE  /\ Receipt(i) \in Journal!Confirmations
         /\ entries[i].tx # NoTx
<1>1. Receipts(entries[i], i) # {} /\ entries[i].tx # NoTx
  BY DEF Observation
<1>2. PICK m : m = (CHOOSE r \in Receipts(entries[i], i) : TRUE)
  OBVIOUS
<1>3. m \in source.mined
  BY <1>1, <1>2 DEF Receipts
<1>4. Receipt(i) = [block |-> m.block, ok |-> m.ok]
  BY <1>2 DEF Receipt
<1> QED BY <1>1, <1>3, <1>4 DEF PubTypeOK, Sources, Journal!Confirmations

-----------------------------------------------------------------------------
(***************************************************************************)
(* The journal and the chain.                                              *)
(***************************************************************************)
\* Nothing of what the journal speaks of moves; rosters are only added.
LEMMA JournalRests ==
  ASSUME PubInv, UNCHANGED <<entries, source>>,
         \A r \in Replicas : store.seeds[r] \subseteq store'.seeds[r]
  PROVE  NoncesFit' /\ JournalHolds'
<1>1. NoncesFit'
  BY DEF PubInv, NoncesFit, MinedNonce
<1>2. RostersAreStaged' /\ SentIsRecoverable' /\ Journal!Valid(entries)'
  BY DEF PubInv, JournalHolds, RostersAreStaged, SentIsRecoverable
<1>3. \A i \in DOMAIN entries : \A c : Reobserved(i, c)' <=> Reobserved(i, c)
  BY SameReceipts DEF Receipts
<1>4. ConfirmedStands'
  BY <1>3 DEF PubInv, JournalHolds, ConfirmedStands
<1> QED BY <1>1, <1>2, <1>4 DEF JournalHolds

\* A write of the journal: signed entries stay as they are, a confirmation is what
\* was observed, and a new entry is staged.
Writes(es) ==
  /\ es \in Seq(Journal!Entries) /\ Len(es) <= MaxEntries /\ DOMAIN entries \subseteq DOMAIN es
  /\ Journal!Valid(es)
  /\ \A i \in DOMAIN entries :
       /\ es[i].plan = entries[i].plan
       /\ entries[i].tx # NoTx => es[i].tx = entries[i].tx /\ es[i].abandoned = entries[i].abandoned
       /\ es[i].conf # NoConf =>
            /\ es[i].tx = entries[i].tx
            /\ es[i].conf = entries[i].conf \/ Reobserved(i, es[i].conf)
  /\ \A i \in DOMAIN es \ DOMAIN entries :
       es[i].conf = NoConf /\ \A r \in Replicas : es[i].plan \in store.seeds[r]

LEMMA WriteNothing ==
  ASSUME PubInv PROVE Writes(entries)
BY DEF PubInv, PubTypeOK, JournalHolds, Journal!JournalTypeOK, Writes

LEMMA JournalWritten ==
  ASSUME PubInv, Writes(entries'), UNCHANGED <<source, store>>
  PROVE  NoncesFit' /\ JournalHolds'
<1>1. NoncesFit'
  BY DEF PubInv, NoncesFit, MinedNonce
<1>2. RostersAreStaged'
  BY DEF PubInv, JournalHolds, RostersAreStaged, Writes
<1>3. SentIsRecoverable'
  <2> SUFFICES ASSUME NEW t \in source.sent
      PROVE  /\ t.id \in DOMAIN entries'
             /\ entries'[t.id].tx = t.nonce /\ entries'[t.id].plan = t.plan
             /\ ~entries'[t.id].abandoned
             /\ \A r \in Replicas : t.plan \in store.seeds[r]
    BY DEF SentIsRecoverable
  <2>1. /\ t.id \in DOMAIN entries
        /\ entries[t.id].tx = t.nonce /\ entries[t.id].plan = t.plan /\ ~entries[t.id].abandoned
        /\ \A r \in Replicas : t.plan \in store.seeds[r]
    BY DEF PubInv, JournalHolds, SentIsRecoverable
  <2>2. entries[t.id].tx # NoTx
    BY <2>1, PublicationAssumption DEF PubInv, PubTypeOK, Sources, Txs
  <2> QED BY <2>1, <2>2 DEF Writes
<1>4. ConfirmedStands'
  <2> SUFFICES ASSUME ~source'.deepFork, NEW i \in DOMAIN entries', entries'[i].conf # NoConf
      PROVE  Reobserved(i, entries[i].conf)'
    BY DEF ConfirmedStands
  <2>1. i \in DOMAIN entries
    BY DEF Writes
  <2>2. /\ entries'[i].plan = entries[i].plan /\ entries'[i].tx = entries[i].tx
        /\ entries'[i].conf = entries[i].conf \/ Reobserved(i, entries'[i].conf)
    BY <2>1 DEF Writes
  <2>3. Reobserved(i, entries'[i].conf)
    BY <2>1, <2>2 DEF PubInv, JournalHolds, ConfirmedStands
  <2>4. Receipts(entries[i], i)' = Receipts(entries[i], i)
    BY <2>2 DEF Receipts
  <2>5. \A c : Reobserved(i, c)' <=> Reobserved(i, c)
    BY <2>1, <2>2, <2>4, SameReceipts
  <2> QED BY <2>3, <2>5
<1>5. Journal!Valid(entries)'
  BY DEF Writes
<1> QED BY <1>1, <1>2, <1>3, <1>4, <1>5 DEF JournalHolds

\* The chain moves but keeps every deep block of the account.
LEMMA DeepBlocksStay ==
  ASSUME PubInv, UNCHANGED entries, source.deepFork => source'.deepFork,
         ~source'.deepFork =>
           \A i \in DOMAIN entries :
             (/\ Receipts(entries[i], i) # {}
              /\ \A m \in Receipts(entries[i], i) : m.deep)
               => Receipts(entries[i], i)' = Receipts(entries[i], i)
  PROVE  ConfirmedStands'
<1> SUFFICES ASSUME ~source'.deepFork, NEW i \in DOMAIN entries, entries[i].conf # NoConf
    PROVE  Reobserved(i, entries[i].conf)'
  BY DEF ConfirmedStands
<1>1. Reobserved(i, entries[i].conf)
  BY DEF PubInv, JournalHolds, ConfirmedStands
<1>2. /\ Receipts(entries[i], i) # {}
      /\ \A m \in Receipts(entries[i], i) : m.deep
  BY <1>1 DEF Reobserved, Observation
<1>3. Receipts(entries[i], i)' = Receipts(entries[i], i)
  BY <1>2
<1> QED BY <1>1, <1>3, SameReceipts

LEMMA ChainMoves ==
  ASSUME PubInv, UNCHANGED <<entries, store>>, source'.sent = source.sent,
         source.deepFork => source'.deepFork,
         ~source'.deepFork =>
           \A i \in DOMAIN entries :
             (/\ Receipts(entries[i], i) # {}
              /\ \A m \in Receipts(entries[i], i) : m.deep)
               => Receipts(entries[i], i)' = Receipts(entries[i], i)
  PROVE  JournalHolds'
<1>1. RostersAreStaged' /\ SentIsRecoverable' /\ Journal!Valid(entries)'
  BY DEF PubInv, JournalHolds, RostersAreStaged, SentIsRecoverable
<1>2. ConfirmedStands'
  BY DeepBlocksStay
<1> QED BY <1>1, <1>2 DEF JournalHolds

-----------------------------------------------------------------------------
(***************************************************************************)
(* The source chain.                                                       *)
(***************************************************************************)
LEMMA CliRests ==
  ASSUME PubInv, UNCHANGED <<entries, cli>>,
         \A r \in Replicas : store.seeds[r] \subseteq store'.seeds[r]
  PROVE  CliFits'
BY DEF PubInv, CliFits

LEMMA ChainStep ==
  ASSUME PubInv, UNCHANGED <<entries, lock, cli, job, hub, store, witness, now, lists>>,
         faults' \in 0 .. MaxFaults, source' \in Sources, NoncesFit', JournalHolds'
  PROVE  PubInv'
<1>1. PubTypeOK'
  BY DEF PubInv, PubTypeOK, Journal!JournalTypeOK
<1>2. CliFits'
  BY CliRests
<1> QED BY <1>1, <1>2 DEF PubInv

LEMMA MineStep ==
  ASSUME PubInv, Mine PROVE PubInv'
<1>1. PICK t \in source.pool :
        /\ t.nonce = MinedNonce
        /\ source' = [source EXCEPT
             !.pool = @ \ {t},
             !.mined = @ \cup {[tx |-> t, block |-> source.forks, ok |-> SourceAccepts(t.plan),
                                deep |-> FALSE]}]
        /\ UNCHANGED <<entries, lock, cli, job, hub, store, witness, now, lists, faults>>
  BY DEF Mine
<1> DEFINE n == [tx |-> t, block |-> source.forks, ok |-> SourceAccepts(t.plan), deep |-> FALSE]
<1>2. source \in Sources /\ t \in Txs /\ faults \in 0 .. MaxFaults
  BY DEF PubInv, PubTypeOK, Sources
<1>3. n \in [tx : Txs, block : Nat, ok : BOOLEAN, deep : BOOLEAN] /\ n.tx = t /\ n.deep = FALSE
  <2>1. source.forks \in Nat
    BY <1>2, Bounds DEF Sources
  <2>2. SourceAccepts(t.plan) \in BOOLEAN
    BY DEF SourceAccepts
  <2> QED BY <1>2, <2>1, <2>2
<1>4. /\ source'.mined = source.mined \cup {n} /\ source'.pool = source.pool \ {t}
      /\ source'.sent = source.sent /\ source'.deepFork = source.deepFork
      /\ source' = [source EXCEPT !.pool = source.pool \ {t}, !.mined = source.mined \cup {n}]
  BY <1>1, <1>2 DEF Sources
<1> HIDE DEF n
<1>5. source' \in Sources
  BY <1>2, <1>3, <1>4 DEF Sources
<1>6. MinedNonce \in Nat /\ n \notin source.mined /\ \A m \in source.mined : m.tx # t
  BY <1>1, <1>3, NoncesTyped DEF PubInv, NoncesFit
<1>7. IsFiniteSet(source'.mined) /\ MinedNonce' = MinedNonce + 1
  <2>1. IsFiniteSet(source.mined)
    BY DEF PubInv, NoncesFit
  <2>2. /\ IsFiniteSet(source.mined \cup {n})
        /\ Cardinality(source.mined \cup {n}) = Cardinality(source.mined) + 1
    BY <1>6, <2>1, FS_AddElement
  <2> QED BY <1>4, <2>2 DEF MinedNonce
<1>8. NoncesFit'
  <2>1. IsFiniteSet(source'.pool)
    BY <1>4, FS_RemoveElement DEF PubInv, NoncesFit
  <2>2. \A m \in source.mined : m.tx.nonce \in Nat /\ m.tx.nonce < MinedNonce
    BY <1>2 DEF PubInv, NoncesFit, Sources, Txs
  <2>3. \A m \in source'.mined : m.tx.nonce < MinedNonce'
    BY <2>2, <1>1, <1>3, <1>4, <1>6, <1>7
  <2>4. \A m, k \in source'.mined : m.tx.nonce = k.tx.nonce => m = k
    BY <2>2, <1>1, <1>3, <1>4, <1>6 DEF PubInv, NoncesFit
  <2> QED BY <1>7, <2>1, <2>3, <2>4 DEF NoncesFit
<1>9. JournalHolds'
  <2>1. ASSUME NEW i \in DOMAIN entries, Receipts(entries[i], i) # {}
        PROVE  Receipts(entries[i], i)' = Receipts(entries[i], i)
    <3>1. PICK m \in source.mined :
            m.tx = [id |-> i, plan |-> entries[i].plan, nonce |-> entries[i].tx]
      BY <2>1 DEF Receipts
    <3>2. n.tx # [id |-> i, plan |-> entries[i].plan, nonce |-> entries[i].tx]
      BY <1>3, <1>6, <3>1
    <3> QED BY <1>1, <1>4, <3>2 DEF Receipts
  <2> QED BY <1>1, <1>4, <2>1, ChainMoves
<1> QED BY <1>1, <1>2, <1>5, <1>8, <1>9, ChainStep

LEMMA DeepenStep ==
  ASSUME PubInv, Deepen PROVE PubInv'
<1>1. PICK m \in source.mined :
        /\ ~m.deep
        /\ source' = [source EXCEPT !.mined = (@ \ {m}) \cup {[m EXCEPT !.deep = TRUE]}]
        /\ UNCHANGED <<entries, lock, cli, job, hub, store, witness, now, lists, faults>>
  BY DEF Deepen
<1> DEFINE d == [m EXCEPT !.deep = TRUE]
<1>2. source \in Sources /\ faults \in 0 .. MaxFaults
  BY DEF PubInv, PubTypeOK
<1>3. /\ d \in [tx : Txs, block : Nat, ok : BOOLEAN, deep : BOOLEAN]
      /\ d.tx = m.tx /\ d.deep = TRUE
  BY <1>2 DEF Sources
<1>4. /\ source'.mined = (source.mined \ {m}) \cup {d} /\ source'.pool = source.pool
      /\ source'.sent = source.sent /\ source'.deepFork = source.deepFork
      /\ source' = [source EXCEPT !.mined = (source.mined \ {m}) \cup {d}]
  BY <1>1, <1>2 DEF Sources
<1> HIDE DEF d
<1>5. source' \in Sources
  BY <1>2, <1>3, <1>4 DEF Sources
<1>6. d \notin source.mined
  BY <1>1, <1>3 DEF PubInv, NoncesFit
<1>7. IsFiniteSet(source'.mined) /\ MinedNonce' = MinedNonce
  <2>1. /\ IsFiniteSet(source.mined \ {m})
        /\ Cardinality(source.mined \ {m}) = Cardinality(source.mined) - 1
    BY FS_RemoveElement DEF PubInv, NoncesFit
  <2>2. /\ IsFiniteSet((source.mined \ {m}) \cup {d})
        /\ Cardinality((source.mined \ {m}) \cup {d}) = Cardinality(source.mined \ {m}) + 1
    BY <1>6, <2>1, FS_AddElement
  <2>3. MinedNonce \in Nat
    BY NoncesTyped
  <2> QED BY <1>4, <2>1, <2>2, <2>3 DEF MinedNonce
<1>8. NoncesFit'
  BY <1>3, <1>4, <1>7 DEF PubInv, NoncesFit
<1>9. JournalHolds'
  <2>1. ASSUME NEW i \in DOMAIN entries, Receipts(entries[i], i) # {},
               \A k \in Receipts(entries[i], i) : k.deep
        PROVE  Receipts(entries[i], i)' = Receipts(entries[i], i)
    <3>1. m \notin Receipts(entries[i], i)
      BY <1>1, <2>1
    <3>2. m.tx # [id |-> i, plan |-> entries[i].plan, nonce |-> entries[i].tx]
      BY <3>1 DEF Receipts
    <3> QED BY <1>1, <1>3, <1>4, <3>2 DEF Receipts
  <2> QED BY <1>1, <1>4, <2>1, ChainMoves
<1> QED BY <1>1, <1>2, <1>5, <1>8, <1>9, ChainStep

LEMMA ForkStep ==
  ASSUME PubInv, Fork PROVE PubInv'
<1>1. PICK m \in source.mined, kept \in BOOLEAN :
        /\ m.tx.nonce = MinedNonce - 1
        /\ source' = [source EXCEPT !.mined = @ \ {m}, !.forks = @ + 1, !.deepFork = @ \/ m.deep,
                                    !.pool = IF kept THEN @ \cup {m.tx} ELSE {}]
  BY DEF Fork
<1>2. /\ UNCHANGED <<entries, lock, cli, job, hub, store, witness, now, lists, faults>>
      /\ source.forks < MaxForks
  BY DEF Fork
<1>3. source \in Sources /\ faults \in 0 .. MaxFaults
  BY DEF PubInv, PubTypeOK
<1>4. /\ source'.mined = source.mined \ {m}
      /\ source'.pool \in {source.pool \cup {m.tx}, {}}
      /\ source'.sent = source.sent /\ source'.deepFork = (source.deepFork \/ m.deep)
      /\ source' = [source EXCEPT !.mined = source.mined \ {m}, !.forks = source.forks + 1,
                                  !.deepFork = source.deepFork \/ m.deep, !.pool = source'.pool]
  BY <1>1, <1>3 DEF Sources
<1>5. source' \in Sources
  <2>1. source.forks + 1 \in 0 .. MaxForks
    BY <1>2, <1>3, Bounds DEF Sources
  <2>2. source'.pool \subseteq Txs /\ m.deep \in BOOLEAN
    BY <1>3, <1>4 DEF Sources
  <2> QED BY <1>3, <1>4, <2>1, <2>2 DEF Sources
<1>6. IsFiniteSet(source'.mined) /\ MinedNonce' = MinedNonce - 1 /\ MinedNonce \in Nat
  <2>1. IsFiniteSet(source.mined)
    BY DEF PubInv, NoncesFit
  <2>2. /\ IsFiniteSet(source.mined \ {m})
        /\ Cardinality(source.mined \ {m}) = Cardinality(source.mined) - 1
    BY <2>1, FS_RemoveElement
  <2> QED BY <1>4, <2>2, NoncesTyped DEF MinedNonce
<1>7. NoncesFit'
  <2>1. IsFiniteSet(source'.pool)
    <3>1. IsFiniteSet(source.pool)
      BY DEF PubInv, NoncesFit
    <3>2. IsFiniteSet(source.pool \cup {m.tx}) /\ IsFiniteSet({})
      BY <3>1, FS_AddElement, FS_EmptySet
    <3> QED BY <1>4, <3>2
  <2>2. \A k \in source.mined : k.tx.nonce \in Nat /\ k.tx.nonce < MinedNonce
    BY <1>3 DEF PubInv, NoncesFit, Sources, Txs
  <2>3. \A k \in source'.mined : k.tx.nonce < MinedNonce'
    <3> SUFFICES ASSUME NEW k \in source'.mined PROVE k.tx.nonce < MinedNonce'
      OBVIOUS
    <3>1. k \in source.mined /\ k # m
      BY <1>4
    <3>2. k.tx.nonce # m.tx.nonce
      BY <3>1 DEF PubInv, NoncesFit
    <3> QED BY <1>1, <1>6, <2>2, <3>1, <3>2
  <2> QED BY <1>4, <1>6, <2>1, <2>3 DEF PubInv, NoncesFit
<1>8. JournalHolds'
  <2>1. ASSUME NEW i \in DOMAIN entries, ~source'.deepFork,
               \A k \in Receipts(entries[i], i) : k.deep
        PROVE  Receipts(entries[i], i)' = Receipts(entries[i], i)
    <3>1. m \notin Receipts(entries[i], i)
      BY <1>4, <2>1
    <3> QED BY <1>2, <1>4, <3>1 DEF Receipts
  <2> QED BY <1>2, <1>4, <2>1, ChainMoves
<1> QED BY <1>2, <1>3, <1>5, <1>7, <1>8, ChainStep

\* The pool and the other publisher leave the account's blocks alone.
LEMMA MinedRests ==
  ASSUME PubInv, UNCHANGED <<entries, lock, cli, job, hub, store, witness, now, lists>>,
         faults' \in 0 .. MaxFaults, source' \in Sources, source'.mined = source.mined,
         source'.sent = source.sent, source'.deepFork = source.deepFork, IsFiniteSet(source'.pool)
  PROVE  PubInv'
<1>1. NoncesFit'
  BY DEF PubInv, NoncesFit, MinedNonce
<1>2. \A i \in DOMAIN entries : Receipts(entries[i], i)' = Receipts(entries[i], i)
  BY DEF Receipts
<1>3. JournalHolds'
  BY <1>2, ChainMoves
<1> QED BY <1>1, <1>3, ChainStep

LEMMA DropStep ==
  ASSUME PubInv, Drop PROVE PubInv'
<1>1. PICK t \in source.pool : source' = [source EXCEPT !.pool = {u \in @ : u.nonce < t.nonce}]
  BY DEF Drop
<1>2. /\ UNCHANGED <<entries, lock, cli, job, hub, store, witness, now, lists>>
      /\ faults < MaxFaults /\ faults' = faults + 1
  BY DEF Drop
<1>3. source \in Sources /\ faults \in 0 .. MaxFaults
  BY DEF PubInv, PubTypeOK
<1>4. /\ source'.pool \subseteq source.pool /\ source'.mined = source.mined
      /\ source'.sent = source.sent /\ source'.deepFork = source.deepFork
      /\ source' = [source EXCEPT !.pool = source'.pool]
  BY <1>1, <1>3 DEF Sources
<1>5. source' \in Sources
  BY <1>3, <1>4 DEF Sources
<1>6. IsFiniteSet(source'.pool)
  BY <1>4, FS_Subset DEF PubInv, NoncesFit
<1>7. faults' \in 0 .. MaxFaults
  BY <1>2, <1>3, Bounds
<1> QED BY <1>2, <1>4, <1>5, <1>6, <1>7, MinedRests

LEMMA OtherPublishesStep ==
  ASSUME PubInv, OtherPublishes PROVE PubInv'
<1>1. /\ LastEpoch < MaxEpoch
      /\ source' = [source EXCEPT !.others = @ \cup {LastEpoch + 1}]
      /\ UNCHANGED <<entries, lock, cli, job, hub, store, witness, now, lists, faults>>
  BY DEF OtherPublishes
<1>2. source \in Sources /\ faults \in 0 .. MaxFaults
  BY DEF PubInv, PubTypeOK
<1>3. LastEpoch + 1 \in 1 .. MaxEpoch
  BY <1>1, LastEpochTyped, Bounds DEF PubInv
<1>4. /\ source'.pool = source.pool /\ source'.mined = source.mined
      /\ source'.sent = source.sent /\ source'.deepFork = source.deepFork
      /\ source' = [source EXCEPT !.others = source.others \cup {LastEpoch + 1}]
  BY <1>1, <1>2 DEF Sources
<1>5. source' \in Sources
  BY <1>2, <1>3, <1>4 DEF Sources
<1>6. IsFiniteSet(source'.pool)
  BY <1>4 DEF PubInv, NoncesFit
<1> QED BY <1>1, <1>2, <1>4, <1>5, <1>6, MinedRests
-----------------------------------------------------------------------------
(***************************************************************************)
(* The process and the renewal.                                            *)
(***************************************************************************)
LEMMA QuietStep ==
  ASSUME PubInv, UNCHANGED <<entries, source>>,
         \A r \in Replicas : store.seeds[r] \subseteq store'.seeds[r], PubTypeOK', CliFits'
  PROVE  PubInv'
BY JournalRests DEF PubInv

LEMMA MovedTypes ==
  ASSUME PubInv, UNCHANGED <<store, witness, lists, world>>, entries' = entries \/ Writes(entries'),
         lock' \in BOOLEAN, cli' \in Clis, job' \in Jobs, faults' \in 0 .. MaxFaults
  PROVE  PubTypeOK'
BY DEF PubInv, PubTypeOK, world, Journal!JournalTypeOK, Writes

\* The process goes on, and writes at most the journal.
LEMMA CliGoes ==
  ASSUME PubInv, UNCHANGED <<store, witness, lists, world>>, entries' = entries \/ Writes(entries'),
         lock' \in BOOLEAN, cli' \in Clis, job' \in Jobs, faults' \in 0 .. MaxFaults, CliFits'
  PROVE  PubInv'
<1>1. PubTypeOK'
  BY MovedTypes
<1>2. UNCHANGED <<source, store>>
  BY DEF world
<1>3. NoncesFit' /\ JournalHolds'
  <2>1. Writes(entries')
    BY WriteNothing
  <2> QED BY <1>2, <2>1, JournalWritten
<1> QED BY <1>1, <1>3 DEF PubInv

LEMMA JobOffTyped == JobOff \in Jobs
BY Bounds DEF JobOff, Jobs, JobSteps

LEMMA IdleFits ==
  ASSUME cli' = Idle PROVE cli' \in Clis /\ CliFits'
<1>1. Idle \in Clis
  BY Bounds DEF Idle, Clis, CliSteps
<1>2. Idle.at = "off"
  BY DEF Idle
<1> QED BY <1>1, <1>2 DEF CliFits, Working

LEMMA Ended ==
  ASSUME PubInv, NEW code, Ends(code)
  PROVE  cli' \in Clis /\ job' \in Jobs /\ CliFits'
<1>1. job \in Jobs
  BY DEF PubInv, PubTypeOK
<1>2. AfterExit(code) \in Jobs
  BY <1>1, JobOffTyped DEF AfterExit, Jobs, JobSteps
<1> QED BY <1>2, IdleFits DEF Ends

\* The process ends, and its last write may have been one of the journal.
LEMMA CliEnds ==
  ASSUME PubInv, NEW code, Ends(code), lock' \in BOOLEAN, UNCHANGED <<store, witness, lists, world>>,
         entries' = entries \/ Writes(entries'), faults' \in 0 .. MaxFaults
  PROVE  PubInv'
BY Ended, CliGoes

LEMMA CliExits ==
  ASSUME PubInv, NEW code, Exit(code), UNCHANGED <<store, witness, lists, world>>,
         entries' = entries \/ Writes(entries'), faults' \in 0 .. MaxFaults
  PROVE  PubInv'
BY CliEnds DEF Exit, Journal!Close

LEMMA FaultsTyped ==
  ASSUME PubInv PROVE faults \in 0 .. MaxFaults /\ (faults < MaxFaults => faults + 1 \in 0 .. MaxFaults)
BY Bounds DEF PubInv, PubTypeOK

LEMMA CliPoisoned ==
  ASSUME PubInv, NEW es, Writes(es), Poison(es), UNCHANGED <<store, witness, lists, world>>
  PROVE  PubInv'
<1>1. entries' = entries \/ Writes(entries')
  BY DEF Poison, Journal!SaveUnconfirmed
<1>2. lock' \in BOOLEAN
  BY DEF Poison, Journal!SaveUnconfirmed, PubInv, PubTypeOK, Journal!JournalTypeOK
<1> QED BY <1>1, <1>2, CliEnds, FaultsTyped DEF Poison

\* The entry a working process works on.
LEMMA WorkingEntry ==
  ASSUME PubInv, cli.at \in Working
  PROVE  /\ cli.i \in DOMAIN entries /\ cli.i \in 1 .. MaxEntries /\ ~entries[cli.i].abandoned
         /\ entries[cli.i] \in Journal!Entries /\ cli.stage \in 1 .. 3
<1>1. cli.i \in Journal!Standing(entries) /\ cli.stage # 0
  BY DEF PubInv, CliFits
<1>2. /\ entries \in Seq(Journal!Entries) /\ Len(entries) <= MaxEntries
      /\ cli \in Clis
  BY DEF PubInv, PubTypeOK, Journal!JournalTypeOK
<1>3. cli.i \in DOMAIN entries /\ ~entries[cli.i].abandoned
  BY <1>1 DEF Journal!Standing
<1>4. cli.i \in 1 .. Len(entries) /\ entries[cli.i] \in Journal!Entries
  BY <1>2, <1>3
<1>5. cli.stage \in 1 .. 3
  BY <1>1, <1>2 DEF Clis
<1> QED BY <1>2, <1>3, <1>4, <1>5, Bounds

LEMMA LastStandingStands ==
  ASSUME PubInv, Journal!Standing(entries) # {}
  PROVE  /\ Journal!LastStanding(entries) \in Journal!Standing(entries)
         /\ Journal!LastStanding(entries) \in 0 .. MaxEntries
<1>1. entries \in Seq(Journal!Entries) /\ Len(entries) <= MaxEntries
  BY DEF PubInv, PubTypeOK, Journal!JournalTypeOK
<1>2. Journal!Standing(entries) \subseteq 0 .. MaxEntries /\ MaxEntries \in Nat
  BY <1>1, Bounds DEF Journal!Standing
<1>3. PICK x \in Journal!Standing(entries) : \A y \in Journal!Standing(entries) : y <= x
  BY <1>2, Greatest
<1>4. Journal!LastStanding(entries) \in Journal!Standing(entries)
  BY <1>3 DEF Journal!LastStanding
<1> QED BY <1>2, <1>4
-----------------------------------------------------------------------------
\* The steps of the process that leave the journal as it is.

LEMMA CliMoves ==
  ASSUME PubInv, UNCHANGED <<entries, job, store, witness, lists, faults, world>>,
         lock' \in BOOLEAN, cli' \in Clis, CliFits'
  PROVE  PubInv'
<1>1. job' \in Jobs /\ faults' \in 0 .. MaxFaults
  BY DEF PubInv, PubTypeOK
<1> QED BY <1>1, CliGoes

LEMMA TypedNow ==
  ASSUME PubInv
  PROVE  /\ cli \in Clis /\ job \in Jobs /\ lock \in BOOLEAN /\ faults \in 0 .. MaxFaults
         /\ entries \in Seq(Journal!Entries) /\ Len(entries) <= MaxEntries
BY DEF PubInv, PubTypeOK, Journal!JournalTypeOK

LEMMA CliShape ==
  ASSUME cli \in Clis
  PROVE  cli = [cmd |-> cli.cmd, at |-> cli.at, i |-> cli.i, plan |-> cli.plan,
                stage |-> cli.stage, fresh |-> cli.fresh, conf |-> cli.conf]
BY DEF Clis

LEMMA AtIsStep ==
  /\ \A at \in {"off", "open", "observe", "ready", "sign", "send", "wait", "plan", "stage", "begin",
                "settled", "carry", "check", "fence"} : at \in CliSteps
  /\ \A at \in {"observe", "ready", "sign", "send", "wait", "settled", "carry", "check", "fence"} :
       at \in Working
BY DEF CliSteps, Working

LEMMA StartStep ==
  ASSUME PubInv, NEW cmd \in Commands, Start(cmd) PROVE PubInv'
<1>1. cli' = [Idle EXCEPT !.cmd = cmd, !.at = "open"]
      /\ UNCHANGED <<entries, lock, job, store, witness, lists, faults, world>>
  BY DEF Start
<1>2. cli' \in Clis /\ cli'.at = "open"
  <2>1. cli' = [cmd |-> cmd, at |-> "open", i |-> 0, plan |-> NoPlan, stage |-> 0,
                fresh |-> FALSE, conf |-> NoConf]
    BY <1>1 DEF Idle
  <2> QED BY <2>1, AtIsStep, Bounds DEF Clis
<1>3. CliFits'
  BY <1>2 DEF CliFits, Working
<1> QED BY <1>1, <1>2, <1>3, TypedNow, CliMoves

LEMMA BusyStep ==
  ASSUME PubInv, Busy PROVE PubInv'
BY TypedNow, CliEnds DEF Busy

\* publish, resume and check begin with the last entry that stands.
LEMMA OpenedAtLast ==
  ASSUME PubInv, Journal!Standing(entries) # {}, Journal!OpenJournal,
         cli' = [cli EXCEPT !.at = "observe", !.stage = 1, !.i = Journal!LastStanding(entries)],
         UNCHANGED <<entries, job, store, witness, lists, faults, world>>
  PROVE  PubInv'
<1>1. /\ cli' \in Clis /\ cli'.at = "observe" /\ cli'.stage = 1
      /\ cli'.i = Journal!LastStanding(entries)
  <2>1. "observe" \in CliSteps /\ cli \in Clis /\ Journal!LastStanding(entries) \in 0 .. MaxEntries
    BY AtIsStep, TypedNow, LastStandingStands
  <2>2. cli' = [cmd |-> cli.cmd, at |-> "observe", i |-> Journal!LastStanding(entries),
                plan |-> cli.plan, stage |-> 1, fresh |-> cli.fresh, conf |-> cli.conf]
    BY <2>1, CliShape
  <2> QED BY <2>1, <2>2 DEF Clis
<1>2. CliFits'
  BY <1>1, LastStandingStands DEF CliFits, Working, Journal!Standing
<1> QED BY <1>1, <1>2, CliMoves DEF Journal!OpenJournal

LEMMA OpenPublishStep ==
  ASSUME PubInv, OpenPublish PROVE PubInv'
<1>1. CASE Journal!Unsettled(entries) # {}
  BY <1>1, TypedNow, CliExits DEF OpenPublish
<1>2. CASE Journal!Unsettled(entries) = {} /\ Journal!Standing(entries) # {}
  BY <1>2, OpenedAtLast DEF OpenPublish
<1>3. CASE Journal!Unsettled(entries) = {} /\ Journal!Standing(entries) = {}
  <2>1. cli' = [cli EXCEPT !.at = "plan"] /\ lock' = TRUE
        /\ UNCHANGED <<entries, job, store, witness, lists, faults, world>>
    BY <1>3 DEF OpenPublish, Journal!OpenJournal
  <2>2. cli' \in Clis /\ cli'.at = "plan"
    BY <2>1, TypedNow DEF Clis, CliSteps
  <2>3. CliFits'
    BY <2>2 DEF CliFits, Working
  <2> QED BY <2>1, <2>2, <2>3, CliMoves
<1> QED BY <1>1, <1>2, <1>3

LEMMA OpenLastStep ==
  ASSUME PubInv, OpenLast PROVE PubInv'
<1>1. CASE Journal!Standing(entries) = {}
  BY <1>1, TypedNow, CliExits DEF OpenLast
<1>2. CASE Journal!Standing(entries) # {}
  BY <1>2, OpenedAtLast DEF OpenLast
<1> QED BY <1>1, <1>2

\* A step that keeps the entry and its stage, or takes a signed one further.
LEMMA GoesOn ==
  ASSUME PubInv, cli.at \in Working, cli' \in Clis, cli'.at \in CliSteps \ {"stage", "begin"},
         cli'.i = cli.i, cli'.stage # 0,
         cli'.stage # 1 => cli.stage # 1 \/ entries[cli.i].tx # NoTx,
         cli'.at = "send" => cli'.stage # 1,
         UNCHANGED <<entries, job, store, witness, lists, faults, world>>, lock' \in BOOLEAN
  PROVE  PubInv'
<1>1. CliFits'
  BY DEF PubInv, CliFits, Journal!Standing
<1> QED BY <1>1, CliMoves

LEMMA ObserveSettledStep ==
  ASSUME PubInv, ObserveSettled PROVE PubInv'
<1>1. CASE ~Reobserved(cli.i, entries[cli.i].conf)
  BY <1>1, TypedNow, CliExits DEF ObserveSettled
<1>2. CASE Reobserved(cli.i, entries[cli.i].conf)
  <2>1. cli' = [cli EXCEPT !.at = IF cli.cmd = "publish" THEN "plan" ELSE "settled",
                           !.conf = entries[cli.i].conf]
        /\ UNCHANGED <<entries, lock, job, store, witness, lists, faults, world>>
        /\ cli.at = "observe"
    BY <1>2 DEF ObserveSettled
  <2>2. cli.at \in Working
    BY <2>1 DEF Working, CliSteps
  <2>3. /\ cli' \in Clis /\ cli'.at \in {"plan", "settled"} /\ cli'.i = cli.i
        /\ cli'.stage = cli.stage
    BY <2>1, <2>2, TypedNow, WorkingEntry DEF Clis, CliSteps, Journal!Entries
  <2>4. cli.stage # 0
    BY <2>2, WorkingEntry
  <2> QED BY <2>1, <2>2, <2>3, <2>4, GoesOn, TypedNow DEF CliSteps
<1> QED BY <1>1, <1>2

LEMMA ObservePendingStep ==
  ASSUME PubInv, ObservePending PROVE PubInv'
<1>1. PICK at \in {"wait", "ready", "send"} :
        /\ cli' = [cli EXCEPT !.at = at] /\ (at = "send" => cli.stage # 1)
        /\ UNCHANGED <<entries, lock, job, store, witness, lists, faults, world>>
        /\ cli.at = "observe"
  BY DEF ObservePending, Go
<1>2. cli.at \in Working
  BY <1>1 DEF Working, CliSteps
<1>3. at \in CliSteps /\ at \notin {"stage", "begin"}
  BY <1>1, AtIsStep
<1>4. cli' \in Clis /\ cli'.at = at /\ cli'.i = cli.i /\ cli'.stage = cli.stage
  BY <1>1, <1>3, TypedNow DEF Clis
<1>5. cli'.stage # 0 /\ lock' \in BOOLEAN
  BY <1>1, <1>2, <1>4, WorkingEntry, TypedNow
<1> QED BY <1>1, <1>2, <1>3, <1>4, <1>5, GoesOn

LEMMA AssertReadyStep ==
  ASSUME PubInv, AssertReady PROVE PubInv'
<1>1. CASE ~Ready(entries[cli.i].plan)
  BY <1>1, TypedNow, CliExits DEF AssertReady
<1>2. CASE Ready(entries[cli.i].plan)
  <2>1. /\ cli' = IF entries[cli.i].tx = NoTx THEN [cli EXCEPT !.at = "sign"]
                  ELSE IF cli.stage = 1 THEN [cli EXCEPT !.stage = 2]
                  ELSE [cli EXCEPT !.at = "observe"]
        /\ UNCHANGED <<entries, lock, job, store, witness, lists, faults, world>>
        /\ cli.at = "ready"
    BY <1>2 DEF AssertReady
  <2>2. cli.at \in Working
    BY <2>1 DEF Working, CliSteps
  <2>3. CASE entries[cli.i].tx = NoTx
    <3>1. cli' \in Clis /\ cli'.at = "sign" /\ cli'.i = cli.i /\ cli'.stage = cli.stage
      BY <2>1, <2>3, TypedNow DEF Clis, CliSteps
    <3> QED BY <2>1, <2>2, <3>1, WorkingEntry, GoesOn, TypedNow DEF CliSteps
  <2>4. CASE entries[cli.i].tx # NoTx /\ cli.stage = 1
    <3>1. cli' \in Clis /\ cli'.at = "ready" /\ cli'.i = cli.i /\ cli'.stage = 2
      BY <2>1, <2>4, TypedNow DEF Clis, CliSteps
    <3> QED BY <2>1, <2>2, <2>4, <3>1, WorkingEntry, GoesOn, TypedNow DEF CliSteps
  <2>5. CASE entries[cli.i].tx # NoTx /\ cli.stage # 1
    <3>1. cli' \in Clis /\ cli'.at = "observe" /\ cli'.i = cli.i /\ cli'.stage = cli.stage
      BY <2>1, <2>5, TypedNow DEF Clis, CliSteps
    <3> QED BY <2>1, <2>2, <3>1, WorkingEntry, GoesOn, TypedNow DEF CliSteps
  <2> QED BY <2>3, <2>4, <2>5
<1> QED BY <1>1, <1>2

LEMMA AdvanceAgainStep ==
  ASSUME PubInv, AdvanceAgain PROVE PubInv'
<1>1. /\ cli' = [cli EXCEPT !.at = "observe", !.stage = 1] /\ cli.at = "wait"
      /\ UNCHANGED <<entries, lock, job, store, witness, lists, faults, world>>
  BY DEF AdvanceAgain
<1>2. cli.at \in Working
  BY <1>1 DEF Working, CliSteps
<1>3. cli' \in Clis /\ cli'.at = "observe" /\ cli'.i = cli.i /\ cli'.stage = 1
  <2>1. cli' = [cmd |-> cli.cmd, at |-> "observe", i |-> cli.i, plan |-> cli.plan,
                stage |-> 1, fresh |-> cli.fresh, conf |-> cli.conf]
    BY <1>1, TypedNow, CliShape
  <2> QED BY <2>1, AtIsStep, TypedNow DEF Clis
<1> QED BY <1>1, <1>2, <1>3, GoesOn, TypedNow DEF CliSteps

LEMMA GiveUpStep ==
  ASSUME PubInv, GiveUp PROVE PubInv'
BY TypedNow, CliExits DEF GiveUp

LEMMA AwaitCarryStep ==
  ASSUME PubInv, AwaitCarry PROVE PubInv'
<1>1. CASE ~Carried(cli.i, cli.conf)
  BY <1>1, TypedNow, CliExits DEF AwaitCarry
<1>2. CASE Carried(cli.i, cli.conf)
  <2>1. /\ cli' = [cli EXCEPT !.at = "check"] /\ cli.at = "carry"
        /\ UNCHANGED <<entries, lock, job, store, witness, lists, faults, world>>
    BY <1>2 DEF AwaitCarry, Go
  <2>2. cli.at \in Working
    BY <2>1 DEF Working, CliSteps
  <2>3. cli' \in Clis /\ cli'.at = "check" /\ cli'.i = cli.i /\ cli'.stage = cli.stage
    BY <2>1, TypedNow DEF Clis, CliSteps
  <2> QED BY <2>1, <2>2, <2>3, WorkingEntry, GoesOn, TypedNow DEF CliSteps
<1> QED BY <1>1, <1>2

LEMMA ObserveOnlyStep ==
  ASSUME PubInv, ObserveOnly PROVE PubInv'
<1> DEFINE seen == /\ Observation(cli.i) = "confirmed" /\ Receipt(cli.i).ok
                   /\ entries[cli.i].conf \in {NoConf, Receipt(cli.i)}
<1>1. CASE ~seen
  BY <1>1, TypedNow, CliExits DEF ObserveOnly
<1>2. CASE seen
  <2>1. /\ cli' = [cli EXCEPT !.at = "carry", !.conf = Receipt(cli.i)] /\ cli.at = "observe"
        /\ UNCHANGED <<entries, lock, job, store, witness, lists, faults, world>>
    BY <1>2 DEF ObserveOnly
  <2>2. cli.at \in Working
    BY <2>1 DEF Working, CliSteps
  <2>3. Receipt(cli.i) \in Journal!Confirmations
    BY <1>2, <2>2, WorkingEntry, ReceiptTyped DEF PubInv
  <2>4. cli' \in Clis /\ cli'.at = "carry" /\ cli'.i = cli.i /\ cli'.stage = cli.stage
    BY <2>1, <2>3, TypedNow DEF Clis, CliSteps
  <2> QED BY <2>1, <2>2, <2>4, WorkingEntry, GoesOn, TypedNow DEF CliSteps
<1> QED BY <1>1, <1>2

LEMMA CheckStep ==
  ASSUME PubInv, Check PROVE PubInv'
<1>1. CASE HubLatest # entries[cli.i].plan.epoch
  BY <1>1, TypedNow, CliExits DEF Check
<1>2. CASE HubLatest = entries[cli.i].plan.epoch
  <2>1. /\ cli' = [cli EXCEPT !.at = "fence", !.fresh = HubFresh] /\ cli.at = "check"
        /\ UNCHANGED <<entries, lock, job, store, witness, lists, faults, world>>
    BY <1>2 DEF Check
  <2>2. cli.at \in Working /\ HubFresh \in BOOLEAN
    BY <2>1 DEF Working, CliSteps, HubFresh
  <2>3. cli' \in Clis /\ cli'.at = "fence" /\ cli'.i = cli.i /\ cli'.stage = cli.stage
    BY <2>1, <2>2, TypedNow DEF Clis, CliSteps
  <2> QED BY <2>1, <2>2, <2>3, WorkingEntry, GoesOn, TypedNow DEF CliSteps
<1> QED BY <1>1, <1>2
-----------------------------------------------------------------------------
\* The steps that write the journal.
-----------------------------------------------------------------------------
(***************************************************************************)
(* The steps that write the journal.                                       *)
(***************************************************************************)
\* An entry rewritten in place: what it was signed with stays, and a confirmation is
\* the one it had or the one observed.
LEMMA WritesEntry ==
  ASSUME PubInv, NEW i \in DOMAIN entries, NEW e \in Journal!Entries, NEW es,
         es = [entries EXCEPT ![i] = e],
         Journal!ValidAbandonment(e), Journal!ValidConfirmation(e),
         ~e.abandoned /\ e.conf = NoConf => i \in Journal!Unsettled(entries),
         e.plan = entries[i].plan,
         entries[i].tx # NoTx => e.tx = entries[i].tx /\ e.abandoned = entries[i].abandoned,
         e.conf # NoConf => /\ e.tx = entries[i].tx
                            /\ e.conf = entries[i].conf \/ Reobserved(i, e.conf)
  PROVE  Writes(es)
<1>1. /\ es \in Seq(Journal!Entries) /\ Len(es) = Len(entries) /\ DOMAIN es = DOMAIN entries
      /\ es[i] = e /\ \A j \in DOMAIN entries : j # i => es[j] = entries[j]
  <2>1. entries \in [1 .. Len(entries) -> Journal!Entries] /\ Len(entries) \in Nat
    BY TypedNow
  <2>2. /\ DOMAIN es = DOMAIN entries /\ es[i] = e
        /\ \A j \in DOMAIN entries : j # i => es[j] = entries[j]
    BY <2>1
  <2>3. es \in [1 .. Len(entries) -> Journal!Entries]
    BY <2>1
  <2>4. es \in Seq(Journal!Entries)
    BY <2>1, <2>3
  <2>5. Len(es) = Len(entries)
    BY <2>1, <2>3, <2>4
  <2> QED BY <2>2, <2>4, <2>5
<1>2. Len(entries) <= MaxEntries /\ Journal!Valid(entries) /\ JournalHolds
  BY DEF PubInv, PubTypeOK, Journal!JournalTypeOK, JournalHolds
<1>3. Journal!Unsettled(es) \subseteq Journal!Unsettled(entries)
  BY <1>1 DEF Journal!Unsettled, Journal!Standing
<1>4. \A j \in DOMAIN es : Journal!ValidAbandonment(es[j]) /\ Journal!ValidConfirmation(es[j])
  BY <1>1, <1>2 DEF Journal!Valid
<1>5. Journal!Valid(es)
  BY <1>1, <1>2, <1>3, <1>4 DEF Journal!Valid
<1>6. \A j \in DOMAIN entries :
        /\ es[j].plan = entries[j].plan
        /\ entries[j].tx # NoTx => es[j].tx = entries[j].tx /\ es[j].abandoned = entries[j].abandoned
        /\ es[j].conf # NoConf =>
             /\ es[j].tx = entries[j].tx
             /\ es[j].conf = entries[j].conf \/ Reobserved(j, es[j].conf)
  BY <1>1
<1> QED BY <1>1, <1>2, <1>5, <1>6 DEF Writes

LEMMA EntryTyped ==
  ASSUME PubInv, NEW i \in DOMAIN entries
  PROVE  /\ entries[i] \in Journal!Entries
         /\ Journal!ValidAbandonment(entries[i]) /\ Journal!ValidConfirmation(entries[i])
BY TypedNow DEF PubInv, JournalHolds, Journal!Valid

LEMMA AbandonedWrites ==
  ASSUME PubInv, NEW i \in Journal!Unsettled(entries), Journal!MayAbandon(entries, i)
  PROVE  Writes(Journal!Abandoned(entries, i))
<1> DEFINE e == [entries[i] EXCEPT !.abandoned = TRUE]
<1>1. i \in DOMAIN entries /\ entries[i].tx = NoTx /\ entries[i].conf = NoConf
  BY DEF Journal!Unsettled, Journal!Standing, Journal!MayAbandon
<1>2. /\ e \in Journal!Entries /\ e.plan = entries[i].plan /\ e.tx = NoTx /\ e.conf = NoConf
      /\ e.abandoned = TRUE
  BY <1>1, EntryTyped DEF Journal!Entries
<1>3. Journal!Abandoned(entries, i) = [entries EXCEPT ![i] = e]
  BY DEF Journal!Abandoned
<1>4. Journal!ValidAbandonment(e) /\ Journal!ValidConfirmation(e)
  BY <1>2 DEF Journal!ValidAbandonment, Journal!ValidConfirmation
<1> HIDE DEF e
<1> QED BY <1>1, <1>2, <1>3, <1>4, WritesEntry

LEMMA CancelStep ==
  ASSUME PubInv, Cancel PROVE PubInv'
<1>1. CASE ~\E i \in Journal!Unsettled(entries) : Journal!MayAbandon(entries, i)
  BY <1>1, TypedNow, CliExits DEF Cancel
<1>2. CASE \E i \in Journal!Unsettled(entries) : Journal!MayAbandon(entries, i)
  <2>1. PICK i \in Journal!Unsettled(entries) :
          \/ Journal!Save(Journal!Abandoned(entries, i)) /\ Exit(0) /\ UNCHANGED faults
          \/ /\ faults < MaxFaults /\ faults' = faults + 1
             /\ entries' \in {entries, Journal!Abandoned(entries, i)}
             /\ lock' = TRUE /\ Ends(1)
    BY <1>2 DEF Cancel
  <2>2. Journal!MayAbandon(entries, i)
    <3>1. PICK j \in Journal!Unsettled(entries) : Journal!MayAbandon(entries, j)
      BY <1>2
    <3>2. Journal!Unsettled(entries) \subseteq {Len(entries)}
      BY DEF PubInv, JournalHolds, Journal!Valid
    <3> QED BY <3>1, <3>2
  <2>3. Writes(Journal!Abandoned(entries, i))
    BY <2>2, AbandonedWrites
  <2>4. UNCHANGED <<store, witness, lists, world>>
    BY DEF Cancel
  <2>5. CASE Journal!Save(Journal!Abandoned(entries, i)) /\ Exit(0) /\ UNCHANGED faults
    BY <2>3, <2>4, <2>5, TypedNow, CliExits DEF Journal!Save
  <2>6. CASE /\ faults < MaxFaults /\ faults' = faults + 1
             /\ entries' \in {entries, Journal!Abandoned(entries, i)}
             /\ lock' = TRUE /\ Ends(1)
    BY <2>3, <2>4, <2>6, FaultsTyped, CliEnds
  <2> QED BY <2>1, <2>5, <2>6
<1> QED BY <1>1, <1>2

LEMMA ConfirmedWrites ==
  ASSUME PubInv, NEW i \in Journal!Unsettled(entries), Observation(i) = "confirmed"
  PROVE  Writes(Journal!Confirmed(entries, i, Receipt(i)))
<1> DEFINE e == [entries[i] EXCEPT !.conf = Receipt(i)]
<1>1. i \in DOMAIN entries /\ ~entries[i].abandoned
  BY DEF Journal!Unsettled, Journal!Standing
<1>2. Receipt(i) \in Journal!Confirmations /\ entries[i].tx # NoTx
  BY <1>1, ReceiptTyped DEF PubInv
<1>3. /\ e \in Journal!Entries /\ e.plan = entries[i].plan /\ e.tx = entries[i].tx
      /\ e.conf = Receipt(i) /\ e.abandoned = FALSE
  BY <1>1, <1>2, EntryTyped DEF Journal!Entries
<1>4. Journal!Confirmed(entries, i, Receipt(i)) = [entries EXCEPT ![i] = e]
  BY DEF Journal!Confirmed
<1>5. Journal!ValidAbandonment(e) /\ Journal!ValidConfirmation(e)
  BY <1>2, <1>3 DEF Journal!ValidAbandonment, Journal!ValidConfirmation
<1>6. Reobserved(i, e.conf) /\ e.abandoned = entries[i].abandoned
  BY <1>1, <1>3 DEF Reobserved
<1> HIDE DEF e
<1> QED BY <1>1, <1>3, <1>4, <1>5, <1>6, WritesEntry

LEMMA ObserveConfirmedStep ==
  ASSUME PubInv, ObserveConfirmed PROVE PubInv'
<1> DEFINE es == Journal!Confirmed(entries, cli.i, Receipt(cli.i))
<1>1. /\ cli.at = "observe" /\ entries[cli.i].conf = NoConf /\ Observation(cli.i) = "confirmed"
      /\ UNCHANGED <<store, witness, lists, world>>
  BY DEF ObserveConfirmed
<1>2. \/ /\ Journal!Save(es)
         /\ cli' = [cli EXCEPT !.at = "settled", !.conf = Receipt(cli.i)]
         /\ UNCHANGED <<lock, job, faults>>
      \/ Poison(es)
  BY DEF ObserveConfirmed
<1>3. cli.at \in Working
  BY <1>1 DEF Working, CliSteps
<1>4. cli.i \in Journal!Unsettled(entries) /\ cli.i \in DOMAIN entries
  BY <1>1, <1>3, WorkingEntry DEF Journal!Unsettled, Journal!Standing
<1>5. Writes(es)
  BY <1>1, <1>4, ConfirmedWrites
<1> HIDE DEF es
<1>6. CASE Poison(es)
  BY <1>1, <1>5, <1>6, CliPoisoned
<1>7. CASE /\ Journal!Save(es)
           /\ cli' = [cli EXCEPT !.at = "settled", !.conf = Receipt(cli.i)]
           /\ UNCHANGED <<lock, job, faults>>
  <2>1. Receipt(cli.i) \in Journal!Confirmations /\ entries[cli.i].tx # NoTx
    BY <1>1, <1>4, ReceiptTyped DEF PubInv
  <2>2. /\ cli' \in Clis /\ cli'.at = "settled" /\ cli'.i = cli.i /\ cli'.stage = cli.stage
    <3>1. cli' = [cmd |-> cli.cmd, at |-> "settled", i |-> cli.i, plan |-> cli.plan,
                  stage |-> cli.stage, fresh |-> cli.fresh, conf |-> Receipt(cli.i)]
      BY <1>7, TypedNow, CliShape
    <3> QED BY <2>1, <3>1, AtIsStep, TypedNow DEF Clis
  <2>3. entries' = es /\ cli.i \in DOMAIN es /\ es[cli.i].tx # NoTx /\ ~es[cli.i].abandoned
    BY <1>3, <1>4, <1>5, <1>7, <2>1, WorkingEntry DEF Journal!Save, Writes
  <2>4. CliFits'
    BY <1>3, <2>2, <2>3, WorkingEntry DEF CliFits, Working, Journal!Standing
  <2> QED BY <1>1, <1>5, <1>7, <2>2, <2>3, <2>4, CliGoes, TypedNow
<1> QED BY <1>2, <1>6, <1>7

LEMMA PreparedWrites ==
  ASSUME PubInv, NEW i \in Journal!Standing(entries), NEW n \in Nat, Journal!MayPrepare(entries, i, n)
  PROVE  Writes(Journal!Prepared(entries, i, n)) /\ Journal!Prepared(entries, i, n)[i].tx = n
         /\ ~Journal!Prepared(entries, i, n)[i].abandoned
<1> DEFINE e == [entries[i] EXCEPT !.tx = n]
<1>1. /\ i \in DOMAIN entries /\ ~entries[i].abandoned /\ entries[i].tx = NoTx
      /\ entries[i].conf = NoConf
  BY EntryTyped DEF Journal!Standing, Journal!MayPrepare, Journal!ValidConfirmation
<1>2. /\ e \in Journal!Entries /\ e.plan = entries[i].plan /\ e.tx = n /\ e.conf = NoConf
      /\ e.abandoned = FALSE /\ n # NoTx
  BY <1>1, EntryTyped, PublicationAssumption DEF Journal!Entries
<1>3. Journal!Prepared(entries, i, n) = [entries EXCEPT ![i] = e]
  BY DEF Journal!Prepared
<1>4. Journal!ValidAbandonment(e) /\ Journal!ValidConfirmation(e)
  BY <1>2 DEF Journal!ValidAbandonment, Journal!ValidConfirmation
<1>5. i \in Journal!Unsettled(entries)
  BY <1>1 DEF Journal!Unsettled, Journal!Standing
<1>6. Journal!Prepared(entries, i, n)[i] = e
  BY <1>1, <1>3
<1> HIDE DEF e
<1>7. Writes(Journal!Prepared(entries, i, n))
  BY <1>1, <1>2, <1>3, <1>4, <1>5, WritesEntry
<1> QED BY <1>2, <1>6, <1>7

LEMMA SignStep ==
  ASSUME PubInv, Sign PROVE PubInv'
<1> DEFINE es == Journal!Prepared(entries, cli.i, PendingNonce)
<1>1. cli.at = "sign" /\ UNCHANGED <<store, witness, lists, world>>
  BY DEF Sign
<1>2. cli.at \in Working
  BY <1>1 DEF Working, CliSteps
<1>3. CASE ~Journal!MayPrepare(entries, cli.i, PendingNonce)
  BY <1>1, <1>3, TypedNow, CliExits DEF Sign
<1>4. CASE Journal!MayPrepare(entries, cli.i, PendingNonce)
  <2>1. cli.i \in Journal!Standing(entries)
    BY <1>2, WorkingEntry DEF Journal!Standing
  <2>2. PendingNonce \in Nat /\ PendingNonce # NoTx
    BY NoncesTyped
  <2>3. Writes(es) /\ es[cli.i].tx = PendingNonce /\ ~es[cli.i].abandoned
    BY <1>4, <2>1, <2>2, PreparedWrites
  <2>4. \/ /\ Journal!Save(es)
           /\ cli' = [cli EXCEPT !.at = "ready", !.stage = 2]
           /\ UNCHANGED <<lock, job, faults>>
        \/ Poison(es)
    BY <1>4 DEF Sign
  <2> HIDE DEF es
  <2>5. CASE Poison(es)
    BY <1>1, <2>3, <2>5, CliPoisoned
  <2>6. CASE /\ Journal!Save(es)
             /\ cli' = [cli EXCEPT !.at = "ready", !.stage = 2]
             /\ UNCHANGED <<lock, job, faults>>
    <3>1. /\ cli' \in Clis /\ cli'.at = "ready" /\ cli'.i = cli.i /\ cli'.stage = 2
      <4>1. cli' = [cmd |-> cli.cmd, at |-> "ready", i |-> cli.i, plan |-> cli.plan,
                    stage |-> 2, fresh |-> cli.fresh, conf |-> cli.conf]
        BY <2>6, TypedNow, CliShape
      <4> QED BY <4>1, AtIsStep, TypedNow DEF Clis
    <3>2. entries' = es /\ cli.i \in DOMAIN es
      BY <2>1, <2>3, <2>6 DEF Journal!Save, Writes, Journal!Standing
    <3>3. CliFits'
      BY <2>2, <2>3, <3>1, <3>2 DEF CliFits, Working, Journal!Standing
    <3> QED BY <1>1, <2>3, <2>6, <3>1, <3>2, <3>3, CliGoes, TypedNow
  <2> QED BY <2>4, <2>5, <2>6
<1> QED BY <1>3, <1>4

LEMMA BegunWrites ==
  ASSUME PubInv, NEW plan \in Plans, \A r \in Replicas : plan \in store.seeds[r],
         Journal!MayBegin(entries)
  PROVE  LET es == Journal!Begun(entries, plan)
         IN  Writes(es) /\ Len(es) \in DOMAIN es /\ ~es[Len(es)].abandoned
             /\ Len(es) \in 0 .. MaxEntries
<1> DEFINE e == [plan |-> plan, tx |-> NoTx, conf |-> NoConf, abandoned |-> FALSE]
           es == Append(entries, e)
<1>1. e \in Journal!Entries /\ e.conf = NoConf /\ ~e.abandoned /\ e.plan = plan
  BY DEF Journal!Entries
<1>2. /\ Journal!ValidAbandonment(e) /\ Journal!ValidConfirmation(e)
  BY DEF Journal!ValidAbandonment, Journal!ValidConfirmation
<1> HIDE DEF e
<1>3. entries \in Seq(Journal!Entries) /\ Len(entries) \in Nat
  BY TypedNow
<1>4. /\ es \in Seq(Journal!Entries) /\ Len(es) = Len(entries) + 1
      /\ DOMAIN es = 1 .. Len(entries) + 1 /\ DOMAIN entries = 1 .. Len(entries)
      /\ es[Len(entries) + 1] = e /\ \A j \in DOMAIN entries : es[j] = entries[j]
  BY <1>1, <1>3
<1>5. Journal!Unsettled(entries) = {} /\ Len(entries) < MaxEntries /\ MaxEntries \in Nat
  BY Bounds DEF Journal!MayBegin
<1>6. Journal!Valid(es)
  <2>1. \A j \in DOMAIN es : Journal!ValidAbandonment(es[j]) /\ Journal!ValidConfirmation(es[j])
    BY <1>2, <1>3, <1>4 DEF PubInv, JournalHolds, Journal!Valid
  <2>2. Journal!Unsettled(es) \subseteq {Len(es)}
    BY <1>3, <1>4, <1>5 DEF Journal!Unsettled, Journal!Standing
  <2> QED BY <2>1, <2>2 DEF Journal!Valid
<1>7. \A i \in DOMAIN entries : es[i].conf # NoConf => es[i].tx = entries[i].tx
  BY <1>4
<1>8. Writes(es)
  BY <1>1, <1>3, <1>4, <1>5, <1>6 DEF Writes
<1>9. Journal!Begun(entries, plan) = es
  BY DEF Journal!Begun, e
<1> HIDE DEF es
<1> QED BY <1>1, <1>3, <1>4, <1>5, <1>8, <1>9

LEMMA BeginStep ==
  ASSUME PubInv, Begin PROVE PubInv'
<1> DEFINE es == Journal!Begun(entries, cli.plan)
<1>1. cli.at = "begin" /\ UNCHANGED <<store, witness, lists, world>>
  BY DEF Begin
<1>2. CASE ~Journal!MayBegin(entries)
  BY <1>1, <1>2, TypedNow, CliExits DEF Begin
<1>3. CASE Journal!MayBegin(entries)
  <2>1. cli.plan \in Plans /\ \A r \in Replicas : cli.plan \in store.seeds[r]
    BY <1>1 DEF PubInv, CliFits
  <2>2. /\ Writes(es) /\ Len(es) \in DOMAIN es /\ ~es[Len(es)].abandoned
        /\ Len(es) \in 0 .. MaxEntries
    BY <1>3, <2>1, BegunWrites
  <2>3. \/ /\ Journal!Save(es)
           /\ cli' = [cli EXCEPT !.at = "observe", !.stage = 1, !.i = Len(es), !.fresh = TRUE]
           /\ UNCHANGED <<lock, job, faults>>
        \/ Poison(es)
    BY <1>3 DEF Begin
  <2> HIDE DEF es
  <2>4. CASE Poison(es)
    BY <1>1, <2>2, <2>4, CliPoisoned
  <2>5. CASE /\ Journal!Save(es)
             /\ cli' = [cli EXCEPT !.at = "observe", !.stage = 1, !.i = Len(es), !.fresh = TRUE]
             /\ UNCHANGED <<lock, job, faults>>
    <3>1. /\ cli' \in Clis /\ cli'.at = "observe" /\ cli'.i = Len(es) /\ cli'.stage = 1
      <4>1. cli' = [cmd |-> cli.cmd, at |-> "observe", i |-> Len(es), plan |-> cli.plan,
                    stage |-> 1, fresh |-> TRUE, conf |-> cli.conf]
        BY <2>5, TypedNow, CliShape
      <4> QED BY <2>2, <4>1, AtIsStep, TypedNow DEF Clis
    <3>2. entries' = es
      BY <2>5 DEF Journal!Save
    <3>3. CliFits'
      BY <2>2, <3>1, <3>2 DEF CliFits, Working, Journal!Standing
    <3> QED BY <1>1, <2>2, <2>5, <3>1, <3>2, <3>3, CliGoes, TypedNow
  <2> QED BY <2>3, <2>4, <2>5
<1> QED BY <1>2, <1>3
-----------------------------------------------------------------------------
(***************************************************************************)
(* The broadcast, the plan and its rosters.                                *)
(***************************************************************************)
LEMMA BroadcastStep ==
  ASSUME PubInv, Broadcast PROVE PubInv'
<1> DEFINE e == entries[cli.i]
           t == [id |-> cli.i, plan |-> e.plan, nonce |-> e.tx]
<1>1. /\ cli.at = "send" /\ cli' = [cli EXCEPT !.at = "observe", !.stage = 3]
      /\ UNCHANGED <<entries, lock, job, store, witness, lists, hub, now>>
  BY DEF Broadcast
<1>2. \/ /\ source' = [source EXCEPT !.pool = @ \cup {t}, !.sent = @ \cup {t}]
         /\ UNCHANGED faults
      \/ UNCHANGED <<source, faults>>
      \/ faults < MaxFaults /\ faults' = faults + 1 /\ UNCHANGED source
  BY DEF Broadcast
<1>3. cli.at \in Working /\ source \in Sources
  BY <1>1 DEF Working, CliSteps, PubInv, PubTypeOK
<1>4. /\ cli.i \in DOMAIN entries /\ cli.i \in 1 .. MaxEntries /\ e \in Journal!Entries
      /\ ~e.abandoned /\ cli.i \in Journal!Standing(entries)
  BY <1>3, WorkingEntry DEF Journal!Standing
<1>5. e.tx \in Nat /\ e.plan \in Plans /\ e.tx # NoTx
  BY <1>1, <1>3, <1>4 DEF PubInv, CliFits, Journal!Entries
<1>6. t \in Txs /\ t.id = cli.i /\ t.nonce = e.tx /\ t.plan = e.plan
  BY <1>4, <1>5 DEF Txs
<1>7. /\ cli' \in Clis /\ cli'.at = "observe" /\ cli'.i = cli.i /\ cli'.stage = 3
  <2>1. cli' = [cmd |-> cli.cmd, at |-> "observe", i |-> cli.i, plan |-> cli.plan,
                stage |-> 3, fresh |-> cli.fresh, conf |-> cli.conf]
    BY <1>1, TypedNow, CliShape
  <2> QED BY <2>1, AtIsStep, TypedNow DEF Clis
<1>8. CliFits'
  <2>1. cli'.i \in Journal!Standing(entries)' /\ entries'[cli'.i].tx # NoTx
    BY <1>1, <1>4, <1>5, <1>7
  <2> QED BY <1>7, <2>1 DEF CliFits, Working
<1> HIDE DEF e, t
<1>9. faults' \in 0 .. MaxFaults
  BY <1>2, FaultsTyped
<1>10. CASE UNCHANGED source
  <2>1. PubTypeOK'
    BY <1>1, <1>7, <1>9, <1>10 DEF PubInv, PubTypeOK, Journal!JournalTypeOK
  <2> QED BY <1>1, <1>8, <1>10, <2>1, QuietStep
<1>11. CASE source' = [source EXCEPT !.pool = @ \cup {t}, !.sent = @ \cup {t}]
  <2>1. /\ source'.pool = source.pool \cup {t} /\ source'.sent = source.sent \cup {t}
        /\ source'.mined = source.mined /\ source'.deepFork = source.deepFork
        /\ source' = [source EXCEPT !.pool = source.pool \cup {t}, !.sent = source.sent \cup {t}]
    BY <1>3, <1>11 DEF Sources
  <2>2. source' \in Sources
    BY <1>3, <1>6, <2>1 DEF Sources
  <2>3. PubTypeOK'
    BY <1>1, <1>7, <1>9, <2>2 DEF PubInv, PubTypeOK, Journal!JournalTypeOK
  <2>4. NoncesFit'
    <3>1. IsFiniteSet(source.pool)
      BY DEF PubInv, NoncesFit
    <3>2. IsFiniteSet(source'.pool)
      BY <2>1, <3>1, FS_AddElement
    <3> QED BY <2>1, <3>2 DEF PubInv, NoncesFit, MinedNonce
  <2>5. SentIsRecoverable'
    <3>1. \A r \in Replicas : e.plan \in store.seeds[r]
      BY <1>4 DEF e, PubInv, JournalHolds, RostersAreStaged
    <3>2. ASSUME NEW u \in source'.sent
          PROVE  /\ u.id \in DOMAIN entries
                 /\ entries[u.id].tx = u.nonce /\ entries[u.id].plan = u.plan
                 /\ ~entries[u.id].abandoned
                 /\ \A r \in Replicas : u.plan \in store.seeds[r]
      <4>1. CASE u \in source.sent
        BY <4>1 DEF PubInv, JournalHolds, SentIsRecoverable
      <4>2. CASE u = t
        BY <1>4, <1>6, <3>1, <4>2 DEF e
      <4> QED BY <2>1, <4>1, <4>2
    <3> QED BY <1>1, <3>2 DEF SentIsRecoverable
  <2>6. ConfirmedStands'
    <3>1. \A i \in DOMAIN entries : Receipts(entries[i], i)' = Receipts(entries[i], i)
      BY <1>1, <2>1 DEF Receipts
    <3> QED BY <1>1, <2>1, <3>1, DeepBlocksStay
  <2>7. Journal!Valid(entries)' /\ RostersAreStaged'
    BY <1>1 DEF PubInv, JournalHolds, RostersAreStaged
  <2> QED BY <1>8, <2>3, <2>4, <2>5, <2>6, <2>7 DEF PubInv, JournalHolds
<1> QED BY <1>2, <1>10, <1>11

LEMMA PlanStep ==
  ASSUME PubInv, Plan PROVE PubInv'
<1> DEFINE may == /\ LastEpoch < MaxEpoch
                  /\ cli.plan # NoPlan => /\ cli.plan.epoch = LastEpoch + 1
                                          /\ Ready(cli.plan)
<1>1. CASE ~may
  BY <1>1, TypedNow, CliExits DEF Plan
<1>2. CASE may
  <2>1. /\ cli' = [cli EXCEPT !.at = "stage",
                    !.plan = IF cli.plan = NoPlan THEN NextPlan ELSE cli.plan]
        /\ UNCHANGED <<entries, lock, job, store, witness, lists, faults, world>>
    BY <1>2 DEF Plan
  <2>2. NextPlan \in Plans
    BY <1>2, NextPlanTyped DEF PubInv
  <2>3. PICK plan \in Plans : cli' = [cli EXCEPT !.at = "stage", !.plan = plan]
    BY <2>1, <2>2, TypedNow DEF Clis
  <2>4. cli' = [cmd |-> cli.cmd, at |-> "stage", i |-> cli.i, plan |-> plan,
                stage |-> cli.stage, fresh |-> cli.fresh, conf |-> cli.conf]
    BY <2>3, TypedNow, CliShape
  <2>5. cli' \in Clis /\ cli'.at = "stage" /\ cli'.plan = plan
    BY <2>4, AtIsStep, TypedNow DEF Clis
  <2>6. CliFits'
    BY <2>5 DEF CliFits, Working
  <2> QED BY <2>1, <2>5, <2>6, CliMoves, TypedNow
<1> QED BY <1>1, <1>2

LEMMA StoreTyped ==
  ASSUME PubInv
  PROVE  /\ store = [seeds |-> store.seeds, record |-> store.record]
         /\ store.seeds \in [Replicas -> SUBSET Plans]
         /\ store.record \in [1 .. MaxEpoch -> Records \cup {NoRecord}]
BY DEF PubInv, PubTypeOK

\* A step that only writes the replica directories or a record.
LEMMA StoreWritten ==
  ASSUME PubInv, UNCHANGED <<entries, witness, lists, world>>,
         NEW seeds \in [Replicas -> SUBSET Plans],
         NEW record \in [1 .. MaxEpoch -> Records \cup {NoRecord}],
         store' = [seeds |-> seeds, record |-> record],
         \A r \in Replicas : store.seeds[r] \subseteq seeds[r],
         lock' \in BOOLEAN, cli' \in Clis, job' \in Jobs, faults' \in 0 .. MaxFaults, CliFits'
  PROVE  PubInv'
<1>1. store' \in [seeds : [Replicas -> SUBSET Plans], record : [1 .. MaxEpoch -> Records \cup {NoRecord}]]
  OBVIOUS
<1>2. PubTypeOK'
  BY <1>1 DEF PubInv, PubTypeOK, world, Journal!JournalTypeOK
<1>3. \A r \in Replicas : store.seeds[r] \subseteq store'.seeds[r]
  OBVIOUS
<1> QED BY <1>2, <1>3, QuietStep DEF world

LEMMA StageStep ==
  ASSUME PubInv, Stage PROVE PubInv'
<1>1. /\ cli.at = "stage"
      /\ UNCHANGED <<entries, lock, cli, job, witness, lists, faults, world>>
  BY DEF Stage
<1>2. PICK r \in Replicas : store' = [store EXCEPT !.seeds[r] = @ \cup {cli.plan}]
  BY DEF Stage, Unstaged
<1>3. cli.plan \in Plans
  BY <1>1 DEF PubInv, CliFits
<1> DEFINE seeds == [store.seeds EXCEPT ![r] = @ \cup {cli.plan}]
<1>4. seeds \in [Replicas -> SUBSET Plans] /\ \A q \in Replicas : store.seeds[q] \subseteq seeds[q]
  BY <1>3, StoreTyped
<1>5. store' = [seeds |-> seeds, record |-> store.record]
  BY <1>2, StoreTyped
<1> HIDE DEF seeds
<1>6. CliFits'
  BY <1>1 DEF PubInv, CliFits, Working
<1> QED BY <1>1, <1>4, <1>5, <1>6, StoreTyped, StoreWritten, TypedNow

LEMMA StagedStep ==
  ASSUME PubInv, Staged PROVE PubInv'
<1>1. /\ cli.at = "stage" /\ Unstaged = {} /\ cli' = [cli EXCEPT !.at = "begin"]
      /\ UNCHANGED <<entries, lock, job, store, witness, lists, faults, world>>
  BY DEF Staged, Go
<1>2. cli' = [cmd |-> cli.cmd, at |-> "begin", i |-> cli.i, plan |-> cli.plan,
              stage |-> cli.stage, fresh |-> cli.fresh, conf |-> cli.conf]
  BY <1>1, TypedNow, CliShape
<1>3. cli' \in Clis /\ cli'.at = "begin" /\ cli'.plan = cli.plan
  BY <1>2, AtIsStep, TypedNow DEF Clis
<1>4. cli.plan \in Plans /\ \A r \in Replicas : cli.plan \in store.seeds[r]
  BY <1>1 DEF PubInv, CliFits, Unstaged
<1>5. CliFits'
  BY <1>1, <1>3, <1>4 DEF CliFits, Working
<1> QED BY <1>1, <1>3, <1>5, CliMoves, TypedNow
-----------------------------------------------------------------------------
\* The records.

LEMMA RecordWritten ==
  ASSUME PubInv, NEW n, NEW rec \in Records, store' = [store EXCEPT !.record[n] = rec],
         UNCHANGED <<entries, witness, lists, world>>,
         lock' \in BOOLEAN, cli' \in Clis, job' \in Jobs, faults' \in 0 .. MaxFaults, CliFits'
  PROVE  PubInv'
<1> DEFINE record == [store.record EXCEPT ![n] = rec]
<1>1. record \in [1 .. MaxEpoch -> Records \cup {NoRecord}]
  BY StoreTyped
<1>2. store' = [seeds |-> store.seeds, record |-> record]
  BY StoreTyped
<1> HIDE DEF record
<1> QED BY <1>1, <1>2, StoreTyped, StoreWritten

LEMMA SettledStep ==
  ASSUME PubInv, Settled PROVE PubInv'
<1>1. cli.at = "settled" /\ UNCHANGED <<entries, witness, lists, faults, world>>
  BY DEF Settled
<1>2. cli.at \in Working
  BY <1>1 DEF Working, CliSteps
<1>3. CASE ~(cli.conf.ok /\ Reobserved(cli.i, cli.conf))
  BY <1>1, <1>3, TypedNow, CliExits DEF Settled
<1>4. CASE cli.conf.ok /\ Reobserved(cli.i, cli.conf)
  <2>1. PICK n : store' = [store EXCEPT !.record[n] = [id |-> cli.i, verified |-> FALSE]]
    BY <1>4 DEF Settled, Bundle
  <2>2. [id |-> cli.i, verified |-> FALSE] \in Records
    BY <1>2, WorkingEntry DEF Records
  <2>3. CASE cli.cmd = "resume"
    <3>1. Exit(2)
      BY <1>4, <2>3 DEF Settled
    <3>2. cli' \in Clis /\ job' \in Jobs /\ CliFits' /\ lock' = FALSE
      BY <3>1, Ended DEF Exit, Journal!Close
    <3> QED BY <1>1, <2>1, <2>2, <3>2, RecordWritten, TypedNow
  <2>4. CASE cli.cmd # "resume"
    <3>1. cli' = [cli EXCEPT !.at = "carry"] /\ UNCHANGED <<lock, job>>
      BY <1>4, <2>4 DEF Settled, Go
    <3>2. cli' = [cmd |-> cli.cmd, at |-> "carry", i |-> cli.i, plan |-> cli.plan,
                  stage |-> cli.stage, fresh |-> cli.fresh, conf |-> cli.conf]
      BY <3>1, TypedNow, CliShape
    <3>3. /\ cli' \in Clis /\ cli'.at = "carry" /\ cli'.i = cli.i /\ cli'.stage = cli.stage
      BY <3>2, AtIsStep, TypedNow DEF Clis
    <3>4. CliFits'
      BY <1>1, <1>2, <3>3 DEF PubInv, CliFits, Journal!Standing
    <3> QED BY <1>1, <2>1, <2>2, <3>1, <3>3, <3>4, RecordWritten, TypedNow
  <2> QED BY <2>3, <2>4
<1> QED BY <1>3, <1>4

LEMMA FenceStep ==
  ASSUME PubInv, Fence PROVE PubInv'
<1>1. cli.at = "fence" /\ UNCHANGED <<entries, witness, lists, faults, world>>
  BY DEF Fence
<1>2. cli.at \in Working
  BY <1>1 DEF Working, CliSteps
<1>3. CASE ~Reobserved(cli.i, cli.conf)
  BY <1>1, <1>3, TypedNow, CliExits DEF Fence
<1>4. CASE Reobserved(cli.i, cli.conf)
  <2>1. PICK n : store' = [store EXCEPT !.record[n] = [id |-> cli.i, verified |-> TRUE]]
    BY <1>4 DEF Fence
  <2>2. [id |-> cli.i, verified |-> TRUE] \in Records
    BY <1>2, WorkingEntry DEF Records
  <2>3. PICK code : Exit(code)
    BY <1>4 DEF Fence
  <2>4. cli' \in Clis /\ job' \in Jobs /\ CliFits' /\ lock' = FALSE
    BY <2>3, Ended DEF Exit, Journal!Close
  <2> QED BY <1>1, <2>1, <2>2, <2>4, RecordWritten, TypedNow
<1> QED BY <1>3, <1>4

LEMMA CheckLatestStep ==
  ASSUME PubInv, CheckLatest PROVE PubInv'
<1>1. /\ HubLatest > 0 /\ store.record[HubLatest] # NoRecord
      /\ store' = [store EXCEPT !.record[HubLatest].verified = TRUE]
      /\ UNCHANGED <<entries, lock, cli, job, witness, lists, faults, world>>
  BY DEF CheckLatest
<1>2. HubLatest \in 1 .. MaxEpoch
  BY <1>1, HubLatestTyped, Bounds DEF PubInv
<1> DEFINE rec == [store.record[HubLatest] EXCEPT !.verified = TRUE]
<1>3. rec \in Records
  BY <1>1, <1>2, StoreTyped DEF Records
<1>4. store' = [store EXCEPT !.record[HubLatest] = rec]
  BY <1>1, <1>2, StoreTyped
<1> HIDE DEF rec
<1>5. \A r \in Replicas : store.seeds[r] \subseteq store'.seeds[r]
  BY <1>4, StoreTyped
<1>6. CliFits'
  BY <1>1, <1>5, CliRests
<1> QED BY <1>1, <1>3, <1>4, <1>6, RecordWritten, TypedNow
-----------------------------------------------------------------------------
(***************************************************************************)
(* Failures, the operator, the clock and the hub.                          *)
(***************************************************************************)
LEMMA ThrowStep ==
  ASSUME PubInv, Throw PROVE PubInv'
<1>1. /\ faults' \in 0 .. MaxFaults /\ UNCHANGED <<entries, store, witness, lists, world>>
  BY FaultsTyped DEF Throw
<1>2. CASE Running
  BY <1>1, <1>2, CliExits DEF Throw
<1>3. CASE ~Running
  <2>1. job' = JobOff /\ UNCHANGED <<cli, lock>>
    BY <1>3 DEF Throw
  <2>2. CliFits'
    BY <1>1, <2>1, CliRests
  <2> QED BY <1>1, <2>1, <2>2, JobOffTyped, TypedNow, CliGoes
<1> QED BY <1>2, <1>3

LEMMA DieStep ==
  ASSUME PubInv, Die PROVE PubInv'
<1>1. /\ faults' \in 0 .. MaxFaults /\ cli' = Idle /\ job' = JobOff
      /\ UNCHANGED <<entries, lock, store, witness, lists, world>>
  BY FaultsTyped DEF Die
<1> QED BY <1>1, IdleFits, JobOffTyped, TypedNow, CliGoes

LEMMA ClearLockStep ==
  ASSUME PubInv, ClearLock PROVE PubInv'
<1>1. /\ lock' = FALSE
      /\ UNCHANGED <<entries, cli, job, store, witness, lists, faults, world>>
  BY DEF ClearLock, Journal!ClearLock
<1>2. CliFits'
  BY <1>1, CliRests
<1> QED BY <1>1, <1>2, CliMoves, TypedNow

\* Steps that touch neither the journal, nor the chain, nor the store.
LEMMA ElsewhereStep ==
  ASSUME PubInv, UNCHANGED <<entries, lock, source, store>>, cli' \in Clis, CliFits', job' \in Jobs,
         hub' \in Seq(HubEpochs), witness' \in [Subjects -> 0 .. MaxEpoch],
         now' \in 0 .. MaxTime, lists' \in 1 .. MaxLists, faults' \in 0 .. MaxFaults
  PROVE  PubInv'
<1>1. PubTypeOK'
  BY DEF PubInv, PubTypeOK, Journal!JournalTypeOK
<1> QED BY <1>1, QuietStep

LEMMA RestTyped ==
  ASSUME PubInv
  PROVE  /\ hub \in Seq(HubEpochs) /\ witness \in [Subjects -> 0 .. MaxEpoch]
         /\ now \in 0 .. MaxTime /\ lists \in 1 .. MaxLists /\ source \in Sources
BY DEF PubInv, PubTypeOK

LEMMA TickStep ==
  ASSUME PubInv, Tick PROVE PubInv'
<1>1. now' \in 0 .. MaxTime
  BY RestTyped, Bounds DEF Tick
<1>2. CliFits'
  BY CliRests DEF Tick
<1> QED BY <1>1, <1>2, ElsewhereStep, RestTyped, TypedNow DEF Tick

LEMMA CarryStep ==
  ASSUME PubInv, Carry PROVE PubInv'
<1>1. UNCHANGED <<entries, lock, cli, job, source, store, witness, now, lists, faults>>
  BY DEF Carry
<1>2. hub' \in Seq(HubEpochs)
  <2>1. CASE \E m \in source.mined :
               /\ m.ok /\ m.deep /\ m.tx.plan.epoch > HubLatest
               /\ hub' = Append(hub, [epoch |-> m.tx.plan.epoch, id |-> m.tx.id, block |-> m.block,
                                      until |-> ValidUntil(m.tx.plan)])
    <3>1. PICK m \in source.mined :
            hub' = Append(hub, [epoch |-> m.tx.plan.epoch, id |-> m.tx.id, block |-> m.block,
                                until |-> ValidUntil(m.tx.plan)])
      BY <2>1
    <3>2. m.tx \in Txs /\ m.block \in Nat
      BY RestTyped DEF Sources
    <3>3. /\ m.tx.plan.epoch \in 1 .. MaxEpoch /\ m.tx.id \in 0 .. MaxEntries
          /\ ValidUntil(m.tx.plan) \in Nat
      BY <3>2, Bounds DEF Txs, Plans, ValidUntil
    <3>4. [epoch |-> m.tx.plan.epoch, id |-> m.tx.id, block |-> m.block,
           until |-> ValidUntil(m.tx.plan)] \in HubEpochs
      BY <3>2, <3>3 DEF HubEpochs
    <3> QED BY <3>1, <3>4, RestTyped
  <2>2. CASE \E e \in source.others :
               /\ e > HubLatest
               /\ hub' = Append(hub, [epoch |-> e, id |-> 0, block |-> 0, until |-> now + Age])
    <3>1. PICK e \in source.others :
            hub' = Append(hub, [epoch |-> e, id |-> 0, block |-> 0, until |-> now + Age])
      BY <2>2
    <3>2. e \in 1 .. MaxEpoch
      BY RestTyped DEF Sources
    <3>3. [epoch |-> e, id |-> 0, block |-> 0, until |-> now + Age] \in HubEpochs
      BY <3>2, RestTyped, Bounds DEF HubEpochs
    <3> QED BY <3>1, <3>3, RestTyped
  <2> QED BY <2>1, <2>2 DEF Carry
<1>3. CliFits'
  BY <1>1, CliRests
<1> QED BY <1>1, <1>2, <1>3, ElsewhereStep, RestTyped, TypedNow
-----------------------------------------------------------------------------
(***************************************************************************)
(* The scheduled renewal.                                                  *)
(***************************************************************************)
LEMMA JobAt ==
  ASSUME PubInv, NEW at \in JobSteps
  PROVE  /\ [job EXCEPT !.at = at] \in Jobs
         /\ \A e \in 0 .. MaxEpoch : [at |-> at, epoch |-> e] \in Jobs
BY TypedNow DEF Jobs

LEMMA JobMoves ==
  ASSUME PubInv, job' \in Jobs,
         UNCHANGED <<entries, lock, cli, store, lists, faults, world>>,
         witness' \in [Subjects -> 0 .. MaxEpoch]
  PROVE  PubInv'
<1>1. CliFits'
  BY CliRests
<1> QED BY <1>1, ElsewhereStep, RestTyped, TypedNow DEF world

LEMMA ChildFits ==
  ASSUME NEW cmd \in {"publish", "resume"}, NEW plan \in Plans \cup {NoPlan}, RunChild(cmd, plan)
  PROVE  cli' \in Clis /\ CliFits'
<1>1. cli' = [cmd |-> cmd, at |-> "open", i |-> 0, plan |-> plan, stage |-> 0,
              fresh |-> FALSE, conf |-> NoConf]
  BY DEF RunChild, Idle
<1>2. cli' \in Clis /\ cli'.at = "open"
  BY <1>1, AtIsStep, Bounds DEF Clis
<1> QED BY <1>2 DEF CliFits, Working

LEMMA StartRenewalStep ==
  ASSUME PubInv, StartRenewal PROVE PubInv'
<1>1. job' \in Jobs
  BY Bounds DEF StartRenewal, JobOff, Jobs, JobSteps
<1> QED BY <1>1, JobMoves, RestTyped DEF StartRenewal

LEMMA ReadStep ==
  ASSUME PubInv, Read PROVE PubInv'
<1>1. UNCHANGED <<entries, lock, store, witness, lists, faults, world>>
  BY DEF Read
<1>2. LastEpoch \in 0 .. MaxEpoch /\ HubLatest \in 0 .. MaxEpoch
  BY LastEpochTyped, HubLatestTyped DEF PubInv
<1>3. {"resume", "current", "refresh"} \subseteq JobSteps
  BY DEF JobSteps
<1>4. CASE LastEpoch > HubLatest
  <2>1. job' = [at |-> "resume", epoch |-> LastEpoch] /\ RunChild("resume", NoPlan)
    BY <1>2, <1>4 DEF Read
  <2>2. job' \in Jobs /\ cli' \in Clis /\ CliFits'
    BY <1>2, <1>3, <2>1, JobAt, ChildFits
  <2> QED BY <1>1, <2>2, ElsewhereStep, RestTyped, TypedNow DEF world
<1>5. CASE LastEpoch < HubLatest
  <2>1. job' = JobOff /\ UNCHANGED cli
    BY <1>2, <1>5 DEF Read
  <2> QED BY <1>1, <2>1, JobOffTyped, JobMoves, RestTyped
<1>6. CASE LastEpoch = HubLatest
  <2>1. /\ job' = IF HubLatest > 0 /\ store.record[HubLatest] # NoRecord
                  THEN [at |-> "current", epoch |-> HubLatest]
                  ELSE IF Due THEN [at |-> "refresh", epoch |-> HubLatest] ELSE JobOff
        /\ UNCHANGED cli
    BY <1>2, <1>6 DEF Read
  <2>2. job' \in Jobs
    BY <1>2, <1>3, <2>1, JobAt, JobOffTyped
  <2> QED BY <1>1, <2>1, <2>2, JobMoves, RestTyped
<1> QED BY <1>2, <1>4, <1>5, <1>6

LEMMA CachedTyped ==
  ASSUME PubInv, NEW e, CacheOne(e)
  PROVE  witness' \in [Subjects -> 0 .. MaxEpoch]
<1>1. e \in 0 .. MaxEpoch
  BY HubLatestTyped DEF CacheOne, PubInv
<1> QED BY <1>1, RestTyped DEF CacheOne

LEMMA CacheCurrentStep ==
  ASSUME PubInv, CacheCurrent PROVE PubInv'
<1>1. UNCHANGED <<entries, lock, cli, store, lists, faults, world>>
  BY DEF CacheCurrent
<1>2. CASE CacheOne(job.epoch) /\ UNCHANGED job
  BY <1>1, <1>2, CachedTyped, JobMoves, TypedNow
<1>3. CASE /\ job' = IF Due THEN [job EXCEPT !.at = "refresh"] ELSE JobOff
           /\ UNCHANGED witness
  <2>1. "refresh" \in JobSteps
    BY DEF JobSteps
  <2>2. job' \in Jobs
    BY <1>3, <2>1, JobAt, JobOffTyped
  <2> QED BY <1>1, <1>3, <2>2, JobMoves, RestTyped
<1> QED BY <1>2, <1>3 DEF CacheCurrent

LEMMA RefreshStep ==
  ASSUME PubInv, Refresh PROVE PubInv'
<1>1. /\ UNCHANGED <<entries, lock, store, witness, faults, world>>
      /\ lists' \in 1 .. MaxLists
  BY DEF Refresh
<1>2. CASE LastEpoch < MaxEpoch
  <2>1. /\ job' = [job EXCEPT !.at = "publish"]
        /\ RunChild("publish", [NextPlan EXCEPT !.lists = lists'])
    BY <1>2 DEF Refresh
  <2>2. [NextPlan EXCEPT !.lists = lists'] \in Plans
    BY <1>1, <1>2, NextPlanTyped DEF PubInv, Plans
  <2>3. "publish" \in JobSteps
    BY DEF JobSteps
  <2>4. job' \in Jobs /\ cli' \in Clis /\ CliFits'
    BY <2>1, <2>2, <2>3, JobAt, ChildFits
  <2> QED BY <1>1, <2>4, ElsewhereStep, RestTyped, TypedNow DEF world
<1>3. CASE ~(LastEpoch < MaxEpoch)
  <2>1. job' = JobOff /\ UNCHANGED cli
    BY <1>3 DEF Refresh
  <2>2. CliFits'
    BY <1>1, <2>1, CliRests
  <2> QED BY <1>1, <2>1, <2>2, JobOffTyped, ElsewhereStep, RestTyped, TypedNow DEF world
<1> QED BY <1>2, <1>3

LEMMA AfterStep ==
  ASSUME PubInv, After PROVE PubInv'
<1>1. HubLatest \in 0 .. MaxEpoch /\ "cache" \in JobSteps
  BY HubLatestTyped DEF PubInv, JobSteps
<1>2. job' \in Jobs
  BY <1>1, JobAt, JobOffTyped DEF After
<1> QED BY <1>2, JobMoves, RestTyped DEF After

LEMMA WaitForHubStep ==
  ASSUME PubInv, WaitForHub PROVE PubInv'
<1>1. "cache" \in JobSteps
  BY DEF JobSteps
<1>2. job' \in Jobs
  BY <1>1, JobAt, JobOffTyped DEF WaitForHub
<1> QED BY <1>2, JobMoves, RestTyped DEF WaitForHub

LEMMA CacheNewStep ==
  ASSUME PubInv, CacheNew PROVE PubInv'
<1>1. UNCHANGED <<entries, lock, cli, store, lists, faults, world>>
  BY DEF CacheNew
<1>2. CASE CacheOne(job.epoch) /\ UNCHANGED job
  BY <1>1, <1>2, CachedTyped, JobMoves, TypedNow
<1>3. CASE job' = JobOff /\ UNCHANGED witness
  BY <1>1, <1>3, JobOffTyped, JobMoves, RestTyped
<1> QED BY <1>2, <1>3 DEF CacheNew
-----------------------------------------------------------------------------
(***************************************************************************)
(* The theorems.                                                           *)
(***************************************************************************)
LEMMA PubInit ==
  ASSUME Init PROVE PubInv
<1>1. Journal!JournalTypeOK /\ entries = << >> /\ lock = FALSE
  <2>1. entries = << >> /\ lock = FALSE
    BY DEF Init, Journal!JournalInit
  <2>2. << >> \in Seq(Journal!Entries) /\ Len(<< >>) = 0
    OBVIOUS
  <2>3. entries \in Seq(Journal!Entries) /\ lock \in BOOLEAN
    BY <2>1, <2>2
  <2>4. Len(entries) <= MaxEntries
    BY <2>1, <2>2, Bounds
  <2> QED BY <2>1, <2>3, <2>4 DEF Journal!JournalTypeOK
<1>2. cli \in Clis /\ cli.at = "off" /\ job \in Jobs
  BY Bounds DEF Init, Idle, Clis, CliSteps, JobOff, Jobs, JobSteps
<1>3. source \in Sources /\ source.mined = {} /\ source.pool = {} /\ source.sent = {}
  BY Bounds DEF Init, Sources
<1>4. store \in [seeds : [Replicas -> SUBSET Plans], record : [1 .. MaxEpoch -> Records \cup {NoRecord}]]
  BY DEF Init
<1>5. PubTypeOK
  <2>1. hub = << >> /\ witness = [s \in Subjects |-> 0] /\ now = 0 /\ lists = 1 /\ faults = 0
    BY DEF Init
  <2>2. << >> \in Seq(HubEpochs)
    OBVIOUS
  <2>3. witness \in [Subjects -> 0 .. MaxEpoch]
    BY <2>1, Bounds
  <2>4. now \in 0 .. MaxTime /\ lists \in 1 .. MaxLists /\ faults \in 0 .. MaxFaults
    BY <2>1, PublicationAssumption
  <2> QED BY <1>1, <1>2, <1>3, <1>4, <2>1, <2>2, <2>3, <2>4 DEF PubTypeOK
<1>6. NoncesFit
  BY <1>3, FS_EmptySet DEF NoncesFit
<1>7. JournalHolds
  BY <1>1, <1>3 DEF JournalHolds, RostersAreStaged, SentIsRecoverable, ConfirmedStands,
                    Journal!Valid, Journal!Unsettled, Journal!Standing
<1>8. CliFits
  BY <1>2 DEF CliFits, Working
<1> QED BY <1>5, <1>6, <1>7, <1>8 DEF PubInv

LEMMA PubNext ==
  ASSUME PubInv, [Next]_vars PROVE PubInv'
<1>1. CASE UNCHANGED vars
  <2>1. UNCHANGED <<entries, lock, cli, job, source, hub, store, witness, now, lists, faults>>
    BY <1>1 DEF vars
  <2>2. CliFits'
    BY <2>1, CliRests
  <2> QED BY <2>1, <2>2, ElsewhereStep, RestTyped, TypedNow
<1>2. ASSUME NEW cmd \in Commands, Start(cmd) PROVE PubInv'
  BY <1>2, StartStep
<1>3. CASE CliStep
  BY <1>3, BusyStep, OpenPublishStep, OpenLastStep, CancelStep, ObserveSettledStep,
     ObserveConfirmedStep, ObservePendingStep, AssertReadyStep, SignStep, BroadcastStep,
     AdvanceAgainStep, GiveUpStep, PlanStep, StageStep, StagedStep, BeginStep, SettledStep,
     AwaitCarryStep, ObserveOnlyStep, CheckStep, FenceStep DEF CliStep, Advance
<1>4. CASE JobStep
  BY <1>4, ReadStep, CacheCurrentStep, RefreshStep, AfterStep, WaitForHubStep, CacheNewStep
     DEF JobStep
<1>5. CASE Chains \/ Tick
  BY <1>5, MineStep, DeepenStep, CarryStep, TickStep DEF Chains
<1>6. CASE \/ StartRenewal \/ Fork \/ Drop \/ OtherPublishes \/ Throw \/ Die \/ ClearLock
           \/ CheckLatest
  BY <1>6, StartRenewalStep, ForkStep, DropStep, OtherPublishesStep, ThrowStep, DieStep,
     ClearLockStep, CheckLatestStep
<1> QED BY <1>1, <1>2, <1>3, <1>4, <1>5, <1>6 DEF Next

LEMMA PubInvHolds == Spec => []PubInv
<1>1. Init => PubInv
  BY PubInit
<1>2. PubInv /\ [Next]_vars => PubInv'
  BY PubNext
<1> QED BY <1>1, <1>2, PTL DEF Spec

\* Every epoch, nonce, receipt, plan and record a run reaches is one the code can hold.
THEOREM PublicationTyped == Spec => []PubTypeOK
<1>1. PubInv => PubTypeOK
  BY DEF PubInv
<1> QED BY <1>1, PubInvHolds, PTL

\* Whatever was handed to a node can be recovered from the publisher's host:
\* publish-epoch.ts signs and stages before it sends, never abandons a signed entry,
\* and no crash, unconfirmed write or second command in between undoes that.
THEOREM SentCanBeRecovered == Spec => []SentIsRecoverable
<1>1. PubInv => SentIsRecoverable
  BY DEF PubInv, JournalHolds
<1> QED BY <1>1, PubInvHolds, PTL

\* A confirmation in the journal is the receipt the chain has, through any number of
\* forks above SOURCE_CONFIRMATIONS and however the transaction is mined again.
THEOREM ConfirmationsStand == Spec => []ConfirmedStands
<1>1. PubInv => ConfirmedStands
  BY DEF PubInv, JournalHolds
<1> QED BY <1>1, PubInvHolds, PTL
=============================================================================
