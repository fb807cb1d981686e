-------------------------- MODULE GatedRwaNoteProof ------------------------
(***************************************************************************)
(* The note and the registry it asks, for any number of holders, policies, *)
(* epochs and recoveries: who may move a balance, and what a cached        *)
(* witness is worth.                                                       *)
(***************************************************************************)
EXTENDS GatedRwaNote, SequenceTheorems, TLAPS

RecoveryRequests ==
  [from : Holders, to : Holders \cup {NoAccount}, amount : Nat,
   proposer : Accounts, approver : Accounts \cup {NoAccount},
   executeAfter : Nat, executed : BOOLEAN]

RegisteredPolicies == [owner : Accounts, kind : Kinds, frozen : BOOLEAN, body : Policies]

RegistryTypeOK ==
  /\ tombstone \in SUBSET Holders
  /\ roster \in [epoch : Nat, listed : [Holders -> Marks \cup {NoMark}], validUntil : Nat]
  /\ now \in Nat
  /\ policies \in Seq(RegisteredPolicies)
  /\ witness \in [Holders -> [epoch : Nat, mark : Marks \cup {NoMark}]]

\* Storage of the note holds what its slots may hold; no balance is negative.
NoteTypeOK ==
  /\ RegistryTypeOK
  /\ noteOwner \in Accounts \cup {NoAccount}
  /\ balance \in [Holders -> Nat]
  /\ proposer \in Accounts \cup {NoAccount}
  /\ approver \in Accounts \cup {NoAccount}
  /\ requests \in Seq(RecoveryRequests)

\* The two authorities are two accounts once they are named, which is after the
\* deployment, and every request is of these two.
TwoAuthorities ==
  /\ proposer # NoAccount => Deployed
  /\ proposer = NoAccount <=> approver = NoAccount
  /\ proposer # NoAccount => proposer # approver
  /\ \A id \in DOMAIN requests :
       /\ proposer # NoAccount
       /\ requests[id].proposer = proposer
       /\ requests[id].approver \in {NoAccount, approver}

\* A witness is of an epoch that was published, and one of the epoch in force
\* repeats what its root lists.
WitnessOfItsEpoch ==
  \A h \in Holders :
    /\ witness[h].epoch <= roster.epoch
    /\ witness[h].epoch # 0 /\ witness[h].epoch = roster.epoch =>
         witness[h].mark \in Marks /\ roster.listed[h] = witness[h].mark

\* The policy of a deployed note is a frozen roster policy.
BoundToFrozenPolicy ==
  Deployed =>
    policyId \in PolicyIds /\ policies[policyId].frozen /\ policies[policyId].body.roster

\* What the note's policy asks of a mark.
PolicyTerms(id) == <<policies[id].kind, policies[id].body>>

-----------------------------------------------------------------------------
\* _update's arithmetic: no balance goes below zero, only the receiver gains and
\* only the sender loses, by the amount.
LEMMA Movement ==
  ASSUME balance \in [Holders -> Nat], NEW from \in Holders \cup {NoAccount},
         NEW to \in Holders \cup {NoAccount}, NEW amount \in Nat,
         from # NoAccount => balance[from] >= amount,
         balance' = Moved(from, to, amount)
  PROVE  /\ balance' \in [Holders -> Nat]
         /\ \A h \in Holders :
              /\ balance'[h] > balance[h] => h = to
              /\ balance'[h] < balance[h] => h = from /\ balance[h] - balance'[h] = amount
<1>1. NoAccount \notin Holders
  BY RegistryAssumption
<1>2. ASSUME NEW h \in Holders
      PROVE  /\ balance'[h] \in Nat
             /\ balance'[h] > balance[h] => h = to
             /\ balance'[h] < balance[h] => h = from /\ balance[h] - balance'[h] = amount
  <2>1. balance'[h] =
          balance[h] - (IF h = from THEN amount ELSE 0) + (IF h = to THEN amount ELSE 0)
    BY DEF Moved
  <2>2. h = from => from # NoAccount
    BY <1>1
  <2> QED
    BY <2>1, <2>2
<1> QED
  BY <1>2 DEF Moved

\* The registry's own steps keep its storage in type.
LEMMA RegistryTypes ==
  ASSUME RegistryTypeOK, RegistryNext, UNCHANGED hubView
  PROVE  RegistryTypeOK'
<1> USE DEF RegistryTypeOK, hubView
<1>1. ASSUME NEW a \in Accounts, NEW body \in Policies, NEW kind \in Kinds,
             RegisterPolicy(a, body, kind)
      PROVE  RegistryTypeOK'
  <2>1. [owner |-> a, kind |-> kind, frozen |-> FALSE, body |-> body] \in RegisteredPolicies
    BY DEF RegisteredPolicies
  <2> QED
    BY <1>1, <2>1 DEF RegisterPolicy
<1>2. ASSUME NEW a \in Accounts, NEW id \in PolicyIds, NEW body \in Policies,
             UpdatePolicy(a, id, body)
      PROVE  RegistryTypeOK'
  <2>1. id \in 1 .. Len(policies) /\ policies[id] \in RegisteredPolicies
    BY DEF PolicyIds
  <2>2. [policies[id] EXCEPT !.body = body] \in RegisteredPolicies
    BY <2>1 DEF RegisteredPolicies
  <2>3. policies' = [policies EXCEPT ![id] = [policies[id] EXCEPT !.body = body]]
    BY <1>2 DEF UpdatePolicy
  <2>4. policies' \in Seq(RegisteredPolicies)
    BY <2>1, <2>2, <2>3, ExceptSeq
  <2> QED
    BY <2>4, <1>2 DEF UpdatePolicy
<1>3. ASSUME NEW a \in Accounts, NEW id \in PolicyIds, NEW b \in Accounts,
             TransferPolicyOwner(a, id, b)
      PROVE  RegistryTypeOK'
  <2>1. id \in 1 .. Len(policies) /\ policies[id] \in RegisteredPolicies
    BY DEF PolicyIds
  <2>2. [policies[id] EXCEPT !.owner = b] \in RegisteredPolicies
    BY <2>1 DEF RegisteredPolicies
  <2>3. policies' = [policies EXCEPT ![id] = [policies[id] EXCEPT !.owner = b]]
    BY <1>3 DEF TransferPolicyOwner
  <2>4. policies' \in Seq(RegisteredPolicies)
    BY <2>1, <2>2, <2>3, ExceptSeq
  <2> QED
    BY <2>4, <1>3 DEF TransferPolicyOwner
<1>4. ASSUME NEW a \in Accounts, NEW id \in PolicyIds, FreezePolicy(a, id)
      PROVE  RegistryTypeOK'
  <2>1. id \in 1 .. Len(policies) /\ policies[id] \in RegisteredPolicies
    BY DEF PolicyIds
  <2>2. [policies[id] EXCEPT !.frozen = TRUE] \in RegisteredPolicies
    BY <2>1 DEF RegisteredPolicies
  <2>3. policies' = [policies EXCEPT ![id] = [policies[id] EXCEPT !.frozen = TRUE]]
    BY <1>4 DEF FreezePolicy
  <2>4. policies' \in Seq(RegisteredPolicies)
    BY <2>1, <2>2, <2>3, ExceptSeq
  <2> QED
    BY <2>4, <1>4 DEF FreezePolicy
<1>5. ASSUME NEW h \in Holders, NEW m \in Marks, CacheRosterWitness(h, m)
      PROVE  RegistryTypeOK'
  BY <1>5 DEF CacheRosterWitness
<1> QED
  BY <1>1, <1>2, <1>3, <1>4, <1>5 DEF RegistryNext

\* What the credential store shows next keeps the registry's view in type.
LEMMA HubViewTypes ==
  ASSUME RegistryTypeOK, HubViewNext, UNCHANGED registryVars
  PROVE  RegistryTypeOK'
<1> USE DEF RegistryTypeOK, registryVars
<1>1. ASSUME NEW h \in Holders, NEW m \in Marks, HubIssues(h, m)
      PROVE  RegistryTypeOK'
  BY <1>1 DEF HubIssues
<1>2. ASSUME NEW h \in Holders, HubRevokes(h)
      PROVE  RegistryTypeOK'
  BY <1>2 DEF HubRevokes
<1>3. ASSUME NEW e \in Publications, HubPublishes(e)
      PROVE  RegistryTypeOK'
  <2>1. e.listed \in [Holders -> Marks \cup {NoMark}] /\ e.validUntil \in Nat
    BY RegistryAssumption
  <2> QED
    BY <1>3, <2>1 DEF HubPublishes
<1>4. ASSUME NEW i \in Issuers, HubDistrusts(i)
      PROVE  RegistryTypeOK'
  BY <1>4 DEF HubDistrusts
<1>5. ASSUME Tick
      PROVE  RegistryTypeOK'
  BY <1>5 DEF Tick
<1> QED
  BY <1>1, <1>2, <1>3, <1>4, <1>5 DEF HubViewNext

\* Every operation of the note keeps its storage in type: none of them spends
\* more than there is.
LEMMA NoteTypes ==
  ASSUME NoteTypeOK, NoteNext, UNCHANGED <<hubView, registryVars>>
  PROVE  NoteTypeOK'
<1>1. RegistryTypeOK'
  BY DEF NoteTypeOK, RegistryTypeOK, hubView, registryVars
<1>2. ASSUME NEW a \in Accounts, NEW id \in PolicyIds, Deploy(a, id)
      PROVE  NoteTypeOK'
  BY <1>1, <1>2 DEF Deploy, NoteTypeOK
<1>3. ASSUME NEW h \in Holders, MintTo(h)
      PROVE  NoteTypeOK'
  <2>1. balance' \in [Holders -> Nat]
    BY <1>3, Movement DEF MintTo, Update, NoteTypeOK
  <2> QED
    BY <1>1, <1>3, <2>1 DEF MintTo, NoteTypeOK
<1>4. ASSUME NEW h \in Holders, Burn(h)
      PROVE  NoteTypeOK'
  <2>1. balance' \in [Holders -> Nat]
    BY <1>4, Movement DEF Burn, Update, NoteTypeOK
  <2> QED
    BY <1>1, <1>4, <2>1 DEF Burn, NoteTypeOK
<1>5. ASSUME NEW h \in Holders, NEW g \in Holders, Transfer(g, h)
      PROVE  NoteTypeOK'
  <2>1. balance' \in [Holders -> Nat]
    BY <1>5, Movement DEF Transfer, Update, NoteTypeOK
  <2> QED
    BY <1>1, <1>5, <2>1 DEF Transfer, NoteTypeOK
<1>6. ASSUME NEW a \in Accounts, NEW p \in Accounts, NEW q \in Accounts,
             ConfigureRecoveryGovernance(a, p, q)
      PROVE  NoteTypeOK'
  BY <1>1, <1>6 DEF ConfigureRecoveryGovernance, NoteTypeOK
<1>7. ASSUME NEW a \in Accounts, NEW from \in Holders, NEW to \in Holders \cup {NoAccount},
             NEW amount \in 1 .. MaxSupply, ProposeRecovery(a, from, to, amount)
      PROVE  NoteTypeOK'
  <2> DEFINE r == [from |-> from, to |-> to, amount |-> amount, proposer |-> a,
                   approver |-> NoAccount, executeAfter |-> now + RecoveryDelay,
                   executed |-> FALSE]
  <2>1. now + RecoveryDelay \in Nat /\ amount \in Nat
    BY NoteAssumption DEF NoteTypeOK, RegistryTypeOK
  <2>2. r \in RecoveryRequests
    BY <2>1 DEF RecoveryRequests
  <2>3. requests' = Append(requests, r)
    BY <1>7 DEF ProposeRecovery
  <2>4. requests' \in Seq(RecoveryRequests)
    BY <2>2, <2>3, AppendProperties DEF NoteTypeOK
  <2> QED
    BY <1>1, <1>7, <2>4 DEF ProposeRecovery, NoteTypeOK
<1>8. ASSUME NEW a \in Accounts, NEW id \in DOMAIN requests, ApproveRecovery(a, id)
      PROVE  NoteTypeOK'
  <2>1. id \in 1 .. Len(requests) /\ requests[id] \in RecoveryRequests
    BY DEF NoteTypeOK
  <2>2. [requests[id] EXCEPT !.approver = a] \in RecoveryRequests
    BY <2>1 DEF RecoveryRequests
  <2>3. requests' = [requests EXCEPT ![id] = [requests[id] EXCEPT !.approver = a]]
    BY <1>8 DEF ApproveRecovery
  <2>4. requests' \in Seq(RecoveryRequests)
    BY <2>1, <2>2, <2>3, ExceptSeq DEF NoteTypeOK
  <2> QED
    BY <1>1, <1>8, <2>4 DEF ApproveRecovery, NoteTypeOK
<1>9. ASSUME NEW id \in DOMAIN requests, ExecuteRecovery(id)
      PROVE  NoteTypeOK'
  <2>1. id \in 1 .. Len(requests) /\ requests[id] \in RecoveryRequests
    BY DEF NoteTypeOK
  <2>2. [requests[id] EXCEPT !.executed = TRUE] \in RecoveryRequests
    BY <2>1 DEF RecoveryRequests
  <2>3. requests' = [requests EXCEPT ![id] = [requests[id] EXCEPT !.executed = TRUE]]
    BY <1>9 DEF ExecuteRecovery
  <2>4. requests' \in Seq(RecoveryRequests)
    BY <2>1, <2>2, <2>3, ExceptSeq DEF NoteTypeOK
  <2>5. /\ requests[id].from \in Holders \cup {NoAccount} /\ requests[id].amount \in Nat
        /\ requests[id].to \in Holders \cup {NoAccount}
    BY <2>1 DEF RecoveryRequests
  <2>6. balance' \in [Holders -> Nat]
    BY <1>9, <2>5, Movement DEF ExecuteRecovery, Update, NoteTypeOK
  <2> QED
    BY <1>1, <1>9, <2>4, <2>6 DEF ExecuteRecovery, NoteTypeOK
<1> QED
  BY <1>2, <1>3, <1>4, <1>5, <1>6, <1>7, <1>8, <1>9 DEF NoteNext

\* The storage is in type for ever.
THEOREM NoteTypeCorrect == NoteSpec => []NoteTypeOK
<1>1. NoteInit => NoteTypeOK
  BY DEF NoteInit, RegistryInit, NoteTypeOK, RegistryTypeOK
<1>2. NoteTypeOK /\ [GatedNext]_gatedVars => NoteTypeOK'
  <2> SUFFICES ASSUME NoteTypeOK, [GatedNext]_gatedVars
               PROVE  NoteTypeOK'
    OBVIOUS
  <2>1. CASE HubViewNext /\ UNCHANGED <<registryVars, noteVars>>
    <3>1. RegistryTypeOK'
      BY <2>1, HubViewTypes DEF NoteTypeOK
    <3> QED
      BY <2>1, <3>1 DEF NoteTypeOK, noteVars
  <2>2. CASE RegistryNext /\ UNCHANGED <<hubView, noteVars>>
    <3>1. RegistryTypeOK'
      BY <2>2, RegistryTypes DEF NoteTypeOK
    <3> QED
      BY <2>2, <3>1 DEF NoteTypeOK, noteVars
  <2>3. CASE NoteNext /\ UNCHANGED <<hubView, registryVars>>
    BY <2>3, NoteTypes
  <2>4. CASE UNCHANGED gatedVars
    BY <2>4 DEF gatedVars, hubView, registryVars, noteVars, NoteTypeOK, RegistryTypeOK
  <2> QED
    BY <2>1, <2>2, <2>3, <2>4 DEF GatedNext
<1> QED
  BY <1>1, <1>2, PTL DEF NoteSpec

-----------------------------------------------------------------------------
\* Recovery.

\* Naming the authorities happens once, and no step changes who proposed or
\* approved.
LEMMA AuthoritiesStayTwo ==
  ASSUME NoteTypeOK, TwoAuthorities, [GatedNext]_gatedVars
  PROVE  TwoAuthorities'
<1> USE DEF TwoAuthorities
<1>0. Deployed => Deployed'
  BY RegistryAssumption DEF Deployed, GatedNext, NoteNext, gatedVars, noteVars, Deploy, MintTo,
     Burn, Transfer, ConfigureRecoveryGovernance, ProposeRecovery, ApproveRecovery, ExecuteRecovery
<1>1. ASSUME NEW a \in Accounts, NEW p \in Accounts, NEW q \in Accounts,
             ConfigureRecoveryGovernance(a, p, q)
      PROVE  TwoAuthorities'
  <2>1. DOMAIN requests = {}
    BY <1>1 DEF ConfigureRecoveryGovernance
  <2>2. p # NoAccount /\ q # NoAccount
    BY RegistryAssumption
  <2> QED
    BY <1>0, <1>1, <2>1, <2>2 DEF ConfigureRecoveryGovernance
<1>2. ASSUME NEW a \in Accounts, NEW from \in Holders, NEW to \in Holders \cup {NoAccount},
             NEW amount \in 1 .. MaxSupply, ProposeRecovery(a, from, to, amount)
      PROVE  TwoAuthorities'
  <2> DEFINE r == [from |-> from, to |-> to, amount |-> amount, proposer |-> a,
                   approver |-> NoAccount, executeAfter |-> now + RecoveryDelay,
                   executed |-> FALSE]
  <2>1. a = proposer /\ proposer # NoAccount
    BY <1>2, RegistryAssumption DEF ProposeRecovery
  <2>2. requests' = Append(requests, r)
    BY <1>2 DEF ProposeRecovery
  <2>3. \A id \in DOMAIN requests' :
          \/ id \in DOMAIN requests /\ requests'[id] = requests[id]
          \/ requests'[id] = r
    BY <2>2 DEF NoteTypeOK
  <2> HIDE DEF r
  <2>4. r.proposer = proposer /\ r.approver = NoAccount
    BY <2>1 DEF r
  <2>5. proposer' = proposer /\ approver' = approver
    BY <1>2 DEF ProposeRecovery
  <2> QED
    BY <1>0, <2>1, <2>3, <2>4, <2>5
<1>3. ASSUME NEW a \in Accounts, NEW id \in DOMAIN requests, ApproveRecovery(a, id)
      PROVE  TwoAuthorities'
  <2>1. requests[id] \in RecoveryRequests
    BY DEF NoteTypeOK
  <2>2. /\ DOMAIN requests' = DOMAIN requests
        /\ \A j \in DOMAIN requests :
             /\ requests'[j].proposer = requests[j].proposer
             /\ requests'[j].approver = IF j = id THEN a ELSE requests[j].approver
    BY <1>3, <2>1 DEF ApproveRecovery, RecoveryRequests
  <2>3. proposer' = proposer /\ approver' = approver /\ a = approver
    BY <1>3 DEF ApproveRecovery
  <2> QED
    BY <1>0, <2>2, <2>3
<1>4. ASSUME NEW id \in DOMAIN requests, ExecuteRecovery(id)
      PROVE  TwoAuthorities'
  <2>1. requests[id] \in RecoveryRequests
    BY DEF NoteTypeOK
  <2>2. /\ DOMAIN requests' = DOMAIN requests
        /\ \A j \in DOMAIN requests :
             requests'[j].proposer = requests[j].proposer /\ requests'[j].approver = requests[j].approver
    BY <1>4, <2>1 DEF ExecuteRecovery, RecoveryRequests
  <2>3. proposer' = proposer /\ approver' = approver
    BY <1>4 DEF ExecuteRecovery
  <2> QED
    BY <1>0, <2>2, <2>3
<1>5. ASSUME UNCHANGED <<proposer, approver, requests>>
      PROVE  TwoAuthorities'
  BY <1>0, <1>5
<1>6. \/ \E a, p, q \in Accounts : ConfigureRecoveryGovernance(a, p, q)
      \/ \E a \in Accounts, from \in Holders, to \in Holders \cup {NoAccount},
            amount \in 1 .. MaxSupply : ProposeRecovery(a, from, to, amount)
      \/ \E a \in Accounts, id \in DOMAIN requests : ApproveRecovery(a, id)
      \/ \E id \in DOMAIN requests : ExecuteRecovery(id)
      \/ UNCHANGED <<proposer, approver, requests>>
  BY DEF GatedNext, NoteNext, gatedVars, noteVars, Deploy, MintTo, Burn, Transfer
<1> QED
  BY <1>1, <1>2, <1>3, <1>4, <1>5, <1>6

\* The authorities are two, always.
LEMMA AuthoritiesInvariant == NoteSpec => []TwoAuthorities
<1>1. NoteInit => TwoAuthorities
  BY DEF NoteInit, TwoAuthorities
<1>2. NoteTypeOK /\ TwoAuthorities /\ [GatedNext]_gatedVars => TwoAuthorities'
  BY AuthoritiesStayTwo
<1> QED
  BY <1>1, <1>2, NoteTypeCorrect, PTL DEF NoteSpec

\* No account proposes and approves the same recovery (proposeRecovery,
\* approveRecovery and configureRecoveryGovernance of GatedRwaNote.sol).
THEOREM RecoveryNeedsTwoAccounts == NoteSpec => []RecoveryTakesTwo
<1>1. TwoAuthorities => RecoveryTakesTwo
  BY DEF TwoAuthorities, RecoveryTakesTwo
<1> QED
  BY <1>1, AuthoritiesInvariant, PTL

-----------------------------------------------------------------------------
\* The witness cache.

\* A new epoch leaves every witness behind, and a witness is cached only for the
\* root in force.
LEMMA WitnessesAge ==
  ASSUME RegistryTypeOK, WitnessOfItsEpoch, [GatedNext]_gatedVars
  PROVE  WitnessOfItsEpoch'
<1> USE DEF WitnessOfItsEpoch, RegistryTypeOK
<1>1. ASSUME NEW e \in Publications, HubPublishes(e), UNCHANGED registryVars
      PROVE  WitnessOfItsEpoch'
  <2>1. roster'.epoch = roster.epoch + 1 /\ witness' = witness
    BY <1>1 DEF HubPublishes, registryVars
  <2>2. \A h \in Holders : witness'[h].epoch <= roster.epoch /\ witness[h].epoch \in Nat
    BY <2>1
  <2> QED
    BY <2>1, <2>2
<1>2. ASSUME NEW h \in Holders, NEW m \in Marks, CacheRosterWitness(h, m), UNCHANGED hubView
      PROVE  WitnessOfItsEpoch'
  <2>1. /\ roster' = roster /\ roster.listed[h] = m
        /\ witness' = [witness EXCEPT ![h] = [epoch |-> roster.epoch, mark |-> m]]
    BY <1>2 DEF CacheRosterWitness, RosterContains, hubView
  <2> QED
    BY <2>1
<1>3. ASSUME UNCHANGED <<roster, witness>>
      PROVE  WitnessOfItsEpoch'
  BY <1>3
<1>4. \/ \E e \in Publications : HubPublishes(e) /\ UNCHANGED registryVars
      \/ \E h \in Holders, m \in Marks : CacheRosterWitness(h, m) /\ UNCHANGED hubView
      \/ UNCHANGED <<roster, witness>>
  BY DEF GatedNext, HubViewNext, RegistryNext, gatedVars, hubView, registryVars, HubIssues,
         HubRevokes, HubDistrusts, Tick, RegisterPolicy, UpdatePolicy, TransferPolicyOwner,
         FreezePolicy
<1> QED
  BY <1>1, <1>2, <1>3, <1>4

\* A cached witness that lets a holder through says what a proof of the root in
\* force would say.
LEMMA VerifiedIsListed ==
  ASSUME WitnessOfItsEpoch, NEW h \in Holders, NEW id \in PolicyIds,
         policies[id].body.roster, IsVerified(h, id)
  PROVE  \E m \in Marks : VerifyWithRoster(h, m, id)
<1>1. WitnessCounts(h) /\ PolicyHolds(witness[h].mark, policies[id]) /\ h \notin tombstone
  BY DEF IsVerified
<1>2. witness[h].mark \in Marks /\ roster.listed[h] = witness[h].mark
  BY <1>1 DEF WitnessOfItsEpoch, WitnessCounts
<1>3. RosterContains(h, witness[h].mark)
  BY <1>1, <1>2 DEF RosterContains, WitnessCounts
<1> QED
  BY <1>1, <1>2, <1>3 DEF VerifyWithRoster

\* Every witness in the cache is of its epoch, always.
LEMMA WitnessInvariant == NoteSpec => []WitnessOfItsEpoch
<1>1. NoteInit => WitnessOfItsEpoch
  BY DEF NoteInit, RegistryInit, WitnessOfItsEpoch
<1>2. NoteTypeOK /\ WitnessOfItsEpoch /\ [GatedNext]_gatedVars => WitnessOfItsEpoch'
  BY WitnessesAge DEF NoteTypeOK
<1> QED
  BY <1>1, <1>2, NoteTypeCorrect, PTL DEF NoteSpec

\* The cache grants no new lifetime: a witness counts only while a proof under
\* the root in force would (cacheRosterWitness of ProofmarkRegistry.sol).
THEOREM CachedWitnessIsCurrent == NoteSpec => []WitnessIsCurrent
<1>1. WitnessOfItsEpoch => WitnessIsCurrent
  BY VerifiedIsListed DEF WitnessIsCurrent
<1> QED
  BY <1>1, WitnessInvariant, PTL

-----------------------------------------------------------------------------
\* The note's policy and its balances.

\* What the note asks is what it asked when it was deployed: nobody, the
\* policy's owner included, changes a frozen policy (the constructor of
\* GatedRwaNote.sol and updatePolicy of ProofmarkRegistry.sol).
LEMMA FrozenForEver ==
  ASSUME NoteTypeOK, BoundToFrozenPolicy, [GatedNext]_gatedVars
  PROVE  /\ BoundToFrozenPolicy'
         /\ Deployed => policyId' = policyId /\ PolicyTerms(policyId)' = PolicyTerms(policyId)
<1> USE DEF BoundToFrozenPolicy, Deployed, PolicyTerms, PolicyIds
<1>1. ASSUME NEW id \in PolicyIds, policies[id].frozen
      PROVE  /\ id \in DOMAIN policies' /\ policies'[id].frozen
             /\ policies'[id].body = policies[id].body
             /\ policies'[id].kind = policies[id].kind
  <2>1. policies \in Seq(RegisteredPolicies) /\ policies[id] \in RegisteredPolicies
    BY DEF NoteTypeOK, RegistryTypeOK
  <2>2. ASSUME NEW a \in Accounts, NEW body \in Policies, NEW kind \in Kinds,
               RegisterPolicy(a, body, kind)
        PROVE  id \in DOMAIN policies' /\ policies'[id] = policies[id]
    BY <2>1, <2>2 DEF RegisterPolicy
  <2>3. ASSUME NEW a \in Accounts, NEW j \in PolicyIds, NEW body \in Policies,
               UpdatePolicy(a, j, body)
        PROVE  id \in DOMAIN policies' /\ policies'[id] = policies[id]
    BY <1>1, <2>1, <2>3 DEF UpdatePolicy
  <2>4. ASSUME NEW a \in Accounts, NEW j \in PolicyIds, NEW b \in Accounts,
               TransferPolicyOwner(a, j, b)
        PROVE  /\ id \in DOMAIN policies' /\ policies'[id].frozen
               /\ policies'[id].body = policies[id].body
               /\ policies'[id].kind = policies[id].kind
    BY <1>1, <2>1, <2>4 DEF TransferPolicyOwner, RegisteredPolicies
  <2>5. ASSUME NEW a \in Accounts, NEW j \in PolicyIds, FreezePolicy(a, j)
        PROVE  /\ id \in DOMAIN policies' /\ policies'[id].frozen
               /\ policies'[id].body = policies[id].body
               /\ policies'[id].kind = policies[id].kind
    BY <1>1, <2>1, <2>5 DEF FreezePolicy, RegisteredPolicies
  <2>6. RegistryNext \/ UNCHANGED policies
    BY DEF GatedNext, gatedVars, registryVars
  <2> QED
    BY <1>1, <2>2, <2>3, <2>4, <2>5, <2>6 DEF RegistryNext, CacheRosterWitness
<1>2. CASE \E a \in Accounts, id \in PolicyIds : Deploy(a, id) /\ UNCHANGED registryVars
  BY <1>2 DEF Deploy, registryVars
<1>3. CASE UNCHANGED <<noteOwner, policyId>>
  BY <1>1, <1>3
<1>4. \/ \E a \in Accounts, id \in PolicyIds : Deploy(a, id) /\ UNCHANGED registryVars
      \/ UNCHANGED <<noteOwner, policyId>>
  BY DEF GatedNext, NoteNext, gatedVars, noteVars, MintTo, Burn, Transfer,
         ConfigureRecoveryGovernance, ProposeRecovery, ApproveRecovery, ExecuteRecovery
<1> QED
  BY <1>2, <1>3, <1>4 DEF Deploy

\* The policy of a deployed note is frozen, always.
LEMMA PolicyInvariant == NoteSpec => []BoundToFrozenPolicy
<1>1. NoteInit => BoundToFrozenPolicy
  BY DEF NoteInit, BoundToFrozenPolicy, Deployed
<1>2. NoteTypeOK /\ BoundToFrozenPolicy /\ [GatedNext]_gatedVars => BoundToFrozenPolicy'
  BY FrozenForEver
<1> QED
  BY <1>1, <1>2, NoteTypeCorrect, PTL DEF NoteSpec

\* A deployed note never asks anything else of its holders.
THEOREM PolicyIsPermanent ==
  NoteSpec =>
    [][Deployed => policyId' = policyId /\ PolicyTerms(policyId)' = PolicyTerms(policyId)]_gatedVars
<1>1. NoteTypeOK /\ BoundToFrozenPolicy /\ [GatedNext]_gatedVars =>
        [Deployed => policyId' = policyId
                       /\ PolicyTerms(policyId)' = PolicyTerms(policyId)]_gatedVars
  BY FrozenForEver
<1> QED
  BY <1>1, NoteTypeCorrect, PolicyInvariant, PTL DEF NoteSpec

\* A holder met the note's policy when the balance grew, and when it shrank met
\* it too or lost it to a recovery.
MovesByRule(h) ==
  /\ balance'[h] > balance[h] => IsVerified(h, policyId)
  /\ balance'[h] < balance[h] =>
       \/ IsVerified(h, policyId)
       \/ \E id \in DOMAIN requests :
            LET r == requests[id] IN
            /\ ~r.executed /\ requests'[id].executed
            /\ r.from = h /\ r.amount = balance[h] - balance'[h]
            /\ r.approver # NoAccount /\ now >= r.executeAfter

\* Mint, burn and transfer check both ends; an executed recovery checks the end
\* that gains, and only its own request excuses the other one.
LEMMA StepMovesByRule ==
  ASSUME NoteTypeOK, [GatedNext]_gatedVars, NEW h \in Holders
  PROVE  MovesByRule(h)
<1> USE DEF MovesByRule
<1>0. h # NoAccount /\ 1 \in Nat
  BY RegistryAssumption
<1>1. ASSUME NEW g \in Holders, MintTo(g)
      PROVE  MovesByRule(h)
  <2>1. /\ balance' = Moved(NoAccount, g, 1)
        /\ g # NoAccount => IsVerified(g, policyId)
    BY <1>1 DEF MintTo, Update, Passes
  <2>2. (balance'[h] > balance[h] => h = g) /\ (balance'[h] < balance[h] => h = NoAccount)
    BY <2>1, Movement DEF NoteTypeOK
  <2> QED
    BY <1>0, <2>1, <2>2
<1>2. ASSUME NEW g \in Holders, Burn(g)
      PROVE  MovesByRule(h)
  <2>1. /\ balance' = Moved(g, NoAccount, 1) /\ (g # NoAccount => balance[g] >= 1)
        /\ g # NoAccount => IsVerified(g, policyId)
    BY <1>2 DEF Burn, Update, Passes
  <2>2. (balance'[h] > balance[h] => h = NoAccount) /\ (balance'[h] < balance[h] => h = g)
    BY <2>1, Movement DEF NoteTypeOK
  <2> QED
    BY <1>0, <2>1, <2>2
<1>3. ASSUME NEW f \in Holders, NEW g \in Holders, Transfer(f, g)
      PROVE  MovesByRule(h)
  <2>1. /\ balance' = Moved(f, g, 1) /\ (f # NoAccount => balance[f] >= 1)
        /\ f # NoAccount => IsVerified(f, policyId)
        /\ g # NoAccount => IsVerified(g, policyId)
    BY <1>3 DEF Transfer, Update, Passes
  <2>2. (balance'[h] > balance[h] => h = g) /\ (balance'[h] < balance[h] => h = f)
    BY <2>1, Movement DEF NoteTypeOK
  <2> QED
    BY <1>0, <2>1, <2>2
<1>4. ASSUME NEW id \in DOMAIN requests, ExecuteRecovery(id)
      PROVE  MovesByRule(h)
  <2> DEFINE r == requests[id]
  <2>1. r \in RecoveryRequests
    BY DEF NoteTypeOK
  <2>2. /\ r.from \in Holders \cup {NoAccount} /\ r.to \in Holders \cup {NoAccount}
        /\ r.amount \in Nat
    BY <2>1 DEF RecoveryRequests
  <2>3. /\ balance' = Moved(r.from, r.to, r.amount)
        /\ r.from # NoAccount => balance[r.from] >= r.amount
        /\ r.to # NoAccount => IsVerified(r.to, policyId)
        /\ ~r.executed /\ r.approver # NoAccount /\ now >= r.executeAfter
    BY <1>4 DEF ExecuteRecovery, Update, Passes
  <2>4. requests'[id].executed
    BY <1>4, <2>1 DEF ExecuteRecovery, RecoveryRequests
  <2>5. PICK f \in Holders \cup {NoAccount}, g \in Holders \cup {NoAccount}, n \in Nat :
          f = r.from /\ g = r.to /\ n = r.amount
    BY <2>2
  <2>6. balance' = Moved(f, g, n) /\ (f # NoAccount => balance[f] >= n)
    BY <2>3, <2>5
  <2>7. /\ balance'[h] > balance[h] => h = g
        /\ balance'[h] < balance[h] => h = f /\ balance[h] - balance'[h] = n
    BY <2>6, Movement DEF NoteTypeOK
  <2> QED
    BY <1>0, <2>3, <2>4, <2>5, <2>7
<1>5. ASSUME UNCHANGED balance
      PROVE  MovesByRule(h)
  BY <1>5 DEF NoteTypeOK
<1>6. \/ \E g \in Holders : MintTo(g) \/ Burn(g) \/ \E f \in Holders : Transfer(f, g)
      \/ \E id \in DOMAIN requests : ExecuteRecovery(id)
      \/ UNCHANGED balance
  BY DEF GatedNext, NoteNext, gatedVars, noteVars, Deploy, ConfigureRecoveryGovernance,
         ProposeRecovery, ApproveRecovery
<1> QED
  BY <1>1, <1>2, <1>3, <1>4, <1>5, <1>6

\* Balances move by the rule in every step.
THEOREM MovementsAreGated == NoteSpec => BalancesMoveByRule
<1>1. NoteTypeOK /\ [GatedNext]_gatedVars => [\A h \in Holders : MovesByRule(h)]_gatedVars
  BY StepMovesByRule
<1> QED
  BY <1>1, NoteTypeCorrect, PTL DEF NoteSpec, BalancesMoveByRule, MovesByRule

\* The gate from end to end: whose balance grows is listed, at that moment, in
\* the root in force, with a mark that meets what the note asked for when it
\* was deployed and asks for ever (PolicyIsPermanent).
GainsAreListed ==
  [][\A h \in Holders :
       balance'[h] > balance[h] => \E m \in Marks : VerifyWithRoster(h, m, policyId)]_gatedVars

\* What moves a balance is an operation of a deployed note.
THEOREM OnlyTheListedGain == NoteSpec => GainsAreListed
<1>1. ASSUME NoteTypeOK, TwoAuthorities, BoundToFrozenPolicy, WitnessOfItsEpoch,
             [GatedNext]_gatedVars, NEW h \in Holders, balance'[h] > balance[h]
      PROVE  \E m \in Marks : VerifyWithRoster(h, m, policyId)
  <2>1. IsVerified(h, policyId)
    BY <1>1, StepMovesByRule DEF MovesByRule
  <2>2. balance' # balance
    BY <1>1 DEF NoteTypeOK
  <2>3. Deployed
    BY <1>1, <2>2 DEF GatedNext, NoteNext, gatedVars, noteVars, Deploy, MintTo, Burn, Transfer,
       ConfigureRecoveryGovernance, ProposeRecovery, ApproveRecovery, TwoAuthorities
  <2>4. policyId \in PolicyIds /\ policies[policyId].body.roster
    BY <1>1, <2>3 DEF BoundToFrozenPolicy
  <2> QED
    BY <1>1, <2>1, <2>4, VerifiedIsListed
<1>2. NoteTypeOK /\ TwoAuthorities /\ BoundToFrozenPolicy /\ WitnessOfItsEpoch
        /\ [GatedNext]_gatedVars =>
        [\A h \in Holders :
           balance'[h] > balance[h] => \E m \in Marks : VerifyWithRoster(h, m, policyId)]_gatedVars
  BY <1>1
<1> QED
  BY <1>2, NoteTypeCorrect, AuthoritiesInvariant, PolicyInvariant, WitnessInvariant, PTL
     DEF NoteSpec, GainsAreListed
=============================================================================
