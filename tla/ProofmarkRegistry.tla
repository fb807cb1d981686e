------------------------ MODULE ProofmarkRegistry --------------------------
(***************************************************************************)
(* ProofmarkRegistry on the hub chain: policies that anybody registers, a  *)
(* cache of roster witnesses that anybody fills, and the decision whether  *)
(* a holder meets a policy.  The registry reads the credential store only  *)
(* through its views, so the store is what those views can show.           *)
(***************************************************************************)
EXTENDS Integers, FiniteSets, Sequences

CONSTANTS
  Holders, Issuers, Accounts,
  Marks,         \* [issuer, kind, grade, issuedAt, expiry]; grade stands for the other attributes
  Policies,      \* [roster, minGrade, maxAge, issuer], the content a policy may have
  Kinds,         \* kinds of holder, individual and entity
  Publications,  \* [listed, validUntil, approved], what an epoch may say
  NoMark, NoIssuer, NoAccount,
  MaxPolicies, MaxEpoch, MaxTime      \* bounds

ASSUME RegistryAssumption ==
  /\ NoMark \notin Marks /\ NoAccount \notin Accounts \cup Holders
  /\ Publications \subseteq
       [listed : [Holders -> Marks \cup {NoMark}], validUntil : Nat, approved : SUBSET Issuers]
  /\ MaxEpoch \in Nat /\ MaxTime \in Nat

VARIABLES
  direct,        \* the mark the store materialised for each holder
  cut,           \* holders whose mark comes from a key declared compromised before
  tombstone,     \* holders revoked or denied
  roster,        \* latest epoch: [epoch, listed, validUntil]
  usable,        \* issuers approved for the latest epoch and not cut off since
  now,           \* block.timestamp
  policies,      \* policies by id: [owner, kind, frozen, body]
  witness        \* rosterWitnesses: [epoch, mark] per holder

hubView      == <<direct, cut, tombstone, roster, usable, now>>
registryVars == <<policies, witness>>

RegistryInit ==
  /\ direct = [h \in Holders |-> NoMark]
  /\ cut = {} /\ tombstone = {} /\ usable = {}
  /\ roster = [epoch |-> 0, listed |-> [h \in Holders |-> NoMark], validUntil |-> 0]
  /\ now = 0
  /\ policies = << >>
  /\ witness = [h \in Holders |-> [epoch |-> 0, mark |-> NoMark]]

(***************************************************************************)
(* What the store may show next.                                           *)
(***************************************************************************)
HubIssues(h, m) ==
  /\ direct' = [direct EXCEPT ![h] = m]
  /\ cut' = cut \ {h} /\ tombstone' = tombstone \ {h}
  /\ UNCHANGED <<roster, usable, now>>

HubRevokes(h) ==
  /\ tombstone' = tombstone \cup {h}
  /\ UNCHANGED <<direct, cut, roster, usable, now>>

\* A new epoch with a root over the holders it lists.  One that was long on its
\* way may have run out when it arrives.
HubPublishes(e) ==
  /\ roster.epoch < MaxEpoch
  /\ roster' = [epoch |-> roster.epoch + 1, listed |-> e.listed, validUntil |-> e.validUntil]
  /\ usable' = e.approved
  /\ UNCHANGED <<direct, cut, tombstone, now>>

\* A declared compromise cuts off what the issuer's key did after a block.
HubDistrusts(i) ==
  /\ cut' \in {cut, cut \cup {h \in Holders : direct[h] # NoMark /\ direct[h].issuer = i}}
  /\ usable' \in {usable, usable \ {i}}
  /\ UNCHANGED <<direct, tombstone, roster, now>>

Tick ==
  /\ now < MaxTime /\ now' = now + 1
  /\ UNCHANGED <<direct, cut, tombstone, roster, usable>>

IsRosterFresh == roster.epoch # 0 /\ roster.validUntil > now

(***************************************************************************)
(* Decision.                                                               *)
(***************************************************************************)
PolicyIds == DOMAIN policies

\* _policyHolds
PolicyHolds(m, p) ==
  /\ m.kind = p.kind
  /\ m.grade >= p.body.minGrade
  /\ p.body.issuer \in {NoIssuer, m.issuer}
  /\ m.issuedAt <= now /\ now < m.expiry
  /\ p.body.maxAge # 0 => now - m.issuedAt <= p.body.maxAge

\* _rosterContains: the inclusion proof against the current root.
RosterContains(h, m) ==
  /\ h \notin tombstone
  /\ IsRosterFresh
  /\ m.issuer \in usable
  /\ roster.listed[h] = m

\* verifyWithRoster, given a proof of whatever the root lists.
VerifyWithRoster(h, m, id) == RosterContains(h, m) /\ PolicyHolds(m, policies[id])

\* Faulty variant: a witness counts in every epoch.
WitnessOfAnyEpoch(h) == witness[h].epoch # 0 /\ IsRosterFresh /\ witness[h].mark.issuer \in usable

WitnessCounts(h) ==
  LET w == witness[h] IN
  w.epoch # 0 /\ w.epoch = roster.epoch /\ IsRosterFresh /\ w.mark.issuer \in usable

IsVerified(h, id) ==
  /\ id \in PolicyIds
  /\ h \notin tombstone
  /\ IF policies[id].body.roster
     THEN WitnessCounts(h) /\ PolicyHolds(witness[h].mark, policies[id])
     ELSE direct[h] # NoMark /\ h \notin cut /\ PolicyHolds(direct[h], policies[id])

(***************************************************************************)
(* Operations.                                                             *)
(***************************************************************************)
\* registerPolicy and registerPolicyForKind.
RegisterPolicy(a, body, kind) ==
  /\ Len(policies) < MaxPolicies
  /\ policies' = Append(policies, [owner |-> a, kind |-> kind, frozen |-> FALSE, body |-> body])
  /\ UNCHANGED witness

UpdatePolicy(a, id, body) ==
  /\ policies[id].owner = a /\ ~policies[id].frozen
  /\ policies' = [policies EXCEPT ![id].body = body]
  /\ UNCHANGED witness

TransferPolicyOwner(a, id, b) ==
  /\ policies[id].owner = a
  /\ policies' = [policies EXCEPT ![id].owner = b]
  /\ UNCHANGED witness

FreezePolicy(a, id) ==
  /\ policies[id].owner = a
  /\ policies' = [policies EXCEPT ![id].frozen = TRUE]
  /\ UNCHANGED witness

\* Anybody delivers a proof for a holder; m is what the proof is about.
CacheRosterWitness(h, m) ==
  /\ RosterContains(h, m)
  /\ witness' = [witness EXCEPT ![h] = [epoch |-> roster.epoch, mark |-> m]]
  /\ UNCHANGED policies

HubViewNext ==
  \/ \E h \in Holders, m \in Marks : HubIssues(h, m)
  \/ \E h \in Holders : HubRevokes(h)
  \/ \E e \in Publications : HubPublishes(e)
  \/ \E i \in Issuers : HubDistrusts(i)
  \/ Tick

RegistryNext ==
  \/ \E a \in Accounts, body \in Policies, kind \in Kinds : RegisterPolicy(a, body, kind)
  \/ \E a \in Accounts, id \in PolicyIds :
       \/ \E body \in Policies : UpdatePolicy(a, id, body)
       \/ \E b \in Accounts : TransferPolicyOwner(a, id, b)
       \/ FreezePolicy(a, id)
  \/ \E h \in Holders, m \in Marks : CacheRosterWitness(h, m)

(***************************************************************************)
(* Properties.                                                             *)
(***************************************************************************)
\* The cache never says more than a proof would: whoever a roster policy lets
\* through on a cached witness is listed with that mark in the root in force
\* now, whatever was published, revoked, distrusted or expired since the
\* witness was cached (cacheRosterWitness: "Cache time grants no new lifetime").
WitnessIsCurrent ==
  \A h \in Holders, id \in PolicyIds :
    policies[id].body.roster /\ IsVerified(h, id) => \E m \in Marks : VerifyWithRoster(h, m, id)
=============================================================================
