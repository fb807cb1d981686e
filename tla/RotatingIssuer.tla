-------------------------- MODULE RotatingIssuer ---------------------------
(***************************************************************************)
(* RotatingIssuer on the source chain: an issuer address that stays the    *)
(* same while its operating key changes.  A recovery owner proposes,       *)
(* suspends and declares compromises; a new key activates itself.  Every   *)
(* activation and every suspension opens a new key generation.             *)
(***************************************************************************)
EXTENDS Integers

CONSTANTS
  Keys,            \* accounts that may own, operate or be proposed
  NoKey,           \* address(0)
  MaxGeneration    \* bound on keyEpoch

ASSUME NoKeyAssumption == NoKey \notin Keys

VARIABLES
  owner, pendingOwner,    \* Ownable2Step
  operatingKey, pendingKey, keyEpoch, suspended,
  usedKey                 \* every key that was ever activated

issuerVars == <<owner, pendingOwner, operatingKey, pendingKey, keyEpoch, suspended, usedKey>>

\* constructor(recoveryOwner, initialKey, source)
IssuerInit ==
  /\ owner \in Keys
  /\ operatingKey \in Keys \ {owner}
  /\ usedKey = {operatingKey}
  /\ pendingOwner = NoKey /\ pendingKey = NoKey
  /\ keyEpoch = 1
  /\ suspended = FALSE

\* modifier currentKey: the sender is the operating key of the generation it names.
CurrentKey(sender, generation) ==
  ~suspended /\ sender = operatingKey /\ generation = keyEpoch

\* isValidSignature, apart from the question whether the source lists the issuer.
ValidSignature(signer, generation) ==
  ~suspended /\ generation = keyEpoch /\ signer = operatingKey

\* Faulty variant: a key may operate again.
ProposeUsedKey(k) ==
  /\ k # owner /\ k # pendingOwner
  /\ pendingKey' = k
  /\ UNCHANGED <<owner, pendingOwner, operatingKey, keyEpoch, suspended, usedKey>>

ProposeKey(k) ==
  /\ k \notin usedKey /\ k # owner /\ k # pendingOwner
  /\ pendingKey' = k
  /\ UNCHANGED <<owner, pendingOwner, operatingKey, keyEpoch, suspended, usedKey>>

CancelKeyProposal ==
  /\ pendingKey # NoKey
  /\ pendingKey' = NoKey
  /\ UNCHANGED <<owner, pendingOwner, operatingKey, keyEpoch, suspended, usedKey>>

\* Sent by the pending key, which names the generation it replaces.
AcceptKey ==
  /\ pendingKey # NoKey
  /\ keyEpoch < MaxGeneration
  /\ operatingKey' = pendingKey
  /\ pendingKey' = NoKey
  /\ usedKey' = usedKey \cup {pendingKey}
  /\ suspended' = FALSE
  /\ keyEpoch' = keyEpoch + 1
  /\ UNCHANGED <<owner, pendingOwner>>

\* suspend, and the second half of declareCompromise.
Suspend ==
  /\ keyEpoch < MaxGeneration
  /\ operatingKey' = NoKey
  /\ pendingKey' = NoKey
  /\ suspended' = TRUE
  /\ keyEpoch' = keyEpoch + 1
  /\ UNCHANGED <<owner, pendingOwner, usedKey>>

\* transferOwnership: a candidate owner, or NoKey to withdraw the last one.
TransferOwnership(k) ==
  /\ k # NoKey => k \notin usedKey /\ k # pendingKey
  /\ pendingOwner' = k
  /\ UNCHANGED <<owner, operatingKey, pendingKey, keyEpoch, suspended, usedKey>>

\* acceptOwnership: _transferOwnership withdraws the last owner's key proposal.
AcceptOwnership ==
  /\ pendingOwner # NoKey
  /\ owner' = pendingOwner
  /\ pendingOwner' = NoKey
  /\ pendingKey' = NoKey
  /\ UNCHANGED <<operatingKey, keyEpoch, suspended, usedKey>>

IssuerNext ==
  \/ \E k \in Keys : ProposeKey(k)
  \/ CancelKeyProposal
  \/ AcceptKey
  \/ Suspend
  \/ \E k \in Keys \cup {NoKey} : TransferOwnership(k)
  \/ AcceptOwnership

(***************************************************************************)
(* Properties.                                                             *)
(***************************************************************************)
\* The type invariant.
IssuerTypeOK ==
  /\ owner \in Keys /\ pendingOwner \in Keys \cup {NoKey}
  /\ operatingKey \in Keys \cup {NoKey} /\ pendingKey \in Keys \cup {NoKey}
  /\ keyEpoch \in Nat \ {0} /\ suspended \in BOOLEAN
  /\ usedKey \subseteq Keys

\* Recovery and operation stay in different hands: nobody who owns the issuer,
\* or may come to own it, ever was an operating key or is proposed as one; and
\* the issuer operates exactly while it is not suspended.
RecoveryIsSeparate ==
  /\ owner \notin usedKey /\ owner # pendingKey
  /\ pendingOwner # NoKey => pendingOwner \notin usedKey /\ pendingOwner # pendingKey
  /\ suspended <=> operatingKey = NoKey
  /\ operatingKey # NoKey => operatingKey \in usedKey
=============================================================================
