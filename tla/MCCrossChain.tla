--------------------------- MODULE MCCrossChain ----------------------------
(***************************************************************************)
(* A small source chain relayed to the hub: two accounts, a stable issuer  *)
(* with few keys.  The denials and the keys are explored apart from each   *)
(* other.                                                                  *)
(***************************************************************************)
EXTENDS CrossChain, TLC

CONSTANTS
  alice,           \* holder
  ana, ben,        \* accounts with roles
  stable,          \* the stable issuer
  k1, k2, k3       \* keys

OneHolder  == {alice}
MCAccounts == {ana, ben}
MCKeys     == {k1, k2, k3}
MCAddress  == [x \in {ana, ben, stable} |-> IF x = ana THEN 1 ELSE IF x = stable THEN 2 ELSE 3]
\* A credential is valid to the end of the chain, and expires just after it.
MCWindow   == [a \in {"kyc"} |-> <<1, 4>>]
Twice      == {<<alice>>, <<alice, alice>>}

Publication(e, c) == [epoch |-> e, root |-> e, listVersion |-> 1, validUntil |-> c + 2,
                      cutoff |-> c, snapshotId |-> e]
MCPublications == {Publication(e, c) : e \in 1 .. 2, c \in 1 .. 2}

Approval(i, k, g) == [issuer |-> i, signer |-> k, generation |-> g]
MCApprovals ==
  {<<Approval(ana, ana, 0)>>} \cup
  {<<Approval(stable, k, g)>> : k \in MCKeys, g \in 1 .. 4} \cup
  {<<Approval(ana, ana, 0), Approval(stable, k, g)>> : k \in MCKeys, g \in 1 .. 2} \cup
  {<<Approval(ana, ana, 0), Approval(ana, ana, 0)>>}

KeySymmetry == Permutations(MCKeys)

DenialsOnly ==
  /\ keyEpoch = 1 /\ pendingKey = NoKey /\ pendingOwner = NoKey
  /\ processedRequest = {} /\ lastEpoch = 0
  /\ roleChanges > 0 => Len(corrections) <= 1

\* Every issuance is made once, and there is neither revocation nor denial.
KeysOnly ==
  /\ corrections = << >> /\ roleChanges = 0
  /\ \A s \in Subjects : revision[s] = 0
  /\ Cardinality(Logs({"MarkIssued", "KeyedMarkIssued", "MarkRevoked"}))
       = Cardinality(processedRequest)

DenialsOrKeys == DenialsOnly \/ KeysOnly

MCIssuers == {ana, ben, stable}

\* The source by itself, with the hub still unconfigured.
SourceAlone == contract = NoContract /\ now = 0 /\ DenialsOrKeys

\* A shorter history relayed; the hub's clock matters to rosters only.  The
\* source never reads the hub, so what it does after a relay it could as well
\* have done before: the hub starts when the source is through.
Relayed ==
  /\ txLogs = << >> /\ height = MaxHeight
  /\ Len(corrections) <= 1 /\ roleChanges = 0 /\ processedRequest \subseteq {1}
  /\ keyEpoch <= 2 /\ pendingOwner = NoKey /\ pendingKey = NoKey
  /\ \/ DenialsOnly /\ \A s \in Subjects : revision[s] <= 2
     \/ KeysOnly /\ (Cardinality(chain) > 2 => lastEpoch = 1)
  /\ now > 0 => lastEpoch > 0

SourceOrBoth == SourceAlone \/ Relayed
=============================================================================
