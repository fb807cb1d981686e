-------------------------- MODULE MCProofmarkASC ---------------------------
(***************************************************************************)
(* Small source chains for ProofmarkASC: a receipt is one of the shapes    *)
(* below mined at one of a few coordinates.                                *)
(***************************************************************************)
EXTENDS ProofmarkASC

CONSTANTS
  alice, bob,      \* holders
  kim, lee,        \* issuers (kim rotates keys, lee is a legacy account)
  src, copycat     \* the pinned contract and a lookalike

MCSubjects  == {alice, bob}
MCContracts == {src, copycat}
MCIssuers   == {kim, lee}

Log(c, sig, s)  == [emitter |-> c, sig |-> sig, wf |-> TRUE, subject |-> s]
Issue(s, a)     == [emitter |-> src, sig |-> "MarkIssued", wf |-> TRUE, subject |-> s,
                    attrs |-> a, issuer |-> lee, claims |-> 1]
KeyedIssue(s)   == [emitter |-> src, sig |-> "KeyedMarkIssued", wf |-> TRUE, subject |-> s,
                    attrs |-> "kyc", issuer |-> kim, claims |-> 2, keyEpoch |-> 1]
Revoke(s)       == Log(src, "MarkRevoked", s)
Deny(s)         == Log(src, "SanctionDenied", s)
Correct(s, by)  == [emitter |-> src, sig |-> "SanctionDenialCorrected", wf |-> TRUE,
                    subject |-> s, revision |-> 1, correctionId |-> 1,
                    proposer |-> lee, approver |-> by]
Compromise(b)   == [emitter |-> src, sig |-> "IssuerKeyCompromised", wf |-> TRUE,
                    issuer |-> kim, keyEpoch |-> 1, lastTrusted |-> b]
Authorize(e, i) == [emitter |-> src, sig |-> "RosterIssuerAuthorized", wf |-> TRUE,
                    epoch |-> e, root |-> e, issuer |-> i]
AuthorizeKey(e) == [emitter |-> src, sig |-> "RosterIssuerKeyAuthorized", wf |-> TRUE,
                    epoch |-> e, root |-> e, issuer |-> kim, keyEpoch |-> 1]
Publish(e, at)  == [emitter |-> src, sig |-> "RosterEpochPublished", wf |-> TRUE,
                    epoch |-> e, root |-> e, listVersion |-> 1, validUntil |-> at + 2,
                    cutoff |-> at, publishedAt |-> at, snapshotId |-> e]

Receipt(k, h, t, ok, logs) ==
  [chainKey |-> k, height |-> h, txIndex |-> t, ok |-> ok, logs |-> logs]

(***************************************************************************)
(* The life of credentials: ordinary and denied issuances, a malformed     *)
(* schema, revocation, denial, governed correction with its replacement,   *)
(* opposing logs in one receipt, a lookalike contract, a correction that   *)
(* its decoder refuses after an issuance was walked, a failed transaction. *)
(***************************************************************************)
LifecycleShapes ==
  {<<Issue(alice, "kyc")>>, <<KeyedIssue(alice)>>, <<Issue(alice, "malformed")>>,
   <<Revoke(alice)>>, <<Deny(alice)>>,
   <<Correct(alice, kim), Issue(alice, "kyc")>>,
   <<Issue(alice, "kyc"), Deny(alice)>>,
   <<Log(copycat, "SanctionDenied", alice), Revoke(bob), Revoke(alice)>>,
   <<Issue(alice, "kyc"), Correct(alice, lee)>>}

LifecycleCoords == {<<1, 0>>, <<1, 1>>, <<2, 0>>}

LifecycleReceipts ==
  {Receipt(1, c[1], c[2], TRUE, l) : c \in LifecycleCoords, l \in LifecycleShapes}
    \cup {Receipt(1, 2, 0, FALSE, <<Revoke(alice)>>), Receipt(3, 9, 0, TRUE, <<Deny(alice)>>)}

(***************************************************************************)
(* Rosters and keys: epochs with legacy and keyed authorizations, an epoch *)
(* without one, one that authorizes an issuer twice, one from the future   *)
(* of the hub clock, a holder issued under the key, and two declarations   *)
(* of its compromise with different last trusted blocks.                   *)
(***************************************************************************)
Auths(e) == <<Authorize(e, lee), Authorize(e, kim), AuthorizeKey(e), Publish(e, 1)>>

RosterReceipts ==
  {Receipt(1, h, 0, TRUE, l) : h \in 2 .. 3,
     l \in {<<KeyedIssue(alice)>>, Auths(1), <<Authorize(2, kim), Publish(2, 1)>>,
            <<Publish(2, 2), Authorize(2, lee)>>, <<Publish(1, 1)>>,
            <<Authorize(1, lee), Deny(alice), Authorize(1, lee), Publish(1, 1)>>,
            <<Authorize(1, lee), Publish(1, 1)>> \o Auths(2)}}
    \cup {Receipt(1, h, 0, TRUE, <<Compromise(b)>>) : h \in 4 .. 5, b \in {1, 2, 4}}

\* The two groups of receipts are explored apart from each other, and the
\* clock with the rosters only.
HubReceipts == LifecycleReceipts \cup RosterReceipts

OneGroup ==
  \/ attested \subseteq LifecycleReceipts /\ now = 0
  \/ attested \subseteq RosterReceipts
=============================================================================
