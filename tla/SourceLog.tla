----------------------------- MODULE SourceLog -----------------------------
(***************************************************************************)
(* The vocabulary the source chain and the hub share: the coordinates that *)
(* USC proves for a source log, the lifecycle logs ComplianceSource emits, *)
(* and what a set of lifecycle logs says of one holder.                    *)
(*                                                                         *)
(* A receipt is a record                                                   *)
(*   [chainKey, height, txIndex, ok, logs]                                 *)
(* (ok: a supported transaction type with status 1) and logs is a sequence *)
(* of records with at least the fields                                     *)
(*   [emitter, sig, wf]                                                    *)
(* (wf: topics and data have the lengths and the value ranges that the     *)
(* decoder of that signature requires).  A log's further fields depend on  *)
(* its signature.                                                          *)
(***************************************************************************)
EXTENDS Integers, Sequences

CONSTANT ValidAttrs   \* the packed attributes MarkAttrs.validSchema accepts

(***************************************************************************)
(* Signatures.                                                             *)
(***************************************************************************)
IssueSigs     == {"MarkIssued", "KeyedMarkIssued"}
OrdinarySigs  == IssueSigs \cup {"MarkRevoked"}
DecisionSigs  == {"SanctionDenied", "SanctionDenialCorrected"}
LifecycleSigs == OrdinarySigs \cup DecisionSigs

Statuses == {"None", "Active", "Revoked", "Denied", "Suspended"}

(***************************************************************************)
(* Coordinates <<height, txIndex, logIndex>>, ordered lexicographically.   *)
(* A holder's cursors start at Origin; no log is mined at height 0.        *)
(***************************************************************************)
Coord  == Nat \X Nat \X Nat
Origin == <<0, 0, 0>>

Newer(p, q) ==
  \/ p[1] > q[1]
  \/ /\ p[1] = q[1]
     /\ \/ p[2] > q[2]
        \/ p[2] = q[2] /\ p[3] > q[3]

\* queryId = keccak256(chainKey, blockHeight, txIndex)
QueryId(r) == <<r.chainKey, r.height, r.txIndex>>

\* The i-th log of receipt r (log indices start at 0) with its coordinates.
EntryOf(r, i) == [at |-> <<r.height, r.txIndex, i - 1>>, log |-> r.logs[i]]

(***************************************************************************)
(* The entries among the first n logs of r that concern holder s and were  *)
(* emitted by contract c.                                                  *)
(***************************************************************************)
Concerns(L, s, c) == L.emitter = c /\ L.sig \in LifecycleSigs /\ L.subject = s

EntriesUpTo(r, n, s, c) ==
  {EntryOf(r, i) : i \in {j \in 1 .. n : Concerns(r.logs[j], s, c)}}

EntriesOf(R, s, c) == UNION {EntriesUpTo(r, Len(r.logs), s, c) : r \in R}

(***************************************************************************)
(* What a set E of entries of one holder says, independently of the order  *)
(* in which the entries arrived.                                           *)
(***************************************************************************)
Latest(E, e) == e \in E /\ \A f \in E : ~Newer(f.at, e.at)

Decisions(E) == {e \in E : e.log.sig \in DecisionSigs}

\* The latest sanctions decision is a denial.
DeniedBy(E) == \E e \in E : Latest(Decisions(E), e) /\ e.log.sig = "SanctionDenied"

\* The status an entry leaves the holder in when it is the latest one.
Outcome(L) ==
  IF L.sig \in IssueSigs /\ L.attrs \in ValidAttrs THEN "Active"
  ELSE IF L.sig = "MarkRevoked" THEN "Revoked"
  ELSE IF L.sig = "SanctionDenied" THEN "Denied"
  ELSE "Suspended"   \* a malformed issuance or a correction

\* The facts a valid issuance carries, and the generation of the key behind it.
Credential(L) == [attrs |-> L.attrs, issuer |-> L.issuer, claims |-> L.claims]

KeyOf(L) == IF L.sig = "KeyedMarkIssued" THEN L.keyEpoch ELSE 0

(***************************************************************************)
(* v is the view of a holder with entries E.  A denial that no later       *)
(* correction lifted outranks everything; otherwise the latest entry       *)
(* decides.  An active holder shows the credential, the key generation and *)
(* the height of exactly the issuance that is the latest entry.            *)
(***************************************************************************)
IsView(v, E) ==
  /\ v.denied <=> DeniedBy(E)
  /\ v.blocked <=> v.status \notin {"None", "Active"}
  /\ E = {} => v.status = "None"
  /\ \A e \in E : Latest(E, e) =>
       /\ v.status = IF v.denied THEN "Denied" ELSE Outcome(e.log)
       /\ v.status = "Active" =>
            /\ v.credential = Credential(e.log)
            /\ v.keyEpoch = KeyOf(e.log)
            /\ v.height = e.at[1]

\* p is the coordinate of the latest entry of E, or Origin if there is none.
AtLatest(p, E) ==
  /\ E = {} => p = Origin
  /\ E # {} => \E e \in E : e.at = p /\ Latest(E, e)
=============================================================================
