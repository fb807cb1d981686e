---------------------------- MODULE RosterSource ----------------------------
(***************************************************************************)
(* The roster the publisher builds: a replay of every log the source       *)
(* contract emitted up to a cutoff, in chain order, and the holders it     *)
(* leaves in good standing.                                                *)
(***************************************************************************)
EXTENDS SourceLog, FiniteSets, SequencesExt

CONSTANTS Window   \* attributes to <<issuedAt, expiry>>

NoEntry == << >>

FreshState == [denied |-> FALSE, revoked |-> FALSE, entry |-> NoEntry, key |-> 0, block |-> 0]

\* One lifecycle log.  A correction clears the holder; only the issuance that
\* follows it can list the holder again.
ReplayKeepsEntry(state, height, L) ==
  CASE L.sig = "SanctionDenied" -> [state EXCEPT !.denied = TRUE]
    [] L.sig = "SanctionDenialCorrected" -> [state EXCEPT !.denied = FALSE]
    [] L.sig = "MarkRevoked" -> [state EXCEPT !.revoked = TRUE]
    [] OTHER -> [state EXCEPT !.entry = Credential(L), !.key = KeyOf(L), !.block = height]

Replay(state, height, L) ==
  CASE L.sig = "SanctionDenied" -> [state EXCEPT !.denied = TRUE]
    [] L.sig = "SanctionDenialCorrected" -> [FreshState EXCEPT !.revoked = TRUE]
    [] L.sig = "MarkRevoked" -> [state EXCEPT !.revoked = TRUE]
    [] OTHER -> [state EXCEPT !.entry = Credential(L), !.key = KeyOf(L), !.block = height,
                              !.revoked = FALSE]

\* The source's logs in chain order, each with its block.
Scanned(R, c) ==
  LET order == SetToSortSeq({r \in R : r.ok}, LAMBDA p, q :
                 Newer(<<q.height, q.txIndex, 0>>, <<p.height, p.txIndex, 0>>))
      logs(r) == [i \in DOMAIN r.logs |-> [height |-> r.height, log |-> r.logs[i]]]
  IN  SelectSeq(FlattenSeq([k \in DOMAIN order |-> logs(order[k])]),
                LAMBDA x : x.log.emitter = c)

StateOf(R, c, s) ==
  FoldLeft(LAMBDA state, x : IF x.log.sig \in LifecycleSigs /\ x.log.subject = s
                               THEN Replay(state, x.height, x.log) ELSE state,
           FreshState, Scanned(R, c))

\* compromiseCutoffs: the lowest block an approved compromise declared
Cutoffs(R, c, issuer, key) ==
  {L.lastTrusted : L \in {x.log : x \in
     {y \in ToSet(Scanned(R, c)) : /\ y.log.sig = "IssuerKeyCompromised"
                                   /\ y.log.issuer = issuer /\ y.log.keyEpoch = key}}}

Compromised(R, c, state) ==
  /\ state.key # 0
  /\ \E cut \in Cutoffs(R, c, state.entry.issuer, state.key) : state.block > cut

\* The holders on the roster at a cutoff whose timestamp is `at'
Listed(R, c, s, at) ==
  LET state == StateOf(R, c, s) IN
  /\ ~state.denied /\ ~state.revoked
  /\ state.entry # NoEntry
  /\ ~Compromised(R, c, state)
  /\ Window[state.entry.attrs][1] <= at /\ Window[state.entry.attrs][2] > at

Entry(R, c, s) == StateOf(R, c, s).entry
=============================================================================
