------------------------- MODULE ProofmarkASCProof -------------------------
(***************************************************************************)
(* ProofmarkASC keeps every holder in source order, for every set of       *)
(* receipts, holders, issuers and keys, and so implements LifecycleLedger. *)
(* Its rosters and keys follow the set of delivered logs as well.          *)
(***************************************************************************)
EXTENDS ProofmarkASC, TLAPS

-----------------------------------------------------------------------------
(***************************************************************************)
(* Source order is a strict total order, and every lifecycle handler keeps *)
(* a holder's storage in that order, whatever log arrives next.            *)
(***************************************************************************)

\* E is a set of entries at coordinates that name them.
Distinct(E) ==
  /\ \A e \in E : e.at \in Coord
  /\ \A e, f \in E : e.at = f.at => e = f

\* Newer is irreflexive, transitive and total on coordinates: any two proven
\* source logs are ordered, as the cursors of ProofmarkASC require.
LEMMA NewerStrictOrder ==
  /\ \A p \in Coord : ~Newer(p, p)
  /\ \A p, q, r \in Coord : Newer(p, q) /\ Newer(q, r) => Newer(p, r)
  /\ \A p, q \in Coord : p = q \/ Newer(p, q) \/ Newer(q, p)
<1>1. \A p \in Coord : p = <<p[1], p[2], p[3]>> /\ p[1] \in Nat /\ p[2] \in Nat /\ p[3] \in Nat
  BY DEF Coord
<1>2. \A p \in Coord : ~Newer(p, p)
  BY <1>1 DEF Newer
<1>3. \A p, q, r \in Coord : Newer(p, q) /\ Newer(q, r) => Newer(p, r)
  BY <1>1 DEF Newer
<1>4. \A p, q \in Coord : p = q \/ Newer(p, q) \/ Newer(q, p)
  <2> SUFFICES ASSUME NEW p \in Coord, NEW q \in Coord, ~Newer(p, q), ~Newer(q, p)
               PROVE  p = q
    OBVIOUS
  <2>1. p[1] = q[1] /\ p[2] = q[2] /\ p[3] = q[3]
    BY <1>1 DEF Newer
  <2> QED
    BY <2>1, <1>1
<1> QED
  BY <1>2, <1>3, <1>4

\* An entry newer than the cursor becomes the only latest entry.
LEMMA AddNewer ==
  ASSUME NEW E, NEW n, NEW p, Distinct(E), AtLatest(p, E), n.at \in Coord, p \in Coord,
         Newer(n.at, p)
  PROVE  /\ Distinct(E \cup {n})
         /\ AtLatest(n.at, E \cup {n})
         /\ \A e \in E \cup {n} : Latest(E \cup {n}, e) <=> e = n
<1>1. \A e \in E : Newer(n.at, e.at)
  <2> SUFFICES ASSUME NEW e \in E
               PROVE  Newer(n.at, e.at)
    OBVIOUS
  <2>1. PICK l \in E : l.at = p /\ Latest(E, l)
    BY DEF AtLatest
  <2>2. ~Newer(e.at, p) /\ e.at \in Coord
    BY <2>1 DEF Latest, Distinct
  <2> QED
    BY <2>2, NewerStrictOrder
<1>2. \A e \in E : ~Newer(e.at, n.at) /\ e.at # n.at
  BY <1>1, NewerStrictOrder DEF Distinct
<1>3. Latest(E \cup {n}, n)
  BY <1>2, NewerStrictOrder DEF Latest
<1>4. \A e \in E : e # n /\ ~Latest(E \cup {n}, e)
  BY <1>1, <1>2 DEF Latest
<1>5. Distinct(E \cup {n})
  BY <1>2 DEF Distinct
<1>6. AtLatest(n.at, E \cup {n})
  BY <1>3 DEF AtLatest
<1> QED
  BY <1>3, <1>4, <1>5, <1>6

\* An entry that is not newer than the cursor changes nothing at the top.
LEMMA AddStale ==
  ASSUME NEW E, NEW n, NEW p, Distinct(E), AtLatest(p, E), n.at \in Coord, p \in Coord,
         Newer(n.at, Origin), ~Newer(n.at, p),
         \A e \in E : e.at # n.at
  PROVE  /\ Distinct(E \cup {n})
         /\ E # {}
         /\ AtLatest(p, E \cup {n})
         /\ Newer(p, n.at)
         /\ \A e \in E \cup {n} : Latest(E \cup {n}, e) <=> e \in E /\ Latest(E, e)
<1>1. E # {}
  BY DEF AtLatest
<1>2. PICK l \in E : l.at = p /\ Latest(E, l)
  BY <1>1 DEF AtLatest
<1>3. Newer(p, n.at)
  BY <1>2, NewerStrictOrder
<1>4. \A e \in E : Latest(E, e) => e = l
  <2> SUFFICES ASSUME NEW e \in E, Latest(E, e)
               PROVE  e.at = l.at
    BY DEF Distinct
  <2> QED
    BY <1>2, NewerStrictOrder DEF Latest, Distinct
<1>5. Latest(E \cup {n}, l)
  BY <1>2, <1>3, NewerStrictOrder DEF Latest
<1>6. ~Latest(E \cup {n}, n) /\ n \notin E
  BY <1>2, <1>3 DEF Latest
<1>7. \A e \in E : Latest(E \cup {n}, e) => Latest(E, e)
  BY DEF Latest
<1>8. Distinct(E \cup {n})
  BY DEF Distinct
<1>9. AtLatest(p, E \cup {n})
  BY <1>2, <1>5 DEF AtLatest
<1> QED
  BY <1>1, <1>3, <1>4, <1>5, <1>6, <1>7, <1>8, <1>9, <1>2

-----------------------------------------------------------------------------
\* m is in source order for E and n is an entry at new coordinates.
Ready(m, E, n) ==
  /\ m \in SubjectStates
  /\ Distinct(E)
  /\ SourceOrdered(m, E)
  /\ n.at \in Coord /\ Newer(n.at, Origin)
  /\ \A e \in E : e.at # n.at /\ e.log.sig \in LifecycleSigs
  /\ n.log.sig \in LifecycleSigs
  /\ n.log.sig \in IssueSigs => Credential(n.log) \in Credentials
  /\ KeyOf(n.log) \in KeyEpochs \cup {0}
  /\ n.log.sig = "SanctionDenialCorrected" => CorrectionFacts(n.log) \in Corrections

\* An ordinary log leaves the sanctions decision of a holder alone.
LEMMA OrdinaryKeepsDecision ==
  ASSUME NEW E, NEW n, n.log.sig \in OrdinarySigs
  PROVE  Decisions(E \cup {n}) = Decisions(E) /\ (DeniedBy(E \cup {n}) <=> DeniedBy(E))
<1>1. n.log.sig \notin DecisionSigs
  BY DEF OrdinarySigs, IssueSigs, DecisionSigs
<1>2. Decisions(E \cup {n}) = Decisions(E)
  BY <1>1 DEF Decisions
<1>3. \A e : Latest(Decisions(E), e) => e \in E
  BY DEF Latest, Decisions
<1> QED
  BY <1>2, <1>3 DEF DeniedBy

\* A decision newer than the decision cursor decides.
LEMMA NewDecisionDecides ==
  ASSUME NEW E, NEW n, NEW p, Distinct(E), AtLatest(p, Decisions(E)), p \in Coord,
         n.at \in Coord, Newer(n.at, p), n.log.sig \in DecisionSigs
  PROVE  /\ Decisions(E \cup {n}) = Decisions(E) \cup {n}
         /\ AtLatest(n.at, Decisions(E \cup {n}))
         /\ DeniedBy(E \cup {n}) <=> n.log.sig = "SanctionDenied"
<1>1. Decisions(E \cup {n}) = Decisions(E) \cup {n}
  BY DEF Decisions
<1>2. Distinct(Decisions(E))
  BY DEF Distinct, Decisions
<1>3. /\ AtLatest(n.at, Decisions(E) \cup {n})
      /\ \A e \in Decisions(E) \cup {n} : Latest(Decisions(E) \cup {n}, e) <=> e = n
  BY <1>2, AddNewer
<1>4. \A e : Latest(Decisions(E) \cup {n}, e) => e \in Decisions(E) \cup {n}
  BY DEF Latest
<1> QED
  BY <1>1, <1>3, <1>4 DEF DeniedBy

\* A decision that is not newer than the decision cursor decides nothing, and it
\* is not the latest log of the holder either.
LEMMA StaleDecisionIgnored ==
  ASSUME NEW E, NEW n, NEW p, Distinct(E), AtLatest(p, Decisions(E)), p \in Coord,
         n.at \in Coord, Newer(n.at, Origin), ~Newer(n.at, p), n.log.sig \in DecisionSigs,
         \A e \in E : e.at # n.at
  PROVE  /\ AtLatest(p, Decisions(E \cup {n}))
         /\ DeniedBy(E \cup {n}) <=> DeniedBy(E)
         /\ \E e \in E : Newer(e.at, n.at)
<1>1. Decisions(E \cup {n}) = Decisions(E) \cup {n}
  BY DEF Decisions
<1>2. Distinct(Decisions(E)) /\ \A e \in Decisions(E) : e.at # n.at
  BY DEF Distinct, Decisions
<1>3. /\ Decisions(E) # {}
      /\ AtLatest(p, Decisions(E) \cup {n})
      /\ Newer(p, n.at)
      /\ \A e \in Decisions(E) \cup {n} :
           Latest(Decisions(E) \cup {n}, e) <=> e \in Decisions(E) /\ Latest(Decisions(E), e)
  BY <1>2, AddStale
<1>4. \A e : /\ Latest(Decisions(E) \cup {n}, e) => e \in Decisions(E) \cup {n}
             /\ Latest(Decisions(E), e) => e \in Decisions(E)
             /\ e \in Decisions(E) => e \in E
  BY DEF Latest, Decisions
<1>5. DeniedBy(E \cup {n}) <=> DeniedBy(E)
  BY <1>1, <1>3, <1>4 DEF DeniedBy
<1>6. \E e \in E : Newer(e.at, n.at)
  BY <1>3, <1>4 DEF AtLatest
<1> QED
  BY <1>1, <1>3, <1>5, <1>6

\* What is older than some entry is not newer than the cursor.
LEMMA BelowTheTop ==
  ASSUME NEW E, NEW p, NEW at, Distinct(E), AtLatest(p, E), p \in Coord, at \in Coord,
         \E e \in E : Newer(e.at, at)
  PROVE  ~Newer(at, p)
<1>1. PICK e \in E : Newer(e.at, at)
  OBVIOUS
<1>2. PICK l \in E : l.at = p /\ Latest(E, l)
  BY <1>1 DEF AtLatest
<1>3. ~Newer(e.at, p) /\ e.at \in Coord
  BY <1>2 DEF Latest, Distinct
<1> QED
  BY <1>1, <1>3, NewerStrictOrder

\* A log that neither cursor accepts leaves source order intact.
LEMMA SkippedIsHarmless ==
  ASSUME NEW m, NEW E, NEW n, Ready(m, E, n), ~Newer(n.at, m.cursor),
         AtLatest(m.decision, Decisions(E \cup {n})),
         DeniedBy(E \cup {n}) <=> DeniedBy(E)
  PROVE  SourceOrdered(m, E \cup {n})
<1>1. m.cursor \in Coord /\ AtLatest(m.cursor, E)
  BY DEF Ready, SubjectStates, SourceOrdered
<1>2. /\ E # {} /\ AtLatest(m.cursor, E \cup {n})
      /\ \A e \in E \cup {n} : Latest(E \cup {n}, e) <=> e \in E /\ Latest(E, e)
  BY <1>1, AddStale DEF Ready
<1>3. IsView(ViewOf(m), E \cup {n})
  BY <1>2 DEF Ready, SourceOrdered, IsView
<1> QED
  BY <1>2, <1>3 DEF Ready, SourceOrdered

\* _onIssued and _onKeyedIssued keep a holder in source order: a stale issuance
\* is skipped, one that arrives under a denial stays behind it.
LEMMA IssuanceKeepsOrder ==
  ASSUME NEW m, NEW E, NEW n, Ready(m, E, n), n.log.sig \in IssueSigs
  PROVE  /\ SourceOrdered(StoreIssuance(m, n.at, n.log, KeyOf(n.log)), E \cup {n})
         /\ StoreIssuance(m, n.at, n.log, KeyOf(n.log)) \in SubjectStates
<1> DEFINE x == StoreIssuance(m, n.at, n.log, KeyOf(n.log))
           F == E \cup {n}
<1>1. n.log.sig \in OrdinarySigs
  BY DEF OrdinarySigs
<1>2. Decisions(F) = Decisions(E) /\ (DeniedBy(F) <=> DeniedBy(E))
  BY <1>1, OrdinaryKeepsDecision
<1>3. m \in SubjectStates /\ SourceOrdered(m, E)
  BY DEF Ready
<1>4. CASE ~Newer(n.at, m.cursor)
  <2>1. x = m
    BY <1>4 DEF StoreIssuance, IsNewer
  <2>2. AtLatest(m.decision, Decisions(F))
    BY <1>2, <1>3 DEF SourceOrdered
  <2>3. SourceOrdered(m, F)
    BY <1>2, <1>4, <2>2, SkippedIsHarmless
  <2> QED
    BY <2>1, <2>3, <1>3
<1>5. CASE Newer(n.at, m.cursor)
  <2>1. m.cursor \in Coord /\ AtLatest(m.cursor, E)
    BY <1>3 DEF SubjectStates, SourceOrdered
  <2>2. /\ AtLatest(n.at, F)
        /\ \A e \in F : Latest(F, e) <=> e = n
    BY <2>1, <1>5, AddNewer DEF Ready
  <2>3. m.permanentDenial => m.status = "Denied"
    <3> SUFFICES ASSUME m.permanentDenial
                 PROVE  m.status = "Denied"
      OBVIOUS
    <3>1. DeniedBy(E)
      BY <1>3 DEF SourceOrdered, IsView, ViewOf
    <3>2. E # {}
      BY <3>1 DEF DeniedBy
    <3>3. PICK e \in E : Latest(E, e)
      BY <3>2, <2>1 DEF AtLatest
    <3> QED
      BY <3>3, <1>3 DEF SourceOrdered, IsView, ViewOf
  <2>4. m.permanentDenial <=> DeniedBy(F)
    BY <1>2, <1>3 DEF SourceOrdered, IsView, ViewOf
  <2>5. /\ x \in SubjectStates
        /\ x.cursor = n.at /\ x.decision = m.decision
        /\ x.permanentDenial = m.permanentDenial
        /\ x.latestOrdinary = Outcome(n.log)
        /\ x.status = IF m.permanentDenial THEN "Denied" ELSE Outcome(n.log)
        /\ x.tombstone <=> x.status \notin {"None", "Active"}
        /\ Outcome(n.log) = "Active" =>
             x.credential = Credential(n.log) /\ x.keyEpoch = KeyOf(n.log)
        /\ Outcome(n.log) \in {"Active", "Suspended"}
    <3>1. CASE n.log.attrs \in ValidAttrs
      <4>1. Outcome(n.log) = "Active"
        BY <3>1 DEF Outcome
      <4>2. x = [m EXCEPT !.cursor = n.at,
                          !.status = IF m.permanentDenial THEN "Denied" ELSE "Active",
                          !.tombstone = m.permanentDenial,
                          !.credential = Credential(n.log),
                          !.keyEpoch = KeyOf(n.log),
                          !.latestOrdinary = "Active",
                          !.ordinaryIsIssuance = TRUE]
        BY <3>1, <1>5, <1>3 DEF StoreIssuance, IsNewer, Advance, SubjectStates
      <4> HIDE DEF x
      <4>3. /\ x.cursor = n.at /\ x.decision = m.decision
            /\ x.latestOrdinary = "Active"
            /\ x.credential = Credential(n.log) /\ x.keyEpoch = KeyOf(n.log)
        BY <4>2, <1>3 DEF SubjectStates
      <4>4. x.permanentDenial = m.permanentDenial
        BY <4>2, <1>3 DEF SubjectStates
      <4>5. /\ x.tombstone = m.permanentDenial
            /\ x.status = IF m.permanentDenial THEN "Denied" ELSE "Active"
        BY <4>2, <1>3 DEF SubjectStates
      <4>6. x \in SubjectStates
        BY <4>2, <1>3 DEF SubjectStates, Statuses, Ready
      <4> QED
        BY <4>1, <4>3, <4>4, <4>5, <4>6
    <3>2. CASE n.log.attrs \notin ValidAttrs
      <4>1. Outcome(n.log) = "Suspended"
        BY <3>2 DEF Outcome, IssueSigs
      <4>2. x = [m EXCEPT !.cursor = n.at,
                          !.status = IF m.permanentDenial THEN m.status ELSE "Suspended",
                          !.tombstone = TRUE,
                          !.latestOrdinary = "Suspended",
                          !.ordinaryIsIssuance = FALSE]
        BY <3>2, <1>5, <1>3 DEF StoreIssuance, IsNewer, Advance, SubjectStates
      <4> QED
        BY <4>1, <4>2, <2>3, <1>3 DEF Ready, SubjectStates, Statuses
    <3> QED
      BY <3>1, <3>2
  <2>6. AtLatest(x.cursor, F) /\ AtLatest(x.decision, Decisions(F))
    BY <2>2, <2>5, <1>2, <1>3 DEF SourceOrdered
  <2>7. IsView(ViewOf(x), F)
    BY <2>2, <2>4, <2>5 DEF IsView, ViewOf
  <2> QED
    BY <2>2, <2>5, <2>6, <2>7 DEF SourceOrdered
<1> QED
  BY <1>4, <1>5

\* _onTombstone with a revocation keeps a holder in source order and never
\* downgrades a denial.
LEMMA RevocationKeepsOrder ==
  ASSUME NEW m, NEW E, NEW n, Ready(m, E, n), n.log.sig = "MarkRevoked"
  PROVE  /\ SourceOrdered(OnRevoked(m, n.at, n.log), E \cup {n})
         /\ OnRevoked(m, n.at, n.log) \in SubjectStates
<1> DEFINE x == OnRevoked(m, n.at, n.log)
           F == E \cup {n}
<1> SUFFICES SourceOrdered(x, F) /\ x \in SubjectStates
  OBVIOUS
<1>1. n.log.sig \in OrdinarySigs /\ Outcome(n.log) = "Revoked"
  BY DEF OrdinarySigs, Outcome, IssueSigs
<1>2. Decisions(F) = Decisions(E) /\ (DeniedBy(F) <=> DeniedBy(E))
  BY <1>1, OrdinaryKeepsDecision
<1>3. m \in SubjectStates /\ SourceOrdered(m, E)
  BY DEF Ready
<1>4. CASE ~Newer(n.at, m.cursor)
  <2>1. x = m
    BY <1>4 DEF OnRevoked, IsNewer
  <2>2. AtLatest(m.decision, Decisions(F))
    BY <1>2, <1>3 DEF SourceOrdered
  <2>3. SourceOrdered(m, F)
    BY <1>2, <1>4, <2>2, SkippedIsHarmless
  <2> QED
    BY <2>1, <2>3, <1>3
<1>5. CASE Newer(n.at, m.cursor)
  <2>1. m.cursor \in Coord /\ AtLatest(m.cursor, E)
    BY <1>3 DEF SubjectStates, SourceOrdered
  <2>2. AtLatest(n.at, F) /\ \A e \in F : Latest(F, e) <=> e = n
    BY <2>1, <1>5, AddNewer DEF Ready
  <2>3. m.permanentDenial <=> DeniedBy(F)
    BY <1>2, <1>3 DEF SourceOrdered, IsView, ViewOf
  <2>4. x = [m EXCEPT !.cursor = n.at,
                      !.status = IF m.permanentDenial THEN "Denied" ELSE "Revoked",
                      !.tombstone = TRUE,
                      !.latestOrdinary = "Revoked",
                      !.ordinaryIsIssuance = FALSE]
    BY <1>5, <1>3 DEF OnRevoked, IsNewer, Advance, SubjectStates
  <2> HIDE DEF x
  <2>5. /\ x.cursor = n.at /\ x.decision = m.decision
        /\ x.latestOrdinary = "Revoked"
        /\ x.status = IF m.permanentDenial THEN "Denied" ELSE "Revoked"
    BY <2>4, <1>3 DEF SubjectStates
  <2>6. x.permanentDenial = m.permanentDenial /\ x.tombstone = TRUE
    BY <2>4, <1>3 DEF SubjectStates
  <2>7. x \in SubjectStates
    BY <2>4, <1>3 DEF SubjectStates, Statuses, Ready
  <2>8. AtLatest(x.cursor, F) /\ AtLatest(x.decision, Decisions(F))
    BY <2>2, <2>5, <1>2, <1>3 DEF SourceOrdered
  <2>9. IsView(ViewOf(x), F)
    BY <2>2, <2>3, <2>5, <2>6, <1>1 DEF IsView, ViewOf
  <2> QED
    BY <2>2, <2>5, <2>7, <2>8, <2>9, <1>1 DEF SourceOrdered
<1> QED
  BY <1>4, <1>5

\* _onTombstone with a denial: it takes effect even when newer ordinary logs
\* were relayed first, and moves the ordinary cursor only forward.
LEMMA DenialKeepsOrder ==
  ASSUME NEW m, NEW E, NEW n, Ready(m, E, n), n.log.sig = "SanctionDenied"
  PROVE  /\ SourceOrdered(OnDenied(m, n.at, n.log), E \cup {n})
         /\ OnDenied(m, n.at, n.log) \in SubjectStates
<1> DEFINE x == OnDenied(m, n.at, n.log)
           F == E \cup {n}
<1> SUFFICES SourceOrdered(x, F) /\ x \in SubjectStates
  OBVIOUS
<1>1. n.log.sig \in DecisionSigs /\ n.log.sig \notin OrdinarySigs
  BY DEF OrdinarySigs, DecisionSigs, IssueSigs
<1>2. /\ m \in SubjectStates /\ SourceOrdered(m, E) /\ Distinct(E)
      /\ m.decision \in Coord /\ AtLatest(m.decision, Decisions(E))
      /\ m.cursor \in Coord /\ AtLatest(m.cursor, E)
      /\ n.at \in Coord /\ Newer(n.at, Origin)
      /\ \A e \in E : e.at # n.at
  BY DEF Ready, SubjectStates, SourceOrdered
<1>3. CASE ~Newer(n.at, m.decision)
  <2>1. x = m
    BY <1>3 DEF OnDenied
  <2>2. /\ AtLatest(m.decision, Decisions(F))
        /\ DeniedBy(F) <=> DeniedBy(E)
        /\ \E e \in E : Newer(e.at, n.at)
    BY <1>1, <1>2, <1>3, StaleDecisionIgnored
  <2>3. ~Newer(n.at, m.cursor)
    BY <2>2, <1>2, BelowTheTop
  <2>4. SourceOrdered(m, F)
    BY <2>2, <2>3, SkippedIsHarmless
  <2> QED
    BY <2>1, <2>4, <1>2
<1>4. CASE Newer(n.at, m.decision)
  <2>1. AtLatest(n.at, Decisions(F)) /\ DeniedBy(F)
    BY <1>1, <1>2, <1>4, NewDecisionDecides
  <2>2. x = [m EXCEPT !.decision = n.at,
                      !.permanentDenial = TRUE,
                      !.cursor = IF Newer(n.at, m.cursor) THEN n.at ELSE m.cursor,
                      !.tombstone = TRUE,
                      !.status = "Denied"]
    BY <1>4, <1>2 DEF OnDenied, IsNewer, SubjectStates
  <2> HIDE DEF x
  <2>3. /\ x.decision = n.at /\ x.status = "Denied"
        /\ x.cursor = IF Newer(n.at, m.cursor) THEN n.at ELSE m.cursor
        /\ x.latestOrdinary = m.latestOrdinary
        /\ x.credential = m.credential /\ x.keyEpoch = m.keyEpoch
    BY <2>2, <1>2 DEF SubjectStates
  <2>4. x.permanentDenial = TRUE /\ x.tombstone = TRUE
    BY <2>2, <1>2 DEF SubjectStates
  <2>5. x \in SubjectStates
    BY <2>2, <1>2 DEF SubjectStates, Statuses
  <2>6. CASE Newer(n.at, m.cursor)
    <3>1. AtLatest(n.at, F) /\ \A e \in F : Latest(F, e) <=> e = n
      BY <2>6, <1>2, AddNewer
    <3>2. IsView(ViewOf(x), F)
      BY <2>1, <2>3, <2>4 DEF IsView, ViewOf
    <3>3. \A e \in F : ~(Latest(F, e) /\ e.log.sig \in OrdinarySigs)
      BY <3>1, <1>1
    <3>4. x.cursor = n.at
      BY <2>3, <2>6
    <3> QED
      BY <3>1, <3>2, <3>3, <3>4, <2>1, <2>3, <2>5 DEF SourceOrdered
  <2>7. CASE ~Newer(n.at, m.cursor)
    <3>1. /\ AtLatest(m.cursor, F)
          /\ \A e \in F : Latest(F, e) <=> e \in E /\ Latest(E, e)
      BY <2>7, <1>2, AddStale
    <3>2. IsView(ViewOf(x), F)
      BY <2>1, <2>3, <2>4 DEF IsView, ViewOf
    <3>3. \A e \in F : Latest(F, e) /\ e.log.sig \in OrdinarySigs =>
            /\ x.latestOrdinary = Outcome(e.log)
            /\ x.latestOrdinary = "Active" =>
                 x.credential = Credential(e.log) /\ x.keyEpoch = KeyOf(e.log)
      BY <3>1, <2>3, <1>2 DEF SourceOrdered
    <3> QED
      BY <3>1, <3>2, <3>3, <2>1, <2>3, <2>5, <2>7 DEF SourceOrdered
  <2> QED
    BY <2>6, <2>7
<1> QED
  BY <1>3, <1>4

\* _onDenialCorrected: an ordinary log that follows the correction on the source
\* and was relayed first becomes visible; otherwise the holder is suspended.
LEMMA CorrectionKeepsOrder ==
  ASSUME NEW m, NEW E, NEW n, Ready(m, E, n), n.log.sig = "SanctionDenialCorrected"
  PROVE  /\ SourceOrdered(OnDenialCorrected(m, n.at, n.log), E \cup {n})
         /\ OnDenialCorrected(m, n.at, n.log) \in SubjectStates
<1> DEFINE x == OnDenialCorrected(m, n.at, n.log)
           F == E \cup {n}
<1> SUFFICES SourceOrdered(x, F) /\ x \in SubjectStates
  OBVIOUS
<1>1. /\ n.log.sig \in DecisionSigs /\ n.log.sig \notin OrdinarySigs
      /\ Outcome(n.log) = "Suspended"
  BY DEF OrdinarySigs, DecisionSigs, IssueSigs, Outcome
<1>2. /\ m \in SubjectStates /\ SourceOrdered(m, E) /\ Distinct(E)
      /\ m.decision \in Coord /\ AtLatest(m.decision, Decisions(E))
      /\ m.cursor \in Coord /\ AtLatest(m.cursor, E)
      /\ n.at \in Coord /\ Newer(n.at, Origin)
      /\ \A e \in E : e.at # n.at /\ e.log.sig \in LifecycleSigs
      /\ CorrectionFacts(n.log) \in Corrections
  BY DEF Ready, SubjectStates, SourceOrdered
<1>3. CASE ~Newer(n.at, m.decision)
  <2>1. x = m
    BY <1>3 DEF OnDenialCorrected
  <2>2. /\ AtLatest(m.decision, Decisions(F))
        /\ DeniedBy(F) <=> DeniedBy(E)
        /\ \E e \in E : Newer(e.at, n.at)
    BY <1>1, <1>2, <1>3, StaleDecisionIgnored
  <2>3. ~Newer(n.at, m.cursor)
    BY <2>2, <1>2, BelowTheTop
  <2>4. SourceOrdered(m, F)
    BY <2>2, <2>3, SkippedIsHarmless
  <2> QED
    BY <2>1, <2>4, <1>2
<1>4. CASE Newer(n.at, m.decision)
  <2>1. AtLatest(n.at, Decisions(F)) /\ ~DeniedBy(F)
    BY <1>1, <1>2, <1>4, NewDecisionDecides
  <2>2. CASE Newer(n.at, m.cursor)
    <3>1. AtLatest(n.at, F) /\ \A e \in F : Latest(F, e) <=> e = n
      BY <2>2, <1>2, AddNewer
    <3>2. x = [m EXCEPT !.decision = n.at,
                        !.permanentDenial = FALSE,
                        !.corrected = CorrectionFacts(n.log),
                        !.cursor = n.at,
                        !.tombstone = TRUE,
                        !.status = "Suspended"]
      BY <1>4, <2>2, <1>2 DEF OnDenialCorrected, IsNewer, SubjectStates
    <3> HIDE DEF x
    <3>3. x.decision = n.at /\ x.status = "Suspended" /\ x.cursor = n.at
      BY <3>2, <1>2 DEF SubjectStates
    <3>4. x.permanentDenial = FALSE /\ x.tombstone = TRUE
      BY <3>2, <1>2 DEF SubjectStates
    <3>5. x \in SubjectStates
      BY <3>2, <1>2 DEF SubjectStates, Statuses
    <3>6. IsView(ViewOf(x), F)
      BY <3>1, <3>3, <3>4, <2>1, <1>1 DEF IsView, ViewOf
    <3>7. \A e \in F : ~(Latest(F, e) /\ e.log.sig \in OrdinarySigs)
      BY <3>1, <1>1
    <3> QED
      BY <3>1, <3>3, <3>5, <3>6, <3>7, <2>1 DEF SourceOrdered
  <2>3. CASE ~Newer(n.at, m.cursor)
    <3> DEFINE visible == IF m.latestOrdinary = "Active" THEN "Active"
                          ELSE IF m.latestOrdinary = "Revoked" THEN "Revoked"
                          ELSE "Suspended"
    <3>1. /\ E # {} /\ Newer(m.cursor, n.at)
          /\ AtLatest(m.cursor, F)
          /\ \A e \in F : Latest(F, e) <=> e \in E /\ Latest(E, e)
      BY <2>3, <1>2, AddStale
    <3>2. x = [m EXCEPT !.decision = n.at,
                        !.permanentDenial = FALSE,
                        !.corrected = CorrectionFacts(n.log),
                        !.cursor = m.cursor,
                        !.tombstone = ~(m.latestOrdinary = "Active"),
                        !.status = visible]
      BY <1>4, <2>3, <1>2 DEF OnDenialCorrected, IsNewer, SubjectStates
    <3> HIDE DEF x
    <3>3. /\ x.decision = n.at /\ x.status = visible /\ x.cursor = m.cursor
          /\ x.latestOrdinary = m.latestOrdinary
          /\ x.credential = m.credential /\ x.keyEpoch = m.keyEpoch
      BY <3>2, <1>2 DEF SubjectStates
    <3>4. x.permanentDenial = FALSE /\ x.tombstone = (m.latestOrdinary # "Active")
      BY <3>2, <1>2 DEF SubjectStates
    <3>5. x \in SubjectStates
      BY <3>2, <1>2 DEF SubjectStates, Statuses
    \* The latest log is not a decision: the decision cursor would stand on it.
    <3>6. \A e \in E : Latest(E, e) =>
            /\ e.log.sig \in OrdinarySigs /\ e.at = m.cursor
            /\ Outcome(e.log) = visible /\ m.latestOrdinary = visible
            /\ visible = "Active" =>
                 m.credential = Credential(e.log) /\ m.keyEpoch = KeyOf(e.log)
      <4> SUFFICES ASSUME NEW e \in E, Latest(E, e)
                   PROVE  /\ e.log.sig \in OrdinarySigs /\ e.at = m.cursor
                          /\ Outcome(e.log) = visible /\ m.latestOrdinary = visible
                          /\ visible = "Active" =>
                               m.credential = Credential(e.log) /\ m.keyEpoch = KeyOf(e.log)
        OBVIOUS
      <4>1. e.at = m.cursor
        <5>1. PICK l \in E : l.at = m.cursor /\ Latest(E, l)
          BY <3>1, <1>2 DEF AtLatest
        <5> QED
          BY <5>1, <1>2, NewerStrictOrder DEF Latest, Distinct
      <4>2. e \notin Decisions(E)
        <5> SUFFICES ASSUME e \in Decisions(E)
                     PROVE  FALSE
          OBVIOUS
        <5>1. PICK d \in Decisions(E) : d.at = m.decision /\ Latest(Decisions(E), d)
          BY <1>2 DEF AtLatest
        <5>2. ~Newer(m.cursor, m.decision)
          BY <5>1, <4>1 DEF Latest
        <5> QED
          BY <5>2, <3>1, <1>2, <1>4, NewerStrictOrder
      <4>3. e.log.sig \in OrdinarySigs
        BY <4>2, <1>2 DEF Decisions, LifecycleSigs
      <4>4. /\ m.latestOrdinary = Outcome(e.log)
            /\ m.latestOrdinary = "Active" =>
                 m.credential = Credential(e.log) /\ m.keyEpoch = KeyOf(e.log)
        BY <4>3, <1>2 DEF SourceOrdered
      <4>5. Outcome(e.log) \in {"Active", "Revoked", "Suspended"}
        BY <4>3 DEF Outcome, OrdinarySigs, IssueSigs
      <4> QED
        BY <4>1, <4>3, <4>4, <4>5
    <3>7. IsView(ViewOf(x), F)
      <4>1. ViewOf(x).status = visible /\ ViewOf(x).denied = FALSE
            /\ ViewOf(x).blocked = (m.latestOrdinary # "Active")
            /\ ViewOf(x).credential = m.credential /\ ViewOf(x).keyEpoch = m.keyEpoch
            /\ ViewOf(x).height = m.cursor[1]
        BY <3>3, <3>4 DEF ViewOf
      <4>2. ViewOf(x).blocked <=> ViewOf(x).status \notin {"None", "Active"}
        BY <4>1
      <4>3. \A e \in F : Latest(F, e) =>
              /\ ViewOf(x).status = Outcome(e.log)
              /\ ViewOf(x).status = "Active" =>
                   /\ ViewOf(x).credential = Credential(e.log)
                   /\ ViewOf(x).keyEpoch = KeyOf(e.log)
                   /\ ViewOf(x).height = e.at[1]
        BY <4>1, <3>1, <3>6
      <4> HIDE DEF visible
      <4> QED
        BY <4>1, <4>2, <4>3, <3>1, <2>1 DEF IsView
    <3>8. \A e \in F : Latest(F, e) /\ e.log.sig \in OrdinarySigs =>
            /\ x.latestOrdinary = Outcome(e.log)
            /\ x.latestOrdinary = "Active" =>
                 x.credential = Credential(e.log) /\ x.keyEpoch = KeyOf(e.log)
      BY <3>1, <3>3, <1>2 DEF SourceOrdered
    <3> QED
      BY <3>1, <3>3, <3>5, <3>7, <3>8, <2>1 DEF SourceOrdered
  <2> QED
    BY <2>2, <2>3
<1> QED
  BY <1>3, <1>4

\* The dispatch: whatever lifecycle log arrives next, the holder's storage is what
\* source order makes of all logs that arrived.
THEOREM LifecycleKeepsOrder ==
  ASSUME NEW m, NEW E, NEW n, Ready(m, E, n)
  PROVE  /\ SourceOrdered(ApplyLifecycle(m, n.at, n.log), E \cup {n})
         /\ ApplyLifecycle(m, n.at, n.log) \in SubjectStates
<1>1. n.log.sig \in {"MarkIssued", "KeyedMarkIssued", "MarkRevoked", "SanctionDenied",
                     "SanctionDenialCorrected"}
  BY DEF Ready, LifecycleSigs, OrdinarySigs, IssueSigs, DecisionSigs
<1>2. CASE n.log.sig \in IssueSigs
  <2>1. ApplyLifecycle(m, n.at, n.log) = StoreIssuance(m, n.at, n.log, KeyOf(n.log))
    BY <1>2 DEF ApplyLifecycle, OnIssued, OnKeyedIssued, KeyOf, IssueSigs
  <2> QED
    BY <2>1, <1>2, IssuanceKeepsOrder
<1>3. CASE n.log.sig = "MarkRevoked"
  BY <1>3, RevocationKeepsOrder DEF ApplyLifecycle
<1>4. CASE n.log.sig = "SanctionDenied"
  BY <1>4, DenialKeepsOrder DEF ApplyLifecycle
<1>5. CASE n.log.sig = "SanctionDenialCorrected"
  BY <1>5, CorrectionKeepsOrder DEF ApplyLifecycle
<1> QED
  BY <1>1, <1>2, <1>3, <1>4, <1>5 DEF IssueSigs

-----------------------------------------------------------------------------
(***************************************************************************)
(* The entries of receipts.                                                *)
(***************************************************************************)

\* Walking one more log adds its entry, if it concerns the holder, and no other.
LEMMA WalkAddsEntry ==
  ASSUME NEW r, NEW n \in Nat, n >= 1, NEW s, NEW c
  PROVE  EntriesUpTo(r, n, s, c) =
           EntriesUpTo(r, n - 1, s, c) \cup
             (IF Concerns(r.logs[n], s, c) THEN {EntryOf(r, n)} ELSE {})
<1>1. 1 .. n = (1 .. (n - 1)) \cup {n}
  OBVIOUS
<1>2. {j \in 1 .. n : Concerns(r.logs[j], s, c)} =
        {j \in 1 .. (n - 1) : Concerns(r.logs[j], s, c)} \cup
          (IF Concerns(r.logs[n], s, c) THEN {n} ELSE {})
  BY <1>1
<1> QED
  BY <1>2 DEF EntriesUpTo

\* No entry precedes the first log.
LEMMA NothingWalked == \A r, s, c : EntriesUpTo(r, 0, s, c) = {}
<1>1. 1 .. 0 = {}
  OBVIOUS
<1> QED
  BY <1>1 DEF EntriesUpTo

\* Delivering a receipt adds all its entries.
LEMMA DeliveryAddsEntries ==
  ASSUME NEW R, NEW r, NEW s, NEW c
  PROVE  EntriesOf(R \cup {r}, s, c) = EntriesOf(R, s, c) \cup EntriesUpTo(r, Len(r.logs), s, c)
BY DEF EntriesOf

\* Nothing delivered, nothing known.
LEMMA NothingDelivered == \A s, c : EntriesOf({}, s, c) = {}
BY DEF EntriesOf

\* The entries of a receipt are logs of it at its height and index.
LEMMA EntryFacts ==
  ASSUME NEW r \in Receipts, NEW n \in Nat, n <= Len(r.logs), NEW s, NEW c,
         NEW e \in EntriesUpTo(r, n, s, c)
  PROVE  \E i \in 1 .. n :
           /\ e = EntryOf(r, i) /\ e.log = r.logs[i] /\ Concerns(e.log, s, c)
           /\ e.at = <<r.height, r.txIndex, i - 1>>
           /\ e.at \in Coord /\ Newer(e.at, Origin)
           /\ e.log.sig \in LifecycleSigs /\ LogTyped(e.log)
<1>1. PICK i \in 1 .. n : Concerns(r.logs[i], s, c) /\ e = EntryOf(r, i)
  BY DEF EntriesUpTo
<1>2. e.at = <<r.height, r.txIndex, i - 1>> /\ e.log = r.logs[i]
  BY <1>1 DEF EntryOf
<1>3. /\ r.height \in Nat /\ r.height > 0 /\ r.txIndex \in Nat
      /\ i \in DOMAIN r.logs /\ LogTyped(r.logs[i]) /\ i - 1 \in Nat
  BY ReceiptsAssumption
<1>4. e.at \in Coord /\ Newer(e.at, Origin)
  BY <1>2, <1>3 DEF Coord, Newer, Origin
<1> QED
  BY <1>1, <1>2, <1>3, <1>4 DEF Concerns

-----------------------------------------------------------------------------
(***************************************************************************)
(* Types.                                                                  *)
(***************************************************************************)

\* What an epoch log leaves in storage is well typed.
LEMMA EpochTyped ==
  ASSUME NEW st \in Stores, NEW r \in Receipts, NEW i \in DOMAIN r.logs,
         r.logs[i].sig = "RosterEpochPublished"
  PROVE  OnEpoch(st, r, r.logs[i]) \in Stores
<1> DEFINE L == r.logs[i]
           A == [p \in Epochs \X Issuers |->
                  IF p[1] = L.epoch /\ p[2] \in AuthorizedIssuers(r, L)
                    THEN ApprovalOf(r, L, p[2]) ELSE st.approval[p]]
<1>1. LogTyped(L) /\ r.height \in Nat
  BY ReceiptsAssumption
<1>2. L.epoch \in Epochs /\ RosterOf(L) \in Rosters /\ L.root \in Nat
  <2>1. L.epoch \in Epochs /\ RosterOf(L) \in Rosters
    BY <1>1 DEF LogTyped
  <2>2. RosterOf(L).root = L.root
    BY DEF RosterOf
  <2> QED
    BY <2>1, <2>2 DEF Rosters
<1>3. \A issuer : ApprovalOf(r, L, issuer) \in Approvals
  <2> SUFFICES ASSUME NEW issuer
               PROVE  ApprovalOf(r, L, issuer) \in Approvals
    OBVIOUS
  <2>1. CASE KeyAuthorizations(r, L, issuer) = {}
    BY <2>1, <1>1 DEF ApprovalOf, Approvals
  <2>2. CASE KeyAuthorizations(r, L, issuer) # {}
    <3> DEFINE j == CHOOSE k \in KeyAuthorizations(r, L, issuer) : TRUE
    <3>1. j \in KeyAuthorizations(r, L, issuer)
      BY <2>2
    <3> HIDE DEF j
    <3>2. r.logs[j].keyEpoch \in KeyEpochs \cup {0}
      BY <3>1, ReceiptsAssumption DEF KeyAuthorizations, LogTyped
    <3>3. ApprovalOf(r, L, issuer) =
            [approved |-> TRUE, keyEpoch |-> r.logs[j].keyEpoch, height |-> r.height]
      BY <2>2 DEF ApprovalOf, j
    <3> QED
      BY <3>2, <3>3, <1>1 DEF Approvals
  <2> QED
    BY <2>1, <2>2
<1>4. st.approval \in [Epochs \X Issuers -> Approvals]
  BY DEF Stores
<1>5. A \in [Epochs \X Issuers -> Approvals]
  BY <1>3, <1>4
<1>6. CASE L.epoch <= st.roster.epoch
  BY <1>6 DEF OnEpoch
<1>7. CASE ~(L.epoch <= st.roster.epoch)
  <2> DEFINE B == [st.roots EXCEPT ![L.epoch] = L.root]
             x == [st EXCEPT !.roster = RosterOf(L), !.roots = B, !.approval = A]
  <2>1. OnEpoch(st, r, L) = x
    BY <1>7 DEF OnEpoch
  <2>2. st.roots \in [Epochs -> Nat]
    BY DEF Stores
  <2>3. B \in [Epochs -> Nat]
    BY <2>2, <1>2
  <2> HIDE DEF A, B, L
  <2>4. x \in Stores
    BY <2>3, <1>2, <1>5 DEF Stores
  <2> HIDE DEF x
  <2> QED
    BY <2>1, <2>4 DEF L
<1> QED
  BY <1>6, <1>7

\* What a compromise declaration leaves in storage is well typed.
LEMMA KeyTyped ==
  ASSUME NEW st \in Stores, NEW r \in Receipts, NEW i \in DOMAIN r.logs,
         r.logs[i].sig = "IssuerKeyCompromised", ~KeyCompromiseReverts(r, r.logs[i])
  PROVE  OnKeyCompromised(st, r.logs[i]) \in Stores
<1> DEFINE L == r.logs[i]
<1>1. LogTyped(L)
  BY ReceiptsAssumption
<1>2. L.issuer \in Issuers /\ L.keyEpoch \in KeyEpochs /\ L.lastTrusted \in Nat
  BY <1>1 DEF LogTyped, KeyCompromiseReverts
<1> QED
  BY <1>2 DEF OnKeyCompromised, Stores

-----------------------------------------------------------------------------
(***************************************************************************)
(* The inductive invariant.  Beside types and source order of the working  *)
(* storage it says what a call may rely on: nothing is processed before    *)
(* the source is pinned, receipts processed come from the pinned chain and *)
(* have coordinates of their own, the receipt being walked is new, and the *)
(* storage a revert falls back to is in source order too.                  *)
(***************************************************************************)
CallDiscipline ==
  /\ contract = NoContract => processed = {} /\ Idle
  /\ Idle => work = store /\ next = 1
  /\ ~Idle => /\ running \notin processed
              /\ running.chainKey = chainKey
              /\ next <= Len(running.logs) + 1
  /\ \A r \in processed : r.chainKey = chainKey

OneReceiptPerCoordinate ==
  \A q, r \in attested :
    q.chainKey = r.chainKey /\ q.height = r.height /\ q.txIndex = r.txIndex => q = r

CommittedInOrder ==
  \A s \in Subjects : SourceOrdered(store.subject[s], EntriesOf(processed, s, contract))

IInv ==
  /\ TypeOK
  /\ CallDiscipline
  /\ OneReceiptPerCoordinate
  /\ CommittedInOrder
  /\ StorageFollowsSourceOrder

\* A fresh holder is in source order: no entries, no status.
LEMMA FreshInOrder == SourceOrdered(FreshSubject, {}) /\ FreshSubject \in SubjectStates
<1>1. FreshSubject \in SubjectStates
  BY DEF FreshSubject, SubjectStates, Statuses, Coord, Origin
<1>2. Decisions({}) = {} /\ ~DeniedBy({})
  BY DEF Decisions, DeniedBy
<1>3. IsView(ViewOf(FreshSubject), {})
  BY <1>2 DEF IsView, ViewOf, FreshSubject
<1>4. AtLatest(FreshSubject.cursor, {}) /\ AtLatest(FreshSubject.decision, {})
  BY DEF AtLatest, FreshSubject
<1> QED
  BY <1>1, <1>2, <1>3, <1>4 DEF SourceOrdered

\* The deployed contract satisfies the invariant.
LEMMA InitIInv == Init => IInv
<1> SUFFICES ASSUME Init
             PROVE  IInv
  OBVIOUS
<1>1. EmptyStore \in Stores /\ \A s \in Subjects : EmptyStore.subject[s] = FreshSubject
  <2>1. /\ NoRoster \in Rosters /\ NoApproval \in Approvals
        /\ NoCutoff \in [compromised : BOOLEAN, lastTrusted : Nat]
    BY DEF NoRoster, Rosters, NoApproval, Approvals, NoCutoff
  <2> QED
    BY <2>1, FreshInOrder DEF EmptyStore, Stores
<1>2. TypeOK
  <2>1. store \in Stores /\ work \in Stores
    BY <1>1 DEF Init
  <2>2. matched \in BOOLEAN
    BY DEF Init
  <2>3. /\ chainKey \in ChainKeys \cup {0} /\ contract \in Contracts \cup {NoContract}
        /\ attested \subseteq Receipts /\ processed \subseteq attested
        /\ running \in attested \cup {NoReceipt}
        /\ now \in Nat /\ action \in 0 .. 5 /\ next \in Nat \ {0}
    BY DEF Init
  <2> QED
    BY <2>1, <2>2, <2>3 DEF TypeOK
<1>3. CallDiscipline /\ OneReceiptPerCoordinate
  BY DEF Init, CallDiscipline, OneReceiptPerCoordinate, Idle
<1>4. \A s \in Subjects : EntriesOf(processed, s, contract) = {} /\ Applied(s) = {}
  BY NothingDelivered DEF Init, Applied, Idle
<1> QED
  BY <1>1, <1>2, <1>3, <1>4, FreshInOrder
     DEF Init, IInv, CommittedInOrder, StorageFollowsSourceOrder

\* The entries a call has walked so far are at coordinates of their own, and the
\* next log is at a new one.
LEMMA NextEntryIsNew ==
  ASSUME IInv, Walking, NEW s \in Subjects
  PROVE  /\ Distinct(Applied(s))
         /\ \A e \in Applied(s) :
              /\ e.log.sig \in LifecycleSigs
              /\ e.at # EntryOf(running, next).at
<1> USE DEF Walking
<1>1. /\ running \in Receipts /\ running \in attested /\ ~Idle
      /\ next \in Nat /\ next >= 1 /\ next - 1 \in Nat /\ next - 1 <= Len(running.logs)
      /\ Len(running.logs) \in Nat
  BY ReceiptsAssumption DEF IInv, TypeOK, Idle
<1>2. Applied(s) = EntriesOf(processed, s, contract) \cup EntriesUpTo(running, next - 1, s, contract)
  BY <1>1 DEF Applied
<1>3. \A e \in Applied(s) : \E r \in processed \cup {running}, i \in Nat \ {0} :
        /\ e = EntryOf(r, i) /\ e.log.sig \in LifecycleSigs
        /\ e.at = <<r.height, r.txIndex, i - 1>> /\ e.at \in Coord
        /\ r = running => i < next
  <2> SUFFICES ASSUME NEW e \in Applied(s)
               PROVE  \E r \in processed \cup {running}, i \in Nat \ {0} :
                        /\ e = EntryOf(r, i) /\ e.log.sig \in LifecycleSigs
                        /\ e.at = <<r.height, r.txIndex, i - 1>> /\ e.at \in Coord
                        /\ r = running => i < next
    OBVIOUS
  <2>1. CASE e \in EntriesUpTo(running, next - 1, s, contract)
    BY <2>1, <1>1, EntryFacts
  <2>2. CASE e \in EntriesOf(processed, s, contract)
    <3>1. PICK r \in processed : e \in EntriesUpTo(r, Len(r.logs), s, contract)
      BY <2>2 DEF EntriesOf
    <3>2. r \in Receipts /\ Len(r.logs) \in Nat /\ r # running
      BY <1>1, ReceiptsAssumption DEF IInv, TypeOK, CallDiscipline
    <3> QED
      BY <3>1, <3>2, EntryFacts
  <2> QED
    BY <1>2, <2>1, <2>2
<1>4. \A q, r \in processed \cup {running} :
        /\ q.height \in Nat /\ q.txIndex \in Nat
        /\ q.height = r.height /\ q.txIndex = r.txIndex => q = r
  <2>1. \A r \in processed \cup {running} : r \in attested /\ r \in Receipts /\ r.chainKey = chainKey
    BY <1>1 DEF IInv, TypeOK, CallDiscipline
  <2> QED
    BY <2>1, ReceiptsAssumption DEF IInv, OneReceiptPerCoordinate
<1>5. Distinct(Applied(s))
  <2> SUFFICES ASSUME NEW e \in Applied(s), NEW f \in Applied(s), e.at = f.at
               PROVE  e = f
    BY <1>3 DEF Distinct
  <2>1. PICK r \in processed \cup {running}, i \in Nat \ {0} :
          e = EntryOf(r, i) /\ e.at = <<r.height, r.txIndex, i - 1>>
    BY <1>3
  <2>2. PICK q \in processed \cup {running}, j \in Nat \ {0} :
          f = EntryOf(q, j) /\ f.at = <<q.height, q.txIndex, j - 1>>
    BY <1>3
  <2>3. r.height = q.height /\ r.txIndex = q.txIndex /\ i - 1 = j - 1
    BY <2>1, <2>2
  <2> QED
    BY <2>1, <2>2, <2>3, <1>4
<1>6. \A e \in Applied(s) : e.at # EntryOf(running, next).at
  <2> SUFFICES ASSUME NEW e \in Applied(s), e.at = EntryOf(running, next).at
               PROVE  FALSE
    OBVIOUS
  <2>1. PICK r \in processed \cup {running}, i \in Nat \ {0} :
          e.at = <<r.height, r.txIndex, i - 1>> /\ (r = running => i < next)
    BY <1>3
  <2>2. EntryOf(running, next).at = <<running.height, running.txIndex, next - 1>>
    BY DEF EntryOf
  <2>3. r.height = running.height /\ r.txIndex = running.txIndex /\ i - 1 = next - 1
    <3>1. <<r.height, r.txIndex, i - 1>> = <<running.height, running.txIndex, next - 1>>
      BY <2>1, <2>2, Zenon
    <3> HIDE DEF Walking
    <3> QED
      BY <3>1, SMT
  <2> QED
    BY <2>1, <2>3, <1>1, <1>4
<1> QED
  BY <1>3, <1>5, <1>6

\* What one walked log does to the storage of a holder.
LEMMA ApplyLogEffect ==
  ASSUME NEW st \in Stores, NEW r \in Receipts, NEW i \in DOMAIN r.logs,
         ~LogReverts(st, r, r.logs[i]),
         \A s \in Subjects : Concerns(r.logs[i], s, contract) =>
           ApplyLifecycle(st.subject[s], EntryOf(r, i).at, r.logs[i]) \in SubjectStates
  PROVE  /\ ApplyLog(st, r, i) \in Stores
         /\ \A s \in Subjects : ApplyLog(st, r, i).subject[s] =
              IF Concerns(r.logs[i], s, contract)
                THEN ApplyLifecycle(st.subject[s], EntryOf(r, i).at, r.logs[i])
                ELSE st.subject[s]
<1> DEFINE L == r.logs[i]
           at == EntryOf(r, i).at
<1>1. LogTyped(L)
  BY ReceiptsAssumption
<1>2. CASE ~Trusted(L)
  BY <1>2 DEF ApplyLog, Trusted, Concerns
<1>3. CASE Trusted(L) /\ L.sig \in LifecycleSigs
  <2>1. L.subject \in Subjects /\ Concerns(L, L.subject, contract)
    BY <1>1, <1>3 DEF LogTyped, Concerns, Trusted
  <2> DEFINE x == ApplyLifecycle(st.subject[L.subject], at, L)
             f == [st.subject EXCEPT ![L.subject] = x]
  <2>2. ApplyLog(st, r, i) = [st EXCEPT !.subject = f]
    BY <1>3 DEF ApplyLog
  <2>3. x \in SubjectStates /\ st.subject \in [Subjects -> SubjectStates]
    BY <2>1 DEF Stores
  <2> HIDE DEF x
  <2>4. /\ f \in [Subjects -> SubjectStates]
        /\ \A s \in Subjects : f[s] = IF s = L.subject THEN x ELSE st.subject[s]
    BY <2>1, <2>3
  <2>5. \A s \in Subjects : Concerns(L, s, contract) <=> s = L.subject
    BY <2>1 DEF Concerns
  <2> HIDE DEF f
  <2>6. [st EXCEPT !.subject = f] \in Stores /\ [st EXCEPT !.subject = f].subject = f
    BY <2>4 DEF Stores
  <2> QED
    BY <2>2, <2>4, <2>5, <2>6 DEF x
<1>4. CASE Trusted(L) /\ L.sig = "RosterEpochPublished"
  <2>1. ApplyLog(st, r, i) = OnEpoch(st, r, L) /\ \A s : ~Concerns(L, s, contract)
    BY <1>4 DEF ApplyLog, Concerns, LifecycleSigs, OrdinarySigs, IssueSigs, DecisionSigs
  <2>2. OnEpoch(st, r, L).subject = st.subject
    BY DEF OnEpoch, Stores
  <2> QED
    BY <2>1, <2>2, <1>4, EpochTyped
<1>5. CASE Trusted(L) /\ L.sig = "IssuerKeyCompromised"
  <2>1. ApplyLog(st, r, i) = OnKeyCompromised(st, L) /\ \A s : ~Concerns(L, s, contract)
    BY <1>5 DEF ApplyLog, Concerns, LifecycleSigs, OrdinarySigs, IssueSigs, DecisionSigs
  <2>2. OnKeyCompromised(st, L).subject = st.subject
    BY DEF OnKeyCompromised, Stores
  <2>3. ~KeyCompromiseReverts(r, L)
    BY <1>5 DEF LogReverts
  <2> QED
    BY <2>1, <2>2, <2>3, <1>5, KeyTyped
<1>6. CASE /\ Trusted(L) /\ L.sig \notin LifecycleSigs
           /\ L.sig # "RosterEpochPublished" /\ L.sig # "IssuerKeyCompromised"
  BY <1>6 DEF ApplyLog, Concerns
<1> QED
  BY <1>2, <1>3, <1>4, <1>5, <1>6

\* One more log walked: every holder stays in source order.
LEMMA WalkKeepsOrder ==
  ASSUME IInv, WalkLog
  PROVE  work' \in Stores /\ StorageFollowsSourceOrder'
<1>1. /\ running \in Receipts /\ next \in DOMAIN running.logs /\ ~Idle /\ Walking
      /\ next \in Nat /\ next >= 1 /\ work \in Stores
      /\ ~LogReverts(work, running, running.logs[next])
      /\ work' = ApplyLog(work, running, next) /\ next' = next + 1
      /\ running' = running /\ processed' = processed /\ contract' = contract
  BY ReceiptsAssumption DEF WalkLog, Walking, IInv, TypeOK, Idle, config
<1> DEFINE n == EntryOf(running, next)
           L == running.logs[next]
<1>2. /\ n.log = L /\ n.at = <<running.height, running.txIndex, next - 1>>
      /\ n.at \in Coord /\ Newer(n.at, Origin) /\ LogTyped(L)
  <2>1. n.log = L /\ n.at = <<running.height, running.txIndex, next - 1>>
    BY DEF EntryOf
  <2>2. LogTyped(L) /\ running.height \in Nat /\ running.height > 0 /\ running.txIndex \in Nat
    BY <1>1, ReceiptsAssumption
  <2> QED
    BY <2>1, <2>2, <1>1 DEF Coord, Newer, Origin
<1>3. \A s \in Subjects : Applied(s)' =
        IF Concerns(L, s, contract) THEN Applied(s) \cup {n} ELSE Applied(s)
  <2> SUFFICES ASSUME NEW s \in Subjects
               PROVE  Applied(s)' =
                        IF Concerns(L, s, contract) THEN Applied(s) \cup {n} ELSE Applied(s)
    OBVIOUS
  <2>1. Applied(s) = EntriesOf(processed, s, contract) \cup EntriesUpTo(running, next - 1, s, contract)
    BY <1>1 DEF Applied
  <2>2. Applied(s)' = EntriesOf(processed, s, contract) \cup EntriesUpTo(running, next, s, contract)
    <3>1. (next + 1) - 1 = next
      BY <1>1
    <3> QED
      BY <1>1, <3>1 DEF Applied, Idle
  <2>3. EntriesUpTo(running, next, s, contract) =
          EntriesUpTo(running, next - 1, s, contract) \cup
            (IF Concerns(L, s, contract) THEN {n} ELSE {})
    BY <1>1, WalkAddsEntry
  <2> QED
    BY <2>1, <2>2, <2>3
<1>4. \A s \in Subjects : Concerns(L, s, contract) => Ready(work.subject[s], Applied(s), n)
  <2> SUFFICES ASSUME NEW s \in Subjects, Concerns(L, s, contract)
               PROVE  Ready(work.subject[s], Applied(s), n)
    OBVIOUS
  <2>1. work.subject[s] \in SubjectStates
    BY <1>1 DEF Stores
  <2>2. SourceOrdered(work.subject[s], Applied(s))
    BY DEF IInv, StorageFollowsSourceOrder
  <2>3. /\ Distinct(Applied(s))
        /\ \A e \in Applied(s) : e.log.sig \in LifecycleSigs /\ e.at # n.at
    BY <1>1, NextEntryIsNew
  <2>4. /\ L.sig \in LifecycleSigs
        /\ L.sig \in IssueSigs => Credential(L) \in Credentials
        /\ KeyOf(L) \in KeyEpochs \cup {0}
        /\ L.sig = "SanctionDenialCorrected" => CorrectionFacts(L) \in Corrections
    BY <1>2 DEF LogTyped, Concerns, KeyOf
  <2> HIDE DEF n, L
  <2> QED
    BY <2>1, <2>2, <2>3, <2>4, <1>2 DEF Ready
<1>5. \A s \in Subjects : Concerns(L, s, contract) =>
        /\ SourceOrdered(ApplyLifecycle(work.subject[s], n.at, L), Applied(s) \cup {n})
        /\ ApplyLifecycle(work.subject[s], n.at, L) \in SubjectStates
  BY <1>2, <1>4, LifecycleKeepsOrder
<1>6. /\ work' \in Stores
      /\ \A s \in Subjects : work'.subject[s] =
           IF Concerns(L, s, contract) THEN ApplyLifecycle(work.subject[s], n.at, L)
           ELSE work.subject[s]
  BY <1>1, <1>5, ApplyLogEffect
<1>7. \A s \in Subjects : SourceOrdered(work'.subject[s], Applied(s)')
  BY <1>3, <1>5, <1>6 DEF IInv, StorageFollowsSourceOrder
<1> QED
  BY <1>6, <1>7 DEF StorageFollowsSourceOrder

\* Between calls a step that leaves the storages, the processed receipts and the
\* pinned contract alone keeps source order.
LEMMA QuietKeepsOrder ==
  ASSUME IInv, Idle, UNCHANGED <<contract, processed, store, work, next>>,
         Idle' \/ next' = 1
  PROVE  CommittedInOrder' /\ StorageFollowsSourceOrder'
<1>1. next = 1
  BY DEF IInv, CallDiscipline
<1>2. \A s \in Subjects : Applied(s)' = Applied(s)
  BY <1>1, NothingWalked DEF Applied
<1>3. \A s \in Subjects : EntriesOf(processed, s, contract)' = EntriesOf(processed, s, contract)
  OBVIOUS
<1> QED
  BY <1>2, <1>3 DEF IInv, CommittedInOrder, StorageFollowsSourceOrder

\* Every step keeps the invariant.
LEMMA StepIInv == IInv /\ [Next]_vars => IInv'
<1> SUFFICES ASSUME IInv, [Next]_vars
             PROVE  IInv'
  OBVIOUS
<1> USE DEF IInv
<1>1. ASSUME NEW k \in ChainKeys, NEW c \in Contracts, ConfigureSource(k, c)
      PROVE  IInv'
  <2> USE <1>1 DEF ConfigureSource, call
  <2>1. TypeOK'
    BY DEF TypeOK
  <2>2. contract = NoContract /\ processed = {} /\ Idle /\ next = 1 /\ work = store
    BY DEF CallDiscipline
  <2>3. CallDiscipline' /\ OneReceiptPerCoordinate'
    BY <2>2, ContractsAssumption DEF CallDiscipline, OneReceiptPerCoordinate, Idle
  <2>4. \A s \in Subjects : /\ EntriesOf(processed, s, contract)' = EntriesOf(processed, s, contract)
                            /\ Applied(s)' = Applied(s)
    BY <2>2, NothingDelivered DEF Applied, Idle
  <2>5. CommittedInOrder' /\ StorageFollowsSourceOrder'
    BY <2>4 DEF CommittedInOrder, StorageFollowsSourceOrder
  <2> QED
    BY <2>1, <2>3, <2>5
<1>2. ASSUME NEW r \in Receipts, Attest(r)
      PROVE  IInv'
  <2> USE <1>2 DEF Attest, call, config
  <2>1. TypeOK'
    BY DEF TypeOK
  <2>2. CallDiscipline'
    BY DEF CallDiscipline, Idle
  <2>3. OneReceiptPerCoordinate'
    <3> SUFFICES ASSUME NEW p \in attested', NEW q \in attested', p.chainKey = q.chainKey,
                        p.height = q.height, p.txIndex = q.txIndex
                 PROVE  p = q
      BY DEF OneReceiptPerCoordinate
    <3>1. \A x \in attested : x.chainKey = r.chainKey =>
            ~(x.height = r.height /\ x.txIndex = r.txIndex)
      BY ReceiptsAssumption DEF Newer, TypeOK
    <3>2. p \in attested \cup {r} /\ q \in attested \cup {r}
      OBVIOUS
    <3> QED
      BY <3>1, <3>2 DEF OneReceiptPerCoordinate
  <2>4. CommittedInOrder' /\ StorageFollowsSourceOrder'
    BY QuietKeepsOrder DEF Idle
  <2> QED
    BY <2>1, <2>2, <2>3, <2>4
<1>3. CASE Tick
  <2> USE <1>3 DEF Tick, call, config
  <2>1. TypeOK'
    BY DEF TypeOK
  <2>2. CallDiscipline' /\ OneReceiptPerCoordinate'
    BY DEF CallDiscipline, OneReceiptPerCoordinate, Idle
  <2>3. CommittedInOrder' /\ StorageFollowsSourceOrder'
    BY QuietKeepsOrder DEF Idle
  <2> QED
    BY <2>1, <2>2, <2>3
<1>4. ASSUME NEW r \in attested, NEW a \in 0 .. 5, Execute(r, a)
      PROVE  IInv'
  <2> USE <1>4 DEF Execute, config
  <2>1. TypeOK'
    BY DEF TypeOK
  <2>2. /\ r \in Receipts /\ r # NoReceipt /\ r \notin processed /\ next = 1
        /\ Len(r.logs) \in Nat
    BY NoReceiptAssumption, ReceiptsAssumption DEF TypeOK, CallDiscipline
  <2>3. CallDiscipline'
    BY <2>2 DEF CallDiscipline, Idle
  <2>4. OneReceiptPerCoordinate'
    BY DEF OneReceiptPerCoordinate
  <2>5. CommittedInOrder' /\ StorageFollowsSourceOrder'
    BY <2>2, QuietKeepsOrder
  <2> QED
    BY <2>1, <2>3, <2>4, <2>5
<1>5. CASE WalkLog
  <2>1. work' \in Stores /\ StorageFollowsSourceOrder'
    BY <1>5, WalkKeepsOrder
  <2>2. /\ Walking /\ next' = next + 1 /\ matched' \in BOOLEAN
        /\ UNCHANGED <<chainKey, contract, attested, now, processed, store, running, action>>
    BY <1>5 DEF WalkLog, config
  <2>3. next \in Nat \ {0} /\ next <= Len(running.logs) /\ Len(running.logs) \in Nat /\ ~Idle
    BY <2>2, ReceiptsAssumption DEF Walking, TypeOK, Idle
  <2>4. TypeOK'
    BY <2>1, <2>2, <2>3 DEF TypeOK
  <2>5. CallDiscipline' /\ OneReceiptPerCoordinate' /\ CommittedInOrder'
    BY <2>2, <2>3 DEF CallDiscipline, OneReceiptPerCoordinate, CommittedInOrder, Idle
  <2> QED
    BY <2>1, <2>4, <2>5
<1>6. CASE Revert
  <2> USE <1>6 DEF Revert, EndCall, config
  <2>1. TypeOK'
    <3>1. matched' \in BOOLEAN
      OBVIOUS
    <3>2. /\ attested' = attested /\ processed' = processed /\ store' = store /\ work' = store
          /\ chainKey' = chainKey /\ contract' = contract /\ now' = now
          /\ running' = NoReceipt /\ action' = 0 /\ next' = 1
      OBVIOUS
    <3> HIDE <1>6
    <3> QED
      BY <3>1, <3>2 DEF TypeOK
  <2>2. CallDiscipline' /\ OneReceiptPerCoordinate' /\ CommittedInOrder'
    BY DEF CallDiscipline, OneReceiptPerCoordinate, CommittedInOrder, Idle, Walking
  <2>3. \A s \in Subjects : Applied(s)' = EntriesOf(processed, s, contract)
    BY DEF Applied, Idle
  <2>4. StorageFollowsSourceOrder'
    BY <2>3 DEF StorageFollowsSourceOrder, CommittedInOrder
  <2> QED
    BY <2>1, <2>2, <2>4
<1>7. CASE Commit
  <2> USE <1>7 DEF Commit, EndCall, config
  <2>1. /\ ~Idle /\ ~Walking /\ running \in attested /\ running \in Receipts
        /\ running.chainKey = chainKey
        /\ next \in Nat \ {0} /\ Len(running.logs) \in Nat
        /\ next - 1 = Len(running.logs)
    BY ReceiptsAssumption DEF TypeOK, CallDiscipline, Walking, Idle
  <2>2. TypeOK'
    <3>1. matched' \in BOOLEAN
      OBVIOUS
    <3>2. /\ attested' = attested /\ processed' = processed \cup {running}
          /\ store' = work /\ work' = work
          /\ chainKey' = chainKey /\ contract' = contract /\ now' = now
          /\ running' = NoReceipt /\ action' = 0 /\ next' = 1
      OBVIOUS
    <3> HIDE <1>7
    <3> QED
      BY <2>1, <3>1, <3>2 DEF TypeOK
  <2>3. CallDiscipline' /\ OneReceiptPerCoordinate'
    BY <2>1 DEF CallDiscipline, OneReceiptPerCoordinate, Idle
  <2>4. \A s \in Subjects : /\ EntriesOf(processed', s, contract) = Applied(s)
                            /\ Applied(s)' = Applied(s)
    <3>1. \A s \in Subjects : EntriesOf(processed', s, contract) =
            EntriesOf(processed, s, contract) \cup EntriesUpTo(running, Len(running.logs), s, contract)
      BY DeliveryAddsEntries
    <3>2. \A s \in Subjects : Applied(s) = EntriesOf(processed', s, contract)
      BY <3>1, <2>1 DEF Applied
    <3> QED
      BY <3>2 DEF Applied, Idle
  <2>5. CommittedInOrder' /\ StorageFollowsSourceOrder'
    BY <2>4 DEF CommittedInOrder, StorageFollowsSourceOrder
  <2> QED
    BY <2>2, <2>3, <2>5
<1>8. CASE UNCHANGED vars
  <2> USE <1>8 DEF vars
  <2>1. TypeOK' /\ CallDiscipline' /\ OneReceiptPerCoordinate' /\ CommittedInOrder'
    BY DEF TypeOK, CallDiscipline, OneReceiptPerCoordinate, CommittedInOrder, Idle
  <2>2. \A s \in Subjects : Applied(s)' = Applied(s)
    BY DEF Applied, Idle
  <2> QED
    BY <2>1, <2>2 DEF StorageFollowsSourceOrder
<1> QED
  BY <1>1, <1>2, <1>3, <1>4, <1>5, <1>6, <1>7, <1>8 DEF Next

\* The invariant holds in every state.
THEOREM Invariant == Spec => []IInv
<1> QED
  BY InitIInv, StepIInv, PTL DEF Spec

\* Types are kept by every call, handler and revert.
THEOREM TypeCorrect == Spec => []TypeOK
<1>1. IInv => TypeOK
  BY DEF IInv
<1> QED
  BY Invariant, <1>1, PTL

\* Whatever the order, repetition and failure of execute calls, for any number of
\* receipts, holders and keys, the storage follows source order.
THEOREM SourceOrderTheorem == Spec => []StorageFollowsSourceOrder
<1>1. IInv => StorageFollowsSourceOrder
  BY DEF IInv
<1> QED
  BY Invariant, <1>1, PTL

-----------------------------------------------------------------------------
(***************************************************************************)
(* Refinement.                                                             *)
(***************************************************************************)

\* The ledger's vocabulary is the hub's.
LEMMA SameVocabulary ==
  /\ \A R, s, c : Ledger!EntriesOf(R, s, c) = EntriesOf(R, s, c)
  /\ \A v, E : Ledger!IsView(v, E) <=> IsView(v, E)
<1>1. ASSUME NEW R, NEW s, NEW c
      PROVE  Ledger!EntriesOf(R, s, c) = EntriesOf(R, s, c)
  BY Zenon DEF EntriesOf, EntriesUpTo, EntryOf, Concerns, LifecycleSigs, OrdinarySigs, IssueSigs,
     DecisionSigs, Ledger!EntriesOf, Ledger!EntriesUpTo, Ledger!EntryOf, Ledger!Concerns,
     Ledger!LifecycleSigs, Ledger!OrdinarySigs, Ledger!IssueSigs, Ledger!DecisionSigs
<1>2. ASSUME NEW v, NEW E
      PROVE  Ledger!IsView(v, E) <=> IsView(v, E)
  BY Zenon DEF IsView, DeniedBy, Decisions, Latest, Newer, Outcome, Credential, KeyOf, IssueSigs,
     DecisionSigs, Ledger!IsView, Ledger!DeniedBy, Ledger!Decisions, Ledger!Latest,
     Ledger!Newer, Ledger!Outcome, Ledger!Credential, Ledger!KeyOf, Ledger!IssueSigs,
     Ledger!DecisionSigs
<1> QED
  BY <1>1, <1>2

\* The hub implements the ledger: what it shows is a function of the set of
\* receipts delivered, and a receipt takes effect as a whole or not at all.
THEOREM LedgerRefinement == Spec => ImplementsLedger
<1> DEFINE view == [s \in Subjects |-> ViewOf(store.subject[s])]
<1>1. Init => Ledger!Init
  <2> SUFFICES ASSUME Init
               PROVE  Ledger!Init
    OBVIOUS
  <2>1. \A s \in Subjects : view[s] = ViewOf(FreshSubject)
    BY DEF Init, EmptyStore
  <2>2. \A s \in Subjects : IsView(view[s], EntriesOf({}, s, NoContract))
    BY <2>1, NothingDelivered, FreshInOrder DEF SourceOrdered
  <2> QED
    BY <2>2, SameVocabulary DEF Init, Ledger!Init, Ledger!ViewsAgree
<1>2. IInv /\ IInv' /\ [Next]_vars => [Ledger!Next]_(Ledger!ledgerVars)
  <2> SUFFICES ASSUME IInv, IInv', [Next]_vars
               PROVE  [Ledger!Next]_(Ledger!ledgerVars)
    OBVIOUS
  <2>1. ASSUME NEW k \in ChainKeys, NEW c \in Contracts, ConfigureSource(k, c)
        PROVE  Ledger!Next
    BY <2>1, ContractsAssumption DEF ConfigureSource, Ledger!Next, Ledger!Pin
  <2>2. CASE Commit
    <3>1. /\ running \in processed' /\ running \notin processed /\ contract # NoContract
          /\ processed' = processed \cup {running} /\ contract' = contract
      BY <2>2 DEF Commit, IInv, CallDiscipline, config
    <3>2. \A s \in Subjects : IsView(view'[s], EntriesOf(processed', s, contract))
      BY <3>1 DEF IInv, CommittedInOrder, SourceOrdered
    <3>3. Ledger!Deliver(running)
      BY <3>1, <3>2, SameVocabulary DEF Ledger!Deliver, Ledger!ViewsAgree
    <3> QED
      BY <3>1, <3>3 DEF Ledger!Next
  <2>3. CASE UNCHANGED <<contract, processed, store>>
    BY <2>3 DEF Ledger!ledgerVars
  <2>4. \/ \E k \in ChainKeys, c \in Contracts : ConfigureSource(k, c)
        \/ Commit
        \/ UNCHANGED <<contract, processed, store>>
    BY DEF Next, Attest, Tick, Execute, WalkLog, Revert, vars, config, call
  <2> QED
    BY <2>1, <2>2, <2>3, <2>4
<1> QED
  BY Invariant, <1>1, <1>2, PTL DEF Spec, ImplementsLedger, Ledger!Spec

\* Entries of receipts at different coordinates are at different coordinates.
LEMMA DeliveredDistinct ==
  ASSUME NEW P \in SUBSET Receipts, NEW c, NEW s \in Subjects,
         \A q, r \in P : q.height = r.height /\ q.txIndex = r.txIndex => q = r
  PROVE  Distinct(EntriesOf(P, s, c))
<1> DEFINE E == EntriesOf(P, s, c)
<1>1. \A r \in P : r \in Receipts /\ Len(r.logs) \in Nat
  BY ReceiptsAssumption
<1>2. \A e \in E : \E r \in P, i \in Nat \ {0} :
        e = EntryOf(r, i) /\ e.at = <<r.height, r.txIndex, i - 1>> /\ e.at \in Coord
  <2> SUFFICES ASSUME NEW e \in E
               PROVE  \E r \in P, i \in Nat \ {0} :
                        /\ e = EntryOf(r, i) /\ e.at = <<r.height, r.txIndex, i - 1>>
                        /\ e.at \in Coord
    OBVIOUS
  <2>1. PICK r \in P : e \in EntriesUpTo(r, Len(r.logs), s, c)
    BY DEF EntriesOf
  <2> QED
    BY <2>1, <1>1, EntryFacts
<1> HIDE DEF E
<1>4. ASSUME NEW e \in E, NEW f \in E, e.at = f.at
      PROVE  e = f
  <2>1. PICK r \in P, i \in Nat \ {0} :
          e = EntryOf(r, i) /\ e.at = <<r.height, r.txIndex, i - 1>>
    BY <1>2
  <2>2. PICK q \in P, j \in Nat \ {0} :
          f = EntryOf(q, j) /\ f.at = <<q.height, q.txIndex, j - 1>>
    BY <1>2
  <2>3. r.height = q.height /\ r.txIndex = q.txIndex /\ i - 1 = j - 1
    BY <2>1, <2>2, <1>4
  <2> QED
    BY <2>1, <2>2, <2>3
<1>5. Distinct(E)
  BY <1>2, <1>4 DEF Distinct
<1> QED
  BY <1>5 DEF E

\* A committed denial is lifted only by a newer governed correction.
THEOREM DenialIsHeld == Spec => DenialLiftedOnlyByCorrection
<1> DEFINE Held == \A s \in Subjects :
       store.subject[s].permanentDenial /\ ~store'.subject[s].permanentDenial =>
         \E c \in EntriesOf({running}, s, contract) :
            /\ c.log.sig = "SanctionDenialCorrected"
            /\ \A d \in EntriesOf(processed', s, contract) :
                 d.log.sig = "SanctionDenied" => Newer(c.at, d.at)
<1>1. IInv /\ IInv' /\ [Next]_vars => [Held]_vars
  <2> SUFFICES ASSUME IInv, IInv', [Next]_vars, NEW s \in Subjects,
                      store.subject[s].permanentDenial, ~store'.subject[s].permanentDenial
               PROVE  \E c \in EntriesOf({running}, s, contract) :
                         /\ c.log.sig = "SanctionDenialCorrected"
                         /\ \A d \in EntriesOf(processed', s, contract) :
                              d.log.sig = "SanctionDenied" => Newer(c.at, d.at)
    OBVIOUS
  <2>1. Commit
    <3>1. store' # store
      OBVIOUS
    <3> QED
      BY <3>1 DEF Next, ConfigureSource, Attest, Tick, Execute, WalkLog, Revert, vars
  <2>2. processed' = processed \cup {running} /\ contract' = contract
    BY <2>1 DEF Commit, config
  <2> DEFINE E == EntriesOf(processed, s, contract)
             U == EntriesOf({running}, s, contract)
             F == EntriesOf(processed', s, contract)
  <2>3. F = E \cup U
    BY <2>2 DEF EntriesOf
  <2>4. Distinct(E) /\ Distinct(F)
    <3>1. processed \in SUBSET Receipts /\ processed' \in SUBSET Receipts
      BY DEF IInv, TypeOK
    <3>2. \A q, r \in processed : q.height = r.height /\ q.txIndex = r.txIndex => q = r
      BY DEF IInv, TypeOK, OneReceiptPerCoordinate, CallDiscipline
    <3>3. \A q, r \in processed' : q.height = r.height /\ q.txIndex = r.txIndex => q = r
      BY DEF IInv, TypeOK, OneReceiptPerCoordinate, CallDiscipline
    <3> QED
      BY <3>1, <3>2, <3>3, DeliveredDistinct
  <2>5. DeniedBy(E) /\ ~DeniedBy(F) /\ AtLatest(store'.subject[s].decision, Decisions(F))
    BY <2>2 DEF IInv, CommittedInOrder, SourceOrdered, IsView, ViewOf
  <2> HIDE DEF E, F, U
  <2>6. PICK d \in E : Latest(Decisions(E), d) /\ d.log.sig = "SanctionDenied"
    BY <2>5 DEF DeniedBy
  <2>7. PICK c \in Decisions(F) : Latest(Decisions(F), c)
    <3>1. d \in Decisions(F)
      BY <2>3, <2>6 DEF Decisions, DecisionSigs
    <3> QED
      BY <3>1, <2>5 DEF AtLatest
  <2>8. c \in F /\ c.log.sig = "SanctionDenialCorrected"
    BY <2>5, <2>7 DEF Decisions, DecisionSigs, DeniedBy
  <2>9. c \in U
    <3> SUFFICES ASSUME c \in E
                 PROVE  FALSE
      BY <2>3, <2>8
    <3>1. c \in Decisions(E) /\ d \in Decisions(F) /\ d \in F
      BY <2>3, <2>6, <2>8 DEF Decisions, DecisionSigs
    <3>2. ~Newer(d.at, c.at) /\ ~Newer(c.at, d.at)
      BY <3>1, <2>6, <2>7 DEF Latest
    <3>3. c.at = d.at
      BY <3>1, <3>2, <2>4, <2>8, NewerStrictOrder DEF Distinct
    <3>4. c = d
      BY <3>1, <3>3, <2>4, <2>8 DEF Distinct
    <3> QED
      BY <3>4, <2>6, <2>8
  <2>10. \A x \in F : x.log.sig = "SanctionDenied" => Newer(c.at, x.at)
    <3> SUFFICES ASSUME NEW x \in F, x.log.sig = "SanctionDenied"
                 PROVE  Newer(c.at, x.at)
      OBVIOUS
    <3>1. x \in Decisions(F)
      BY DEF Decisions, DecisionSigs
    <3>2. ~Newer(x.at, c.at) /\ x.at # c.at
      BY <3>1, <2>4, <2>7, <2>8 DEF Latest, Distinct
    <3> QED
      BY <3>2, <2>4, <2>8, NewerStrictOrder DEF Distinct
  <2> QED
    BY <2>8, <2>9, <2>10 DEF F, U
<1> QED
  BY Invariant, <1>1, PTL DEF Spec, DenialLiftedOnlyByCorrection

-----------------------------------------------------------------------------
(***************************************************************************)
(* Rosters and keys.  Their storage is read off the set P of positions     *)
(* <<receipt, index>> whose log has been walked.                           *)
(***************************************************************************)
Walked(sig) ==
  TrustedLogs(processed, sig) \cup
    (IF Idle THEN {}
     ELSE {<<running, i>> : i \in {j \in 1 .. (next - 1) : /\ Trusted(running.logs[j])
                                                            /\ running.logs[j].sig = sig}})

\* The window, the root and the approvals of st are those of the newest epoch of
\* P, older roots are of epochs of P, and no later epoch has left anything.
RosterFollows(st, P) ==
  /\ st.roster.epoch # 0 => \E p \in P : p[1].logs[p[2]].epoch = st.roster.epoch
  /\ \A p \in P :
       LET L == p[1].logs[p[2]] IN
       /\ L.epoch <= st.roster.epoch
       /\ L.epoch = st.roster.epoch =>
            /\ st.roster = RosterOf(L)
            /\ \A i \in Issuers :
                 st.approval[<<L.epoch, i>>] =
                   IF i \in AuthorizedIssuers(p[1], L) THEN ApprovalOf(p[1], L, i)
                   ELSE NoApproval
  /\ \A e \in Epochs : st.roots[e] # 0 =>
       \E p \in P : p[1].logs[p[2]].epoch = e /\ p[1].logs[p[2]].root = st.roots[e]
  /\ \A e \in Epochs, i \in Issuers :
       e > st.roster.epoch => st.approval[<<e, i>>] = NoApproval

\* Log L declares the compromise of generation k of issuer.
Declares(L, issuer, k) == L.issuer = issuer /\ L.keyEpoch = k

\* A key is compromised when P declares so, from the lowest declared block on.
KeysFollow(st, P) ==
  \A issuer \in Issuers, k \in KeyEpochs :
    LET c == st.key[<<issuer, k>>] IN
    /\ c.compromised => \E p \in P : /\ Declares(p[1].logs[p[2]], issuer, k)
                                     /\ p[1].logs[p[2]].lastTrusted = c.lastTrusted
    /\ \A p \in P : Declares(p[1].logs[p[2]], issuer, k) =>
         c.compromised /\ c.lastTrusted <= p[1].logs[p[2]].lastTrusted

\* One epoch of one contract is published by one log.
EpochsApart ==
  \A c \in Contracts, q, r \in attested :
    q.chainKey = r.chainKey =>
      \A i \in Published(q, c), j \in Published(r, c) :
        q.logs[i].epoch = r.logs[j].epoch => q = r /\ i = j

\* What a call has written, and what a revert falls back to.
LogsInv ==
  /\ EpochsApart
  /\ RosterFollows(work, Walked("RosterEpochPublished"))
  /\ RosterFollows(store, TrustedLogs(processed, "RosterEpochPublished"))
  /\ KeysFollow(work, Walked("IssuerKeyCompromised"))
  /\ KeysFollow(store, TrustedLogs(processed, "IssuerKeyCompromised"))

\* The positions of the logs of a kind that a set of receipts holds.
LEMMA TrustedMembers ==
  ASSUME NEW R, NEW sig, NEW p
  PROVE  p \in TrustedLogs(R, sig) <=>
           \E r \in R : \E i \in DOMAIN r.logs :
              p = <<r, i>> /\ r.logs[i].emitter = contract /\ r.logs[i].sig = sig
<1>1. ASSUME NEW r \in R, NEW i \in DOMAIN r.logs, p = <<r, i>>,
             r.logs[i].emitter = contract, r.logs[i].sig = sig
      PROVE  p \in TrustedLogs(R, sig)
  <2>1. i \in UNION {DOMAIN q.logs : q \in R}
    OBVIOUS
  <2>2. p[1] = r /\ p[2] = i
    BY <1>1
  <2> QED
    BY <1>1, <2>1, <2>2 DEF TrustedLogs
<1>2. ASSUME p \in TrustedLogs(R, sig)
      PROVE  \E r \in R : \E i \in DOMAIN r.logs :
                p = <<r, i>> /\ r.logs[i].emitter = contract /\ r.logs[i].sig = sig
  <2>1. PICK r \in R : \E i \in UNION {DOMAIN q.logs : q \in R} : p = <<r, i>>
    BY <1>2 DEF TrustedLogs
  <2>2. PICK i \in UNION {DOMAIN q.logs : q \in R} : p = <<r, i>>
    BY <2>1
  <2>3. p[1] = r /\ p[2] = i
    BY <2>2
  <2> QED
    BY <1>2, <2>2, <2>3 DEF TrustedLogs
<1> QED
  BY <1>1, <1>2

\* The positions walked are those delivered and those of the call in progress.
LEMMA WalkedMembers ==
  ASSUME NEW sig, NEW p \in Walked(sig)
  PROVE  \/ p \in TrustedLogs(processed, sig)
         \/ ~Idle /\ \E i \in 1 .. (next - 1) :
              p = <<running, i>> /\ Trusted(running.logs[i]) /\ running.logs[i].sig = sig
BY DEF Walked

\* What a roster log means depends on the pinned contract alone.
LEMMA SameContract ==
  ASSUME contract' = contract
  PROVE  /\ \A R, sig : TrustedLogs(R, sig)' = TrustedLogs(R, sig)
         /\ \A r, L : AuthorizedIssuers(r, L)' = AuthorizedIssuers(r, L)
         /\ \A r, L, i : ApprovalOf(r, L, i)' = ApprovalOf(r, L, i)
<1>1. ASSUME NEW R, NEW sig
      PROVE  TrustedLogs(R, sig)' = TrustedLogs(R, sig)
  <2> DEFINE D == {<<r, i>> : r \in R, i \in UNION {DOMAIN q.logs : q \in R}}
             F(c) == {p \in D : /\ p[2] \in DOMAIN p[1].logs
                                /\ p[1].logs[p[2]].emitter = c
                                /\ p[1].logs[p[2]].sig = sig}
  <2>1. TrustedLogs(R, sig) = F(contract)
    BY DEF TrustedLogs
  <2>2. TrustedLogs(R, sig)' = F(contract')
    BY DEF TrustedLogs
  <2> HIDE DEF F
  <2> QED
    BY <2>1, <2>2
<1>2. ASSUME NEW r, NEW L
      PROVE  Authorizations(r, L)' = Authorizations(r, L)
  BY Zenon DEF Authorizations, Trusted
<1>3. ASSUME NEW r, NEW L
      PROVE  AuthorizedIssuers(r, L)' = AuthorizedIssuers(r, L)
  BY <1>2, Zenon DEF AuthorizedIssuers
<1>4. ASSUME NEW r, NEW L, NEW i
      PROVE  KeyAuthorizations(r, L, i)' = KeyAuthorizations(r, L, i)
  BY Zenon DEF KeyAuthorizations, Trusted
<1>5. ASSUME NEW r, NEW L, NEW i
      PROVE  ApprovalOf(r, L, i)' = ApprovalOf(r, L, i)
  BY <1>4, Zenon DEF ApprovalOf
<1> QED
  BY <1>1, <1>3, <1>5, Zenon

\* A published epoch is positive, and its root is the one its roster carries.
LEMMA PublishedTyped ==
  ASSUME NEW r \in Receipts, NEW i \in DOMAIN r.logs, r.logs[i].sig = "RosterEpochPublished"
  PROVE  /\ r.logs[i].epoch \in Epochs /\ r.logs[i].epoch \in Nat \ {0}
         /\ RosterOf(r.logs[i]).epoch = r.logs[i].epoch
BY ReceiptsAssumption, EpochsAssumption DEF LogTyped, RosterOf

\* A log of another kind leaves rosters and approvals alone.
LEMMA OtherLogsKeepRoster ==
  ASSUME NEW st \in Stores, NEW r \in Receipts, NEW i \in DOMAIN r.logs,
         ~(Trusted(r.logs[i]) /\ r.logs[i].sig = "RosterEpochPublished")
  PROVE  /\ ApplyLog(st, r, i).roster = st.roster
         /\ ApplyLog(st, r, i).roots = st.roots
         /\ ApplyLog(st, r, i).approval = st.approval
BY DEF ApplyLog, OnKeyCompromised, Stores

\* An epoch that no walked log has published is put in force with the issuers its
\* receipt authorizes, or is older than the one in force and leaves nothing.
LEMMA EpochFollows ==
  ASSUME NEW st \in Stores, NEW P, NEW r \in Receipts, NEW i \in DOMAIN r.logs,
         Trusted(r.logs[i]), r.logs[i].sig = "RosterEpochPublished",
         ~LogReverts(st, r, r.logs[i]),
         \A p \in P : p[1].logs[p[2]].epoch \in Nat /\ p[1].logs[p[2]].epoch # r.logs[i].epoch,
         RosterFollows(st, P)
  PROVE  RosterFollows(ApplyLog(st, r, i), P \cup {<<r, i>>})
<1> DEFINE L == r.logs[i]
           q == <<r, i>>
           Q == P \cup {q}
           A == [p \in Epochs \X Issuers |->
                  IF p[1] = L.epoch /\ p[2] \in AuthorizedIssuers(r, L)
                    THEN ApprovalOf(r, L, p[2]) ELSE st.approval[p]]
           B == [st.roots EXCEPT ![L.epoch] = L.root]
           x == [st EXCEPT !.roster = RosterOf(L), !.roots = B, !.approval = A]
<1>1. ApplyLog(st, r, i) = OnEpoch(st, r, L)
  BY DEF ApplyLog, LifecycleSigs, OrdinarySigs, IssueSigs, DecisionSigs
<1>2. /\ L.epoch \in Epochs /\ L.epoch \in Nat \ {0} /\ RosterOf(L).epoch = L.epoch
      /\ st.roster.epoch \in Nat
      /\ q[1].logs[q[2]] = L /\ q[1] = r
  BY PublishedTyped DEF Stores, Rosters
<1>3. CASE L.epoch <= st.roster.epoch
  <2>1. OnEpoch(st, r, L) = st
    BY <1>3 DEF OnEpoch
  <2>2. L.epoch # st.roster.epoch
    BY <1>2 DEF RosterFollows
  <2>3. RosterFollows(st, Q)
    BY <1>2, <1>3, <2>2 DEF RosterFollows
  <2> QED
    BY <1>1, <2>1, <2>3
<1>4. CASE ~(L.epoch <= st.roster.epoch)
  <2>1. OnEpoch(st, r, L) = x
    BY <1>4 DEF OnEpoch
  <2>2. st.roots \in [Epochs -> Nat] /\ st.approval \in [Epochs \X Issuers -> Approvals]
    BY DEF Stores
  <2>3. \A e \in Epochs : B[e] = IF e = L.epoch THEN L.root ELSE st.roots[e]
    BY <1>2, <2>2
  <2>4. \A e \in Epochs, j \in Issuers :
          A[<<e, j>>] = IF e = L.epoch /\ j \in AuthorizedIssuers(r, L)
                          THEN ApprovalOf(r, L, j) ELSE st.approval[<<e, j>>]
    OBVIOUS
  <2> HIDE DEF A, B
  <2>5. x.roster = RosterOf(L) /\ x.roots = B /\ x.approval = A
    BY DEF Stores
  <2> HIDE DEF x
  <2>6. x.roster.epoch = L.epoch /\ L.epoch > st.roster.epoch
    BY <1>2, <1>4, <2>5
  <2>7. x.roster.epoch # 0 => \E p \in Q : p[1].logs[p[2]].epoch = x.roster.epoch
    BY <1>2, <2>6
  <2>8. ASSUME NEW p \in Q
        PROVE  LET M == p[1].logs[p[2]] IN
               /\ M.epoch <= x.roster.epoch
               /\ M.epoch = x.roster.epoch =>
                    /\ x.roster = RosterOf(M)
                    /\ \A j \in Issuers :
                         x.approval[<<M.epoch, j>>] =
                           IF j \in AuthorizedIssuers(p[1], M) THEN ApprovalOf(p[1], M, j)
                           ELSE NoApproval
    <3>1. CASE p = q
      <4>1. \A j \in Issuers : st.approval[<<L.epoch, j>>] = NoApproval
        BY <1>2, <2>6 DEF RosterFollows
      <4>2. p[1] = r /\ p[1].logs[p[2]] = L
        BY <3>1, <1>2
      <4>3. \A j \in Issuers : A[<<L.epoch, j>>] =
              IF j \in AuthorizedIssuers(r, L) THEN ApprovalOf(r, L, j) ELSE NoApproval
        BY <4>1, <2>4, <1>2
      <4> HIDE DEF L, q
      <4> QED
        BY <4>2, <4>3, <2>5, <2>6, <1>2
    <3>2. CASE p \in P
      <4>1. p[1].logs[p[2]].epoch <= st.roster.epoch
        BY <3>2 DEF RosterFollows
      <4>2. p[1].logs[p[2]].epoch \in Nat
        BY <3>2
      <4> QED
        BY <4>1, <4>2, <2>6, <1>2
    <3> QED
      BY <3>1, <3>2
  <2>9. ASSUME NEW e \in Epochs, x.roots[e] # 0
        PROVE  \E p \in Q : p[1].logs[p[2]].epoch = e /\ p[1].logs[p[2]].root = x.roots[e]
    <3>1. CASE e = L.epoch
      BY <3>1, <1>2, <2>3, <2>5
    <3>2. CASE e # L.epoch
      BY <3>2, <2>3, <2>5, <2>9 DEF RosterFollows
    <3> QED
      BY <3>1, <3>2
  <2>10. ASSUME NEW e \in Epochs, NEW j \in Issuers, e > x.roster.epoch
         PROVE  x.approval[<<e, j>>] = NoApproval
    <3>1. e \in Nat /\ e # L.epoch /\ e > st.roster.epoch
      BY <1>2, <2>6, <2>10, EpochsAssumption
    <3> QED
      BY <3>1, <2>4, <2>5 DEF RosterFollows
  <2>11. RosterFollows(x, Q)
    BY <2>7, <2>8, <2>9, <2>10 DEF RosterFollows
  <2> QED
    BY <1>1, <2>1, <2>11
<1> QED
  BY <1>3, <1>4

\* A log of another kind leaves keys alone.
LEMMA OtherLogsKeepKeys ==
  ASSUME NEW st \in Stores, NEW r \in Receipts, NEW i \in DOMAIN r.logs,
         ~(Trusted(r.logs[i]) /\ r.logs[i].sig = "IssuerKeyCompromised")
  PROVE  ApplyLog(st, r, i).key = st.key
BY DEF ApplyLog, OnEpoch, Stores

\* A declaration is stored, or one that trusts no more blocks already was.
LEMMA DeclarationFollows ==
  ASSUME NEW st \in Stores, NEW P, NEW r \in Receipts, NEW i \in DOMAIN r.logs,
         Trusted(r.logs[i]), r.logs[i].sig = "IssuerKeyCompromised",
         ~LogReverts(st, r, r.logs[i]),
         \A p \in P : p[1].logs[p[2]].lastTrusted \in Nat,
         KeysFollow(st, P)
  PROVE  KeysFollow(ApplyLog(st, r, i), P \cup {<<r, i>>})
<1> DEFINE L == r.logs[i]
           q == <<r, i>>
           new == [compromised |-> TRUE, lastTrusted |-> L.lastTrusted]
           old == st.key[<<L.issuer, L.keyEpoch>>]
           f == [st.key EXCEPT ![<<L.issuer, L.keyEpoch>>] = new]
           x == [st EXCEPT !.key = f]
<1>1. ApplyLog(st, r, i) = OnKeyCompromised(st, L)
  BY DEF ApplyLog, LifecycleSigs, OrdinarySigs, IssueSigs, DecisionSigs
<1>2. L.issuer \in Issuers /\ L.keyEpoch \in KeyEpochs /\ L.lastTrusted \in Nat
  BY ReceiptsAssumption DEF LogTyped, LogReverts, KeyCompromiseReverts
<1>3. q[1].logs[q[2]] = L
  OBVIOUS
<1>4. st.key \in [Issuers \X KeyEpochs -> [compromised : BOOLEAN, lastTrusted : Nat]]
  BY DEF Stores
<1>5. /\ old.lastTrusted \in Nat
      /\ \A j \in Issuers, k \in KeyEpochs :
           f[<<j, k>>] = IF j = L.issuer /\ k = L.keyEpoch THEN new ELSE st.key[<<j, k>>]
  <2>1. \A j \in Issuers, k \in KeyEpochs :
          <<j, k>> \in Issuers \X KeyEpochs
          /\ (<<j, k>> = <<L.issuer, L.keyEpoch>> <=> j = L.issuer /\ k = L.keyEpoch)
    OBVIOUS
  <2> QED
    BY <1>2, <1>4, <2>1
<1>6. new.compromised = TRUE /\ new.lastTrusted = L.lastTrusted
  OBVIOUS
<1>7. CASE ~old.compromised \/ L.lastTrusted < old.lastTrusted
  <2>1. OnKeyCompromised(st, L) = x
    BY <1>7 DEF OnKeyCompromised
  <2>2. x.key = f
    BY DEF Stores
  <2> HIDE DEF x, f, new
  <2>3. SUFFICES ASSUME NEW j \in Issuers, NEW k \in KeyEpochs
                 PROVE  /\ f[<<j, k>>].compromised =>
                             \E p \in P \cup {q} : /\ Declares(p[1].logs[p[2]], j, k)
                                                   /\ p[1].logs[p[2]].lastTrusted = f[<<j, k>>].lastTrusted
                        /\ \A p \in P \cup {q} : Declares(p[1].logs[p[2]], j, k) =>
                             /\ f[<<j, k>>].compromised
                             /\ f[<<j, k>>].lastTrusted <= p[1].logs[p[2]].lastTrusted
    BY <1>1, <2>1, <2>2 DEF KeysFollow
  <2>4. CASE j = L.issuer /\ k = L.keyEpoch
    <3>1. f[<<j, k>>] = new /\ Declares(L, j, k)
      BY <2>4, <1>5 DEF Declares
    <3>2. \A p \in P : Declares(p[1].logs[p[2]], j, k) =>
            L.lastTrusted <= p[1].logs[p[2]].lastTrusted
      BY <2>4, <1>2, <1>5, <1>7 DEF KeysFollow
    <3> HIDE DEF L, q
    <3> QED
      BY <3>1, <3>2, <1>2, <1>3, <1>6
  <2>5. CASE ~(j = L.issuer /\ k = L.keyEpoch)
    <3>1. f[<<j, k>>] = st.key[<<j, k>>] /\ ~Declares(L, j, k)
      BY <2>5, <1>5 DEF Declares
    <3> HIDE DEF L, q
    <3> QED
      BY <3>1, <1>3 DEF KeysFollow
  <2> QED
    BY <2>4, <2>5
<1>8. CASE ~(~old.compromised \/ L.lastTrusted < old.lastTrusted)
  <2>1. OnKeyCompromised(st, L) = st
    BY <1>8 DEF OnKeyCompromised
  <2>2. old.compromised /\ old.lastTrusted <= L.lastTrusted
    BY <1>2, <1>5, <1>8
  <2>3. \A j \in Issuers, k \in KeyEpochs : Declares(L, j, k) =>
          st.key[<<j, k>>].compromised /\ st.key[<<j, k>>].lastTrusted <= L.lastTrusted
    BY <2>2 DEF Declares
  <2> HIDE DEF L, q
  <2>4. KeysFollow(st, P \cup {q})
    BY <1>3, <2>3 DEF KeysFollow
  <2> QED
    BY <1>1, <2>1, <2>4 DEF q, L
<1> QED
  BY <1>7, <1>8

\* A position walked is of an attested receipt of the pinned chain, before the next log.
LEMMA WalkedFacts ==
  ASSUME IInv, NEW sig, NEW p \in Walked(sig)
  PROVE  /\ p[1] \in processed \/ (~Idle /\ p[1] = running)
         /\ p[1] \in attested /\ p[1] \in Receipts /\ p[1].chainKey = chainKey
         /\ contract \in Contracts
         /\ p[2] \in DOMAIN p[1].logs
         /\ Trusted(p[1].logs[p[2]]) /\ p[1].logs[p[2]].sig = sig
         /\ ~Idle /\ p[1] = running => p[2] < next
<1>1. CASE p \in TrustedLogs(processed, sig)
  <2>1. PICK r \in processed : \E i \in DOMAIN r.logs :
              p = <<r, i>> /\ r.logs[i].emitter = contract /\ r.logs[i].sig = sig
    BY <1>1, TrustedMembers
  <2>2. PICK i \in DOMAIN r.logs :
              p = <<r, i>> /\ r.logs[i].emitter = contract /\ r.logs[i].sig = sig
    BY <2>1
  <2>3. r \in attested /\ r \in Receipts /\ r.chainKey = chainKey /\ contract \in Contracts
    BY DEF IInv, TypeOK, CallDiscipline
  <2>4. ~Idle => r # running
    BY DEF IInv, CallDiscipline
  <2> QED
    BY <2>2, <2>3, <2>4 DEF Trusted
<1>2. CASE ~Idle /\ \E i \in 1 .. (next - 1) :
              p = <<running, i>> /\ Trusted(running.logs[i]) /\ running.logs[i].sig = sig
  <2>1. PICK i \in 1 .. (next - 1) :
              p = <<running, i>> /\ Trusted(running.logs[i]) /\ running.logs[i].sig = sig
    BY <1>2
  <2>2. /\ running \in attested /\ running \in Receipts /\ running.chainKey = chainKey
        /\ contract \in Contracts /\ next \in Nat /\ next <= Len(running.logs) + 1
    BY <1>2 DEF IInv, TypeOK, CallDiscipline, Idle
  <2>3. Len(running.logs) \in Nat /\ DOMAIN running.logs = 1 .. Len(running.logs)
    BY <2>2, ReceiptsAssumption
  <2>4. i \in DOMAIN running.logs /\ i < next
    BY <2>2, <2>3
  <2> QED
    BY <1>2, <2>1, <2>2, <2>4
<1> QED
  BY <1>1, <1>2, WalkedMembers

\* Walking a log of the kind adds its position.
LEMMA WalkAddsPosition ==
  ASSUME IInv, WalkLog, NEW sig
  PROVE  Walked(sig)' = Walked(sig) \cup
           (IF Trusted(running.logs[next]) /\ running.logs[next].sig = sig
              THEN {<<running, next>>} ELSE {})
<1>1. /\ ~Idle /\ next \in Nat \ {0} /\ next' = next + 1 /\ running' = running
      /\ processed' = processed /\ contract' = contract
  BY DEF WalkLog, Walking, IInv, TypeOK, Idle, config
<1> DEFINE W(n) == {<<running, i>> : i \in {j \in 1 .. n : /\ running.logs[j].emitter = contract
                                                        /\ running.logs[j].sig = sig}}
<1>2. Walked(sig) = TrustedLogs(processed, sig) \cup W(next - 1)
  BY <1>1 DEF Walked, Trusted
<1>3. Walked(sig)' = TrustedLogs(processed, sig) \cup W(next)
  <2>1. TrustedLogs(processed, sig)' = TrustedLogs(processed, sig)
    BY <1>1, SameContract DEF TrustedLogs
  <2>2. ~Idle' /\ next' - 1 = next
    BY <1>1 DEF Idle
  <2> QED
    BY <1>1, <2>1, <2>2 DEF Walked, Trusted
<1>4. 1 .. next = 1 .. (next - 1) \cup {next}
  BY <1>1
<1>5. W(next) = W(next - 1) \cup
        (IF running.logs[next].emitter = contract /\ running.logs[next].sig = sig
           THEN {<<running, next>>} ELSE {})
  BY <1>4
<1> HIDE DEF W
<1> QED
  BY <1>2, <1>3, <1>5 DEF Trusted

\* Two positions of one epoch are one position.
LEMMA OnePositionPerEpoch ==
  ASSUME IInv, EpochsApart, Walking, Trusted(running.logs[next]),
         running.logs[next].sig = "RosterEpochPublished",
         NEW p \in Walked("RosterEpochPublished")
  PROVE  /\ p[1].logs[p[2]].epoch \in Nat
         /\ p[1].logs[p[2]].epoch # running.logs[next].epoch
<1>1. /\ ~Idle /\ running \in attested /\ running \in Receipts /\ next \in DOMAIN running.logs
      /\ running.chainKey = chainKey /\ next \in Nat
  <2>1. ~Idle /\ running \in attested /\ running \in Receipts /\ running.chainKey = chainKey
    BY DEF Walking, Idle, IInv, TypeOK, CallDiscipline
  <2>2. DOMAIN running.logs = 1 .. Len(running.logs) /\ Len(running.logs) \in Nat
    BY <2>1, ReceiptsAssumption
  <2> QED
    BY <2>1, <2>2 DEF Walking, IInv, TypeOK
<1>2. /\ p[1] \in attested /\ p[1] \in Receipts /\ p[1].chainKey = chainKey
      /\ contract \in Contracts /\ p[2] \in DOMAIN p[1].logs
      /\ Trusted(p[1].logs[p[2]]) /\ p[1].logs[p[2]].sig = "RosterEpochPublished"
      /\ p[1] = running => p[2] < next
  BY <1>1, WalkedFacts
<1>3. p[1].logs[p[2]].epoch \in Nat
  BY <1>2, PublishedTyped
<1>4. p[2] \in Published(p[1], contract) /\ next \in Published(running, contract)
  BY <1>1, <1>2 DEF Published, Trusted
<1>5. ASSUME p[1].logs[p[2]].epoch = running.logs[next].epoch
      PROVE  FALSE
  <2>1. p[1] = running /\ p[2] = next
    BY <1>1, <1>2, <1>4, <1>5 DEF EpochsApart
  <2> QED
    BY <1>1, <1>2, <2>1
<1> QED
  BY <1>3, <1>5

\* One walked log keeps rosters and keys in line with the positions walked.
LEMMA WalkFollows ==
  ASSUME IInv, LogsInv, WalkLog
  PROVE  /\ RosterFollows(work', Walked("RosterEpochPublished")')
         /\ KeysFollow(work', Walked("IssuerKeyCompromised")')
<1> DEFINE L == running.logs[next]
           P == Walked("RosterEpochPublished")
           K == Walked("IssuerKeyCompromised")
<1>1. /\ running \in Receipts /\ next \in DOMAIN running.logs /\ work \in Stores
      /\ Walking /\ ~LogReverts(work, running, L) /\ work' = ApplyLog(work, running, next)
  <2>1. running \in Receipts /\ Walking
    BY DEF WalkLog, Walking, IInv, TypeOK
  <2>2. DOMAIN running.logs = 1 .. Len(running.logs) /\ Len(running.logs) \in Nat
    BY <2>1, ReceiptsAssumption
  <2> QED
    BY <2>1, <2>2 DEF WalkLog, Walking, IInv, TypeOK
<1>2. RosterFollows(work, P) /\ KeysFollow(work, K) /\ EpochsApart
  BY DEF LogsInv
<1>3. RosterFollows(work', Walked("RosterEpochPublished")')
  <2>1. CASE Trusted(L) /\ L.sig = "RosterEpochPublished"
    <3>1. Walked("RosterEpochPublished")' = P \cup {<<running, next>>}
      BY <2>1, WalkAddsPosition
    <3>2. \A p \in P : p[1].logs[p[2]].epoch \in Nat /\ p[1].logs[p[2]].epoch # L.epoch
      BY <1>1, <1>2, <2>1, OnePositionPerEpoch
    <3> HIDE DEF P
    <3> QED
      BY <1>1, <1>2, <2>1, <3>1, <3>2, EpochFollows
  <2>2. CASE ~(Trusted(L) /\ L.sig = "RosterEpochPublished")
    <3>1. Walked("RosterEpochPublished")' = P
      BY <2>2, WalkAddsPosition
    <3>2. work'.roster = work.roster /\ work'.roots = work.roots /\ work'.approval = work.approval
      BY <1>1, <2>2, OtherLogsKeepRoster
    <3> HIDE DEF P
    <3> QED
      BY <1>2, <3>1, <3>2 DEF RosterFollows
  <2> QED
    BY <2>1, <2>2
<1>4. KeysFollow(work', Walked("IssuerKeyCompromised")')
  <2>1. CASE Trusted(L) /\ L.sig = "IssuerKeyCompromised"
    <3>1. Walked("IssuerKeyCompromised")' = K \cup {<<running, next>>}
      BY <2>1, WalkAddsPosition
    <3>2. \A p \in K : p[1].logs[p[2]].lastTrusted \in Nat
      <4> SUFFICES ASSUME NEW p \in K
                   PROVE  p[1].logs[p[2]].lastTrusted \in Nat
        OBVIOUS
      <4>1. /\ p[1] \in Receipts /\ p[2] \in DOMAIN p[1].logs
            /\ p[1].logs[p[2]].sig = "IssuerKeyCompromised"
        BY WalkedFacts
      <4> QED
        BY <4>1, ReceiptsAssumption DEF LogTyped
    <3> HIDE DEF K
    <3> QED
      BY <1>1, <1>2, <2>1, <3>1, <3>2, DeclarationFollows
  <2>2. CASE ~(Trusted(L) /\ L.sig = "IssuerKeyCompromised")
    <3>1. Walked("IssuerKeyCompromised")' = K
      BY <2>2, WalkAddsPosition
    <3>2. work'.key = work.key
      BY <1>1, <2>2, OtherLogsKeepKeys
    <3> HIDE DEF K
    <3> QED
      BY <1>2, <3>1, <3>2 DEF KeysFollow
  <2> QED
    BY <2>1, <2>2
<1> QED
  BY <1>3, <1>4

\* With the contract unchanged, what a storage follows does not change either.
LEMMA FollowsQuietly ==
  ASSUME contract' = contract, NEW st, NEW P
  PROVE  RosterFollows(st, P) => RosterFollows(st, P)'
<1>1. /\ \A r, L : AuthorizedIssuers(r, L)' = AuthorizedIssuers(r, L)
      /\ \A r, L, i : ApprovalOf(r, L, i)' = ApprovalOf(r, L, i)
  BY SameContract
<1> QED
  BY <1>1, Zenon DEF RosterFollows

\* Nothing delivered: the roster and the keys are those of a fresh deployment.
LEMMA FreshFollows ==
  \A c : RosterFollows(EmptyStore, {}) /\ KeysFollow(EmptyStore, {})
<1>1. RosterFollows(EmptyStore, {})
  BY DEF RosterFollows, EmptyStore, NoRoster
<1>2. KeysFollow(EmptyStore, {})
  BY DEF KeysFollow, EmptyStore, NoCutoff
<1> QED
  BY <1>1, <1>2

\* At the end of a receipt, the positions walked are those its delivery adds.
LEMMA WalkedIsDelivered ==
  ASSUME IInv, ~Idle, ~Walking, NEW sig
  PROVE  Walked(sig) = TrustedLogs(processed \cup {running}, sig)
<1>1. /\ running \in Receipts /\ next \in Nat \ {0} /\ next - 1 = Len(running.logs)
      /\ DOMAIN running.logs = 1 .. (next - 1)
  <2>1. running \in Receipts /\ next \in Nat \ {0} /\ next <= Len(running.logs) + 1
    BY DEF IInv, TypeOK, CallDiscipline, Idle
  <2>2. DOMAIN running.logs = 1 .. Len(running.logs) /\ Len(running.logs) \in Nat
    BY <2>1, ReceiptsAssumption
  <2> QED
    BY <2>1, <2>2 DEF Walking, Idle
<1>2. ASSUME NEW p \in Walked(sig)
      PROVE  p \in TrustedLogs(processed \cup {running}, sig)
  <2>1. CASE p \in TrustedLogs(processed, sig)
    BY <2>1, TrustedMembers
  <2>2. CASE \E i \in 1 .. (next - 1) :
               p = <<running, i>> /\ Trusted(running.logs[i]) /\ running.logs[i].sig = sig
    BY <2>2, <1>1, TrustedMembers DEF Trusted
  <2> QED
    BY <2>1, <2>2, WalkedMembers
<1>3. ASSUME NEW p \in TrustedLogs(processed \cup {running}, sig)
      PROVE  p \in Walked(sig)
  <2>1. PICK r \in processed \cup {running} : \E i \in DOMAIN r.logs :
          p = <<r, i>> /\ r.logs[i].emitter = contract /\ r.logs[i].sig = sig
    BY TrustedMembers
  <2>2. CASE r \in processed
    BY <2>1, <2>2, TrustedMembers DEF Walked
  <2>3. CASE r = running
    BY <2>1, <2>3, <1>1 DEF Walked, Trusted
  <2> QED
    BY <2>2, <2>3
<1> QED
  BY <1>2, <1>3

\* The deployed contract follows the empty history.
LEMMA InitLogsInv == Init => LogsInv
<1> SUFFICES ASSUME Init
             PROVE  LogsInv
  OBVIOUS
<1>1. \A sig : TrustedLogs(processed, sig) = {} /\ Walked(sig) = {}
  <2>1. \A sig, p : p \notin TrustedLogs(processed, sig)
    BY TrustedMembers DEF Init
  <2> QED
    BY <2>1 DEF Init, Walked, Idle
<1>2. EpochsApart
  BY DEF Init, EpochsApart
<1> QED
  BY <1>1, <1>2, FreshFollows DEF Init, LogsInv

\* A source chain that grows publishes new epochs.
LEMMA AttestKeepsEpochsApart ==
  ASSUME IInv, EpochsApart, NEW r \in Receipts, Attest(r)
  PROVE  EpochsApart'
<1>1. \A q \in attested \cup {r} : q \in Receipts
  BY DEF IInv, TypeOK
<1>2. \A c : \A q \in attested \cup {r} : \A i \in Published(q, c) :
        i \in Nat /\ q.logs[i].epoch \in Nat
  <2> SUFFICES ASSUME NEW c, NEW q \in attested \cup {r}, NEW i \in Published(q, c)
               PROVE  i \in Nat /\ q.logs[i].epoch \in Nat
    OBVIOUS
  <2>1. i \in DOMAIN q.logs /\ q.logs[i].sig = "RosterEpochPublished" /\ q \in Receipts
    BY <1>1 DEF Published
  <2>2. DOMAIN q.logs = 1 .. Len(q.logs) /\ Len(q.logs) \in Nat
    BY <2>1, ReceiptsAssumption
  <2> QED
    BY <2>1, <2>2, PublishedTyped
<1> SUFFICES ASSUME NEW c \in Contracts, NEW p \in attested', NEW q \in attested',
                    p.chainKey = q.chainKey, NEW i \in Published(p, c), NEW j \in Published(q, c),
                    p.logs[i].epoch = q.logs[j].epoch
             PROVE  p = q /\ i = j
  BY DEF EpochsApart
<1>3. p \in attested \cup {r} /\ q \in attested \cup {r}
  BY DEF Attest
<1>4. EpochsIncrease(r)
  BY DEF Attest
<1>5. CASE p \in attested /\ q \in attested
  BY <1>5 DEF EpochsApart
<1>6. CASE p = r /\ q = r
  <2>1. i < j => p.logs[i].epoch < q.logs[j].epoch
    BY <1>4, <1>6 DEF EpochsIncrease
  <2>2. j < i => q.logs[j].epoch < p.logs[i].epoch
    BY <1>4, <1>6 DEF EpochsIncrease
  <2> QED
    BY <1>2, <1>3, <1>6, <2>1, <2>2
<1>7. CASE p \in attested /\ q = r
  <2>1. p.logs[i].epoch < q.logs[j].epoch
    BY <1>4, <1>7 DEF EpochsIncrease
  <2> QED
    BY <1>2, <1>3, <2>1
<1>8. CASE p = r /\ q \in attested
  <2>1. q.logs[j].epoch < p.logs[i].epoch
    BY <1>4, <1>8 DEF EpochsIncrease
  <2> QED
    BY <1>2, <1>3, <2>1
<1> QED
  BY <1>3, <1>5, <1>6, <1>7, <1>8

\* Every step keeps rosters and keys in line with the positions walked.
LEMMA StepLogsInv == IInv /\ IInv' /\ LogsInv /\ [Next]_vars => LogsInv'
<1> SUFFICES ASSUME IInv, IInv', LogsInv, [Next]_vars
             PROVE  LogsInv'
  OBVIOUS
<1>1. ASSUME contract' = contract, EpochsApart',
             RosterFollows(work', Walked("RosterEpochPublished")'),
             RosterFollows(store', TrustedLogs(processed', "RosterEpochPublished")),
             KeysFollow(work', Walked("IssuerKeyCompromised")'),
             KeysFollow(store', TrustedLogs(processed', "IssuerKeyCompromised"))
      PROVE  LogsInv'
  <2>1. /\ TrustedLogs(processed, "RosterEpochPublished")' =
             TrustedLogs(processed', "RosterEpochPublished")
        /\ TrustedLogs(processed, "IssuerKeyCompromised")' =
             TrustedLogs(processed', "IssuerKeyCompromised")
    BY <1>1 DEF TrustedLogs
  <2>2. PICK w, s : w = work' /\ s = store'
    OBVIOUS
  <2>3. PICK W, T, C : /\ W = Walked("RosterEpochPublished")'
                       /\ T = TrustedLogs(processed, "RosterEpochPublished")'
                       /\ C = TrustedLogs(processed, "IssuerKeyCompromised")'
    OBVIOUS
  <2>4. RosterFollows(w, W) /\ RosterFollows(s, T) /\ KeysFollow(s, C)
    BY <1>1, <2>1, <2>2, <2>3
  <2>5. RosterFollows(w, W)' /\ RosterFollows(s, T)'
    BY <1>1, <2>4, FollowsQuietly
  <2>6. RosterFollows(work, Walked("RosterEpochPublished"))'
    BY <2>2, <2>3, <2>5, SMT DEF RosterFollows
  <2>7. RosterFollows(store, TrustedLogs(processed, "RosterEpochPublished"))'
    BY <2>2, <2>3, <2>5, SMT DEF RosterFollows
  <2>8. KeysFollow(work, Walked("IssuerKeyCompromised"))'
    BY <1>1, Zenon DEF KeysFollow, Declares
  <2>9. KeysFollow(store, TrustedLogs(processed, "IssuerKeyCompromised"))'
    BY <2>2, <2>3, <2>4 DEF KeysFollow
  <2> QED
    BY <1>1, <2>6, <2>7, <2>8, <2>9 DEF LogsInv
<1>2. Idle => \A sig : Walked(sig) = TrustedLogs(processed, sig)
  BY DEF Walked
<1>3. contract' = contract =>
        /\ Idle' => \A sig : Walked(sig)' = TrustedLogs(processed', sig)
        /\ ~Idle' /\ next' = 1 => \A sig : Walked(sig)' = TrustedLogs(processed', sig)
  <2> SUFFICES ASSUME contract' = contract, NEW sig, Idle' \/ next' = 1
               PROVE  Walked(sig)' = TrustedLogs(processed', sig)
    OBVIOUS
  <2>1. TrustedLogs(processed, sig)' = TrustedLogs(processed', sig)
    BY DEF TrustedLogs
  <2>2. CASE Idle'
    BY <2>1, <2>2 DEF Walked
  <2>3. CASE ~Idle' /\ next' = 1
    <3>1. 1 .. (next' - 1) = {}
      BY <2>3
    <3> QED
      BY <2>1, <2>3, <3>1 DEF Walked
  <2> QED
    BY <2>2, <2>3
<1>4. ASSUME NEW k \in ChainKeys, NEW c \in Contracts, ConfigureSource(k, c)
      PROVE  LogsInv'
  <2>1. /\ Idle /\ Idle' /\ processed = {} /\ processed' = {} /\ attested' = attested
        /\ store' = store /\ work' = work
    BY <1>4 DEF ConfigureSource, call, IInv, CallDiscipline, Idle
  <2>2. \A sig : TrustedLogs(processed, sig) = {} /\ Walked(sig) = {}
    BY <2>1, <1>2, TrustedMembers
  <2>3. \A sig : TrustedLogs(processed, sig)' = {} /\ Walked(sig)' = {}
    BY <2>1 DEF TrustedLogs, Walked
  <2>4. EpochsApart'
    BY <2>1 DEF LogsInv, EpochsApart
  <2> QED
    BY <2>1, <2>2, <2>3, <2>4 DEF LogsInv, RosterFollows, KeysFollow, Declares
<1>5. ASSUME NEW r \in Receipts, Attest(r)
      PROVE  LogsInv'
  <2>1. EpochsApart'
    BY <1>5, AttestKeepsEpochsApart DEF LogsInv
  <2>2. /\ Idle /\ Idle' /\ contract' = contract /\ processed' = processed
        /\ store' = store /\ work' = work
    BY <1>5 DEF Attest, call, config, Idle
  <2> QED
    BY <1>1, <1>2, <1>3, <2>1, <2>2 DEF LogsInv
<1>6. CASE Tick \/ UNCHANGED vars
  <2>1. /\ contract' = contract /\ processed' = processed /\ attested' = attested
        /\ store' = store /\ work' = work /\ running' = running /\ next' = next
    BY <1>6 DEF Tick, vars, call, config
  <2>2. EpochsApart'
    BY <2>1 DEF LogsInv, EpochsApart
  <2>3. \A sig : Walked(sig)' = Walked(sig)
    BY <2>1, SameContract DEF Walked, Idle, Trusted, TrustedLogs
  <2> QED
    BY <1>1, <2>1, <2>2, <2>3 DEF LogsInv
<1>7. ASSUME NEW r \in attested, NEW a \in 0 .. 5, Execute(r, a)
      PROVE  LogsInv'
  <2>1. /\ Idle /\ next' = 1 /\ contract' = contract /\ processed' = processed
        /\ attested' = attested /\ store' = store /\ work' = work
    BY <1>7 DEF Execute, config, IInv, CallDiscipline
  <2>2. EpochsApart'
    BY <2>1 DEF LogsInv, EpochsApart
  <2> QED
    BY <1>1, <1>2, <1>3, <2>1, <2>2 DEF LogsInv
<1>8. CASE WalkLog
  <2>1. contract' = contract /\ attested' = attested /\ processed' = processed /\ store' = store
    BY <1>8 DEF WalkLog, config
  <2>2. EpochsApart'
    BY <2>1 DEF LogsInv, EpochsApart
  <2> QED
    BY <1>1, <1>8, <2>1, <2>2, WalkFollows DEF LogsInv
<1>9. CASE Revert
  <2>1. /\ Idle' /\ contract' = contract /\ attested' = attested /\ processed' = processed
        /\ store' = store /\ work' = store
    BY <1>9 DEF Revert, EndCall, config, Idle
  <2>2. EpochsApart'
    BY <2>1 DEF LogsInv, EpochsApart
  <2> QED
    BY <1>1, <1>3, <2>1, <2>2 DEF LogsInv
<1>10. CASE Commit
  <2>1. /\ ~Idle /\ ~Walking /\ Idle' /\ contract' = contract /\ attested' = attested
        /\ processed' = processed \cup {running} /\ store' = work /\ work' = work
    BY <1>10 DEF Commit, EndCall, config, Idle
  <2>2. EpochsApart'
    BY <2>1 DEF LogsInv, EpochsApart
  <2>3. \A sig : TrustedLogs(processed', sig) = Walked(sig)
    BY <2>1, WalkedIsDelivered
  <2> QED
    BY <1>1, <1>3, <2>1, <2>2, <2>3 DEF LogsInv
<1> QED
  BY <1>4, <1>5, <1>6, <1>7, <1>8, <1>9, <1>10 DEF Next

\* Rosters and keys are in line with the delivered logs in every state.
THEOREM LogsInvariant == Spec => [](IInv /\ LogsInv)
<1>1. Init => IInv /\ LogsInv
  BY InitIInv, InitLogsInv
<1>2. IInv /\ LogsInv /\ [Next]_vars => IInv' /\ LogsInv'
  BY StepIInv, StepLogsInv
<1> QED
  BY <1>1, <1>2, PTL DEF Spec

\* For every set of receipts, readers see the newest delivered epoch with exactly
\* the issuers its own receipt authorizes.
THEOREM NewestRosterInForce == Spec => []RosterIsNewestDelivered
<1>1. LogsInv => RosterIsNewestDelivered
  BY DEF LogsInv, RosterFollows, RosterIsNewestDelivered
<1> QED
  BY LogsInvariant, <1>1, PTL

\* One number per key tells whether any delivered declaration distrusts a height.
LEMMA CutoffIsDistrust ==
  ASSUME IInv, LogsInv, NEW issuer \in Issuers, NEW k \in KeyEpochs, NEW height \in Nat
  PROVE  Distrusted(issuer, k, height) <=>
           /\ store.key[<<issuer, k>>].compromised
           /\ ~(height <= store.key[<<issuer, k>>].lastTrusted)
<1> DEFINE C == TrustedLogs(processed, "IssuerKeyCompromised")
           c == store.key[<<issuer, k>>]
<1>1. /\ c.lastTrusted \in Nat
      /\ \A p \in C : p[1].logs[p[2]].lastTrusted \in Nat
  <2>1. c.lastTrusted \in Nat
    BY DEF IInv, TypeOK, Stores
  <2>2. ASSUME NEW p \in C
        PROVE  p[1].logs[p[2]].lastTrusted \in Nat
    <3>1. PICK r \in processed : \E i \in DOMAIN r.logs :
            p = <<r, i>> /\ r.logs[i].emitter = contract /\ r.logs[i].sig = "IssuerKeyCompromised"
      BY TrustedMembers
    <3>2. r \in Receipts
      BY DEF IInv, TypeOK
    <3> QED
      BY <3>1, <3>2, ReceiptsAssumption DEF LogTyped
  <2> QED
    BY <2>1, <2>2
<1>2. KeysFollow(store, C)
  BY DEF LogsInv
<1>3. Distrusted(issuer, k, height) <=>
        \E p \in C : /\ Declares(p[1].logs[p[2]], issuer, k)
                     /\ p[1].logs[p[2]].lastTrusted < height
  BY DEF Distrusted, Declares
<1> HIDE DEF C
<1>4. ASSUME NEW p \in C, Declares(p[1].logs[p[2]], issuer, k),
             p[1].logs[p[2]].lastTrusted < height
      PROVE  c.compromised /\ ~(height <= c.lastTrusted)
  <2>1. c.compromised /\ c.lastTrusted <= p[1].logs[p[2]].lastTrusted
    BY <1>2, <1>4 DEF KeysFollow
  <2> QED
    BY <1>1, <1>4, <2>1
<1>5. ASSUME c.compromised, ~(height <= c.lastTrusted)
      PROVE  \E p \in C : /\ Declares(p[1].logs[p[2]], issuer, k)
                          /\ p[1].logs[p[2]].lastTrusted < height
  <2>1. PICK p \in C : Declares(p[1].logs[p[2]], issuer, k)
                       /\ p[1].logs[p[2]].lastTrusted = c.lastTrusted
    BY <1>2, <1>5 DEF KeysFollow
  <2> QED
    BY <1>1, <1>5, <2>1
<1> QED
  BY <1>3, <1>4, <1>5

\* A credential or an approval made under a declared key is usable exactly when no
\* delivered declaration distrusts its own source height.
THEOREM CompromiseIsCutOff == Spec => []CompromiseCutsOff
<1>1. IInv /\ LogsInv => CompromiseCutsOff
  <2> SUFFICES ASSUME IInv, LogsInv
               PROVE  CompromiseCutsOff
    OBVIOUS
  <2>1. ASSUME NEW s \in Subjects,
               NEW e \in UNION {EntriesOf(processed, t, contract) : t \in Subjects},
               store.subject[s].status = "Active", e.log.subject = s,
               Latest(EntriesOf(processed, s, contract), e)
        PROVE  IsMarkIssuerUsable(store, s) <=>
                 KeyOf(e.log) = 0 \/ ~Distrusted(e.log.issuer, KeyOf(e.log), e.at[1])
    <3> DEFINE m == store.subject[s]
               E == EntriesOf(processed, s, contract)
    <3>1. /\ e \in E
          /\ m.credential = Credential(e.log) /\ m.keyEpoch = KeyOf(e.log)
          /\ m.cursor[1] = e.at[1] /\ Outcome(e.log) = "Active"
      <4>1. e \in E /\ IsView(ViewOf(m), E)
        BY <2>1 DEF IInv, CommittedInOrder, SourceOrdered, Latest
      <4>2. /\ ViewOf(m).status = "Active" /\ ViewOf(m).credential = m.credential
            /\ ViewOf(m).keyEpoch = m.keyEpoch /\ ViewOf(m).height = m.cursor[1]
        BY <2>1 DEF ViewOf
      <4> HIDE DEF E, m
      <4>3. Latest(E, e)
        BY <2>1 DEF E
      <4> QED
        BY <4>1, <4>2, <4>3 DEF IsView
    <3>2. e.log.sig \in IssueSigs /\ LogTyped(e.log) /\ e.at[1] \in Nat
      <4>1. PICK r \in processed : e \in EntriesUpTo(r, Len(r.logs), s, contract)
        BY <3>1 DEF EntriesOf
      <4>2. r \in Receipts /\ Len(r.logs) \in Nat
        BY ReceiptsAssumption DEF IInv, TypeOK
      <4>3. LogTyped(e.log) /\ e.at \in Coord
        BY <4>1, <4>2, EntryFacts
      <4> QED
        BY <3>1, <4>3 DEF Outcome, Coord
    <3>3. m.credential.issuer = e.log.issuer /\ e.log.issuer \in Issuers
      <4>1. Credential(e.log) \in Credentials
        BY <3>2 DEF LogTyped
      <4>2. Credential(e.log).issuer = e.log.issuer
        BY DEF Credential
      <4>3. Credential(e.log).issuer \in Issuers
        BY <4>1 DEF Credentials
      <4> HIDE DEF m
      <4> QED
        BY <3>1, <4>2, <4>3
    <3>4. KeyOf(e.log) # 0 => KeyOf(e.log) \in KeyEpochs
      BY <3>2 DEF KeyOf, LogTyped, IssueSigs
    <3>5. IsMarkIssuerUsable(store, s) <=>
            \/ KeyOf(e.log) = 0
            \/ ~store.key[<<e.log.issuer, KeyOf(e.log)>>].compromised
            \/ e.at[1] <= store.key[<<e.log.issuer, KeyOf(e.log)>>].lastTrusted
      BY <3>1, <3>3 DEF IsMarkIssuerUsable
    <3> QED
      BY <3>2, <3>3, <3>4, <3>5, CutoffIsDistrust
  <2>2. ASSUME NEW p \in TrustedLogs(processed, "RosterEpochPublished"), NEW i \in Issuers,
               p[1].logs[p[2]].epoch = store.roster.epoch,
               i \in AuthorizedIssuers(p[1], p[1].logs[p[2]])
        PROVE  LET L == p[1].logs[p[2]]
                   a == ApprovalOf(p[1], L, i)
               IN IsEpochIssuerUsable(store, L.epoch, i) <=>
                    a.keyEpoch = 0 \/ ~Distrusted(i, a.keyEpoch, p[1].height)
    <3> DEFINE L == p[1].logs[p[2]]
               a == ApprovalOf(p[1], L, i)
    <3>1. store.approval[<<L.epoch, i>>] = a
      BY <2>2 DEF LogsInv, RosterFollows
    <3>2. a.approved = TRUE /\ a.height = p[1].height
      BY DEF ApprovalOf
    <3>3. p[1] \in Receipts /\ p[1].height \in Nat /\ L.epoch \in Epochs
      <4>1. PICK r \in processed : \E j \in DOMAIN r.logs :
              p = <<r, j>> /\ r.logs[j].emitter = contract /\ r.logs[j].sig = "RosterEpochPublished"
        BY <2>2, TrustedMembers
      <4>2. r \in Receipts
        BY DEF IInv, TypeOK
      <4> QED
        BY <4>1, <4>2, ReceiptsAssumption DEF LogTyped
    <3>4. a.keyEpoch \in KeyEpochs \cup {0}
      <4>1. store.approval \in [Epochs \X Issuers -> Approvals]
        BY DEF IInv, TypeOK, Stores
      <4>2. store.approval[<<L.epoch, i>>] \in Approvals
        BY <3>3, <4>1
      <4> HIDE DEF a
      <4> QED
        BY <3>1, <4>2 DEF Approvals
    <3> HIDE DEF a, L
    <3>5. IsEpochIssuerUsable(store, L.epoch, i) <=>
            \/ a.keyEpoch = 0
            \/ ~store.key[<<i, a.keyEpoch>>].compromised
            \/ p[1].height <= store.key[<<i, a.keyEpoch>>].lastTrusted
      BY <3>1, <3>2 DEF IsEpochIssuerUsable
    <3>6. IsEpochIssuerUsable(store, L.epoch, i) <=>
            a.keyEpoch = 0 \/ ~Distrusted(i, a.keyEpoch, p[1].height)
      BY <3>3, <3>4, <3>5, CutoffIsDistrust
    <3> QED
      BY <3>6 DEF a, L
  <2> QED
    BY <2>1, <2>2 DEF CompromiseCutsOff
<1> QED
  BY LogsInvariant, <1>1, PTL
=============================================================================
