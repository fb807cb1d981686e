-------------------------- MODULE MCGatedRwaNote ---------------------------
(***************************************************************************)
(* Two holders and two accounts; beside them, every roster of four         *)
(* subjects.                                                               *)
(***************************************************************************)
EXTENDS GatedRwaNote, RosterTree, TLC

Mark(grade, issuedAt, expiry) ==
  [issuer |-> "kyc", kind |-> 1, grade |-> grade, issuedAt |-> issuedAt, expiry |-> expiry]
MCMarks == {Mark(1, 0, 2), Mark(2, 0, 3)}

Body(fresh, minGrade, maxAge) ==
  [roster |-> fresh, minGrade |-> minGrade, maxAge |-> maxAge, issuer |-> "kyc"]
MCPolicies == {Body(TRUE, 1, 0), Body(TRUE, 2, 1), Body(FALSE, 1, 0)}

\* Every holder listed or not, with either mark, for a short or a long time.
MCPublications ==
  [listed : [Holders -> MCMarks \cup {NoMark}], validUntil : {MaxTime}, approved : {Issuers}]
  \cup {[listed |-> [h \in Holders |-> Mark(1, 0, 2)], validUntil |-> 1, approved |-> Issuers]}

\* The rosters are published before anything else happens.
NoteAndTreeInit == NoteInit /\ TreeInit
NoteAndTreeNext ==
  \/ GatedNext /\ treeVars = <<NoRoster, NoRoster>> /\ UNCHANGED treeVars
  \/ now = 0 /\ policies = << >> /\ roster.epoch = 0 /\ tombstone = {}
       /\ direct = [h \in Holders |-> NoMark] /\ TreeNext /\ UNCHANGED gatedVars
NoteAndTreeSpec == NoteAndTreeInit /\ [][NoteAndTreeNext]_<<gatedVars, treeVars>>

Symmetries == Permutations(Holders) \cup Permutations(Accounts)

\* Direct marks are explored before there is a note; afterwards they are read
\* by nobody.  The token moves once two epochs are possible.
NoteOrDirect ==
  /\ Deployed => direct = [h \in Holders |-> NoMark]
  /\ ~Deployed => now <= 1 /\ roster.epoch <= 1
=============================================================================
