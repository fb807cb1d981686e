----------------------------- MODULE RosterTree -----------------------------
(***************************************************************************)
(* The tree behind an epoch root (pipeline/roster.ts and RosterProof.sol): *)
(* the listed subjects sorted by key between two sentinels, hashed in      *)
(* pairs without losing positions.  A subject is shown to be listed by its *)
(* path to the root, and not to be listed by the paths of two neighbouring *)
(* leaves around its key.  A hash is the term it is taken of.  A replica   *)
(* serves proofs from a bundle it loaded once (roster-bundle.ts,           *)
(* roster-proof-server.ts), while the root on chain goes on changing.      *)
(***************************************************************************)
EXTENDS Integers, FiniteSets, Sequences

CONSTANTS
  TreeKeys,     \* subject keys 1 .. TreeKeys; 0 and TreeKeys + 1 are the sentinels'
  TreeMarks,    \* mark hashes
  NotListed,    \* no mark, and the sentinels' mark
  NoRoster,
  NEVER_ISSUED, DEMO_SUBJECT   \* the two subjects the publisher asks about

SubjectKeys == 1 .. TreeKeys

ASSUME TreeAssumption ==
  TreeKeys \in Nat /\ NotListed \notin TreeMarks /\ {NEVER_ISSUED, DEMO_SUBJECT} \subseteq SubjectKeys

VARIABLES
  published,   \* the roster whose root is in force
  replica      \* the roster a proof server was started with

treeVars == <<published, replica>>

MIN_KEY == 0
MAX_KEY == TreeKeys + 1

\* What a roster says of every subject key.
Listings == [SubjectKeys -> TreeMarks \cup {NotListed}]

Members(listing) == {k \in SubjectKeys : listing[k] # NotListed}

LeafOf(key, mark) == <<"leaf", key, mark>>
HashNode(l, r) == <<"node", l, r>>
RosterRoot(top, count) == <<"root", count, top>>

-----------------------------------------------------------------------------
\* buildRoster: the keys in order, with a sentinel at both ends
Keys(listing) ==
  LET n == Cardinality(Members(listing))
      Rank(k) == Cardinality({j \in Members(listing) : j <= k})
  IN  [i \in 0 .. n + 1 |->
         IF i = 0 THEN MIN_KEY
         ELSE IF i = n + 1 THEN MAX_KEY
         ELSE CHOOSE k \in Members(listing) : Rank(k) = i]

MarkOf(listing, key) == IF key \in Members(listing) THEN listing[key] ELSE NotListed

LeafCount(listing) == Cardinality(Members(listing)) + 2

Leaves(listing) ==
  [i \in 0 .. LeafCount(listing) - 1 |->
     LeafOf(Keys(listing)[i], MarkOf(listing, Keys(listing)[i]))]

\* A layer above w nodes; an odd tail is paired with itself.
Halved(w) == (w + 1) \div 2

Height(w) == CHOOSE h \in 0 .. w : 2 ^ h >= w /\ \A g \in 0 .. h - 1 : 2 ^ g < w

Above(layer, w) ==
  [i \in 0 .. Halved(w) - 1 |->
     HashNode(layer[2 * i], layer[IF 2 * i + 1 < w THEN 2 * i + 1 ELSE 2 * i])]

Layers(listing) ==
  LET layer[h \in 0 .. Height(LeafCount(listing))] ==
        IF h = 0 THEN [width |-> LeafCount(listing), nodes |-> Leaves(listing)]
        ELSE [width |-> Halved(layer[h - 1].width),
              nodes |-> Above(layer[h - 1].nodes, layer[h - 1].width)]
  IN  layer

Root(listing) ==
  RosterRoot(Layers(listing)[Height(LeafCount(listing))].nodes[0], LeafCount(listing))

-----------------------------------------------------------------------------
Pair(idx) == IF idx % 2 = 0 THEN idx + 1 ELSE idx - 1

\* inclusionProof, for the leaf at an index
InclusionProof(listing, index) ==
  LET layers == Layers(listing)
      sibling(h) ==
        LET idx == index \div (2 ^ h)
            l == layers[h]
        IN  l.nodes[IF Pair(idx) < l.width THEN Pair(idx) ELSE idx]
  IN  [index |-> index, leafCount |-> LeafCount(listing),
       siblings |-> [h \in 1 .. Height(LeafCount(listing)) |-> sibling(h - 1)]]

\* verifyInclusion, up the siblings: an odd tail's sibling must be itself.
Walk(leaf, p) ==
  LET walk[n \in 0 .. Len(p.siblings)] ==
        IF n = 0 THEN [ok |-> TRUE, acc |-> leaf, idx |-> p.index, width |-> p.leafCount]
        ELSE LET w == walk[n - 1]
                 s == p.siblings[n]
             IN  [ok |-> w.ok /\ w.width > 1 /\ (Pair(w.idx) >= w.width => s = w.acc),
                  acc |-> IF w.idx % 2 = 0 THEN HashNode(w.acc, s) ELSE HashNode(s, w.acc),
                  idx |-> w.idx \div 2, width |-> Halved(w.width)]
  IN  walk[Len(p.siblings)]

VerifyInclusion(root, leaf, p) ==
  /\ p.leafCount >= 2 /\ p.index >= 0 /\ p.index < p.leafCount
  /\ LET top == Walk(leaf, p)
     IN  top.ok /\ top.width = 1 /\ top.idx = 0 /\ RosterRoot(top.acc, p.leafCount) = root

\* nonInclusionProof: the neighbours around a key that is not listed
NonInclusionProof(listing, key) ==
  LET keys == Keys(listing)
      hi == CHOOSE i \in DOMAIN keys : keys[i] > key /\ \A j \in 0 .. i - 1 : keys[j] <= key
      side(i) == [proof |-> InclusionProof(listing, i), key |-> keys[i],
                  mark |-> MarkOf(listing, keys[i])]
  IN  [left |-> side(hi - 1), right |-> side(hi)]

\* Faulty variant: two leaves that need not be neighbours.
AnyTwo(l, r) == l.proof.leafCount = r.proof.leafCount

\* The two leaves are next to each other in a tree of one size.
Adjacent(l, r) ==
  /\ r.proof.index = l.proof.index + 1
  /\ l.proof.leafCount = r.proof.leafCount
  /\ Len(l.proof.siblings) = Len(r.proof.siblings)

VerifyNonInclusion(root, key, p) ==
  /\ p.left.key < key /\ key < p.right.key
  /\ Adjacent(p.left, p.right)
  /\ VerifyInclusion(root, LeafOf(p.left.key, p.left.mark), p.left.proof)
  /\ VerifyInclusion(root, LeafOf(p.right.key, p.right.mark), p.right.proof)

-----------------------------------------------------------------------------
\* loadRosterBundle(...).proof: a binary search for the first key not below.
Search(listing, key) ==
  LET keys == Keys(listing)
      hiMax == LeafCount(listing) - 1
      step[n \in 0 .. hiMax] ==
        IF n = 0 THEN [lo |-> 1, hi |-> hiMax]
        ELSE LET s == step[n - 1]
                 mid == (s.lo + s.hi) \div 2
             IN  IF s.lo >= s.hi THEN s
                 ELSE IF keys[mid] < key THEN [s EXCEPT !.lo = mid + 1]
                 ELSE [s EXCEPT !.hi = mid]
  IN  step[hiMax].lo

BundleProof(listing, key) ==
  LET lo == Search(listing, key)
      keys == Keys(listing)
      side(i) == [proof |-> InclusionProof(listing, i), key |-> keys[i],
                  mark |-> MarkOf(listing, keys[i])]
  IN  IF keys[lo] = key
      THEN [kind |-> "inclusion", mark |-> listing[key], proof |-> InclusionProof(listing, lo)]
      ELSE [kind |-> "non-inclusion", proof |-> [left |-> side(lo - 1), right |-> side(lo)]]

\* encodeRosterWitness: the entry's own mark and path
EncodeRosterWitness(listing, key) ==
  LET i == CHOOSE i \in DOMAIN Keys(listing) : Keys(listing)[i] = key
  IN  [mark |-> listing[key], proof |-> InclusionProof(listing, i)]

\* loadRosterBundle takes a file only if its entries give the root it states
\* (the content pin is over the same bytes).
Loads(bundle) == Root(bundle.entries) = bundle.root

\* checkBundleProof under the root on chain: the bundle states that root, and
\* the registry accepts the proof.
CheckBundleProof(root, stated, key, b) ==
  /\ stated = root
  /\ IF b.kind = "inclusion" THEN VerifyInclusion(root, LeafOf(key, b.mark), b.proof)
     ELSE VerifyNonInclusion(root, key, b.proof)

NotThere(listing, root) ==
  /\ NEVER_ISSUED \notin Members(listing)
  /\ VerifyNonInclusion(root, NEVER_ISSUED, NonInclusionProof(listing, NEVER_ISSUED))

\* publish-epoch's selfCheck: every entry, and one subject that is absent
SelfCheck(listing) ==
  /\ \A i \in 1 .. LeafCount(listing) - 2 :
       VerifyInclusion(Root(listing), Leaves(listing)[i], InclusionProof(listing, i))
  /\ NotThere(listing, Root(listing))

\* offChainVerdicts: a tree built again, under the root read from the chain
OffChainVerdicts(listing, root) ==
  /\ DEMO_SUBJECT \in Members(listing) =>
       LET w == EncodeRosterWitness(listing, DEMO_SUBJECT)
       IN  VerifyInclusion(root, LeafOf(DEMO_SUBJECT, w.mark), w.proof)
  /\ NotThere(listing, root)

\* rosterVerdicts: the registry's answers, of which there are none without
\* the demo subject.  What the two policies ask of a mark is the registry's.
RosterVerdicts(listing, root) ==
  DEMO_SUBJECT \in Members(listing) /\ OffChainVerdicts(listing, root)

TreeInit == published = NoRoster /\ replica = NoRoster

\* Only a roster that passes the self-check is published.
PublishRoster(listing) ==
  SelfCheck(listing) /\ published' = listing /\ UNCHANGED replica

\* A replica is started with a file that may state any root.
StartReplica(bundle) ==
  Loads(bundle) /\ replica = NoRoster /\ replica' = bundle.entries /\ UNCHANGED published

TreeNext ==
  \/ \E listing \in Listings : PublishRoster(listing)
  \/ \E listing \in Listings, other \in Listings :
       StartReplica([root |-> Root(other), entries |-> listing])

-----------------------------------------------------------------------------
\* Paths anybody can put together: one of any roster, for any place in a tree
\* of any size.
Paths ==
  {[index |-> i, leafCount |-> c, siblings |-> s] :
     i \in 0 .. TreeKeys + 1, c \in 2 .. TreeKeys + 2,
     s \in UNION {{InclusionProof(l, i).siblings : i \in 0 .. LeafCount(l) - 1} : l \in Listings}}

\* The leaves, the sentinels' included, that a path shows under a root.
Shown(root) ==
  {s \in {[proof |-> p, key |-> k, mark |-> m] :
            p \in Paths, k \in MIN_KEY .. MAX_KEY, m \in TreeMarks \cup {NotListed}} :
     VerifyInclusion(root, LeafOf(s.key, s.mark), s.proof)}

(***************************************************************************)
(* A root answers for exactly its roster.  Whatever path is offered, of    *)
(* this roster or another one, at any place in a tree of any size: a leaf  *)
(* that verifies is listed with that mark, and two leaves that verify as   *)
(* the neighbours around a key show that the key is not listed.  What a    *)
(* consumer accepts from a replica, however old its bundle, is what the    *)
(* root in force says, and a current replica has an answer for everybody.  *)
(* A tree whose verdicts hold under the root is the tree that was          *)
(* published.                                                              *)
(***************************************************************************)
ProofsAreExact ==
  published # NoRoster =>
    LET root == Root(published)
        shown == Shown(root)
    IN
    /\ replica = NoRoster =>
         /\ \A s \in shown : s.key \in SubjectKeys => published[s.key] = s.mark /\ s.mark # NotListed
         /\ \A l \in shown, r \in shown : Adjacent(l, r) =>
              \A k \in Members(published) : ~(l.key < k /\ k < r.key)
         /\ \A l \in Listings :
              OffChainVerdicts(l, root) \/ RosterVerdicts(l, root) => l = published
    /\ replica # NoRoster =>
         \A k \in SubjectKeys :
           LET b == BundleProof(replica, k)
               accepted == CheckBundleProof(root, Root(replica), k, b)
           IN
           /\ replica = published => accepted
           /\ accepted =>
                /\ (b.kind = "inclusion") = (k \in Members(published))
                /\ k \in Members(published) =>
                     EncodeRosterWitness(published, k) = [mark |-> b.mark, proof |-> b.proof]
=============================================================================
