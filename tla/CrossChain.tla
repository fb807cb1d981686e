---------------------------- MODULE CrossChain -----------------------------
(***************************************************************************)
(* The two contracts together: ProofmarkASC on the hub is pinned to        *)
(* ComplianceSource, and anybody relays its receipts, in any order.  The   *)
(* hub verifies exactly the receipts the source mined.                     *)
(***************************************************************************)
EXTENDS ComplianceSource

CONSTANTS
  HubIssuers, HubEpochs, HubGenerations,   \* what the hub's storage is indexed by
  NoContract, NoReceipt, NoCredential, MaxTime

\* The hub's mappings hold whatever the source publishes, and addresses are numbers.
ASSUME CrossAssumption ==
  /\ {e.epoch : e \in Publications} \subseteq HubEpochs /\ HubEpochs \subseteq Nat \ {0}
  /\ Principals \subseteq HubIssuers
  /\ Address \in [Principals -> Nat]
  /\ MaxApprovals \in Nat \ {0}

VARIABLES chainKey, contract, now, processed, store, running, action, next, matched, work

hubVars == <<chainKey, contract, now, processed, store, running, action, next, matched, work>>

\* Receipts come from the source here, never from the constant of the hub.
Hub == INSTANCE ProofmarkASC WITH
  attested <- chain, Receipts <- {}, ChainKeys <- {ChainKey}, Contracts <- {This},
  Issuers <- HubIssuers, Epochs <- HubEpochs, KeyEpochs <- HubGenerations,
  Accounts <- Externals

\* The publisher replays the source's receipts.
Roster == INSTANCE RosterSource

CrossInit == SourceInit /\ Hub!Init

\* A hub transaction is atomic, so the source moves between hub transactions.
SourceStep == Hub!Idle /\ SourceNext /\ UNCHANGED hubVars

HubStep ==
  /\ \/ Hub!ConfigureSource(ChainKey, This)
     \/ Hub!Tick
     \/ \E r \in chain, a \in 0 .. 5 : Hub!Execute(r, a)
     \/ Hub!WalkLog
     \/ Hub!Revert
     \/ Hub!Commit
  /\ UNCHANGED sourceVars

CrossNext == SourceStep \/ HubStep

CrossSpec == CrossInit /\ [][CrossNext]_<<sourceVars, hubVars>>

(***************************************************************************)
(* Properties.                                                             *)
(***************************************************************************)
\* Whatever the source lets through, the hub accepts: no log of the pinned
\* source makes a handler revert and so blocks the rest of its receipt, except
\* a roster published later than the hub's clock shows.
SourceLogsAreAccepted ==
  Hub!Walking /\ Hub!LogReverts(work, running, running.logs[next]) =>
    /\ running.logs[next].sig = "RosterEpochPublished"
    /\ running.logs[next].publishedAt > now

\* Once every receipt is relayed the hub says what the source says: who is
\* denied, which correction lifted the last denial, and which epoch is current.
AgreesOnceRelayed ==
  processed = chain /\ txLogs = << >> =>
    /\ store.roster.epoch = lastEpoch
    /\ \A s \in Subjects :
         /\ store.subject[s].permanentDenial = denied[s]
         /\ ~denied[s] /\ revision[s] > 0 =>
              LET id == store.subject[s].corrected[2] IN
              /\ corrections[id].subject = s /\ corrections[id].executed
              /\ corrections[id].revision = revision[s]

\* The publisher's replay and the hub agree.  Once every receipt is relayed, in
\* whatever order, the roster the publisher would build then or later lists a
\* holder exactly when the hub's own mark is active, of a usable key and
\* unexpired at that time, and lists it with the credential the hub shows.
RosterMatchesHub ==
  processed = chain /\ txLogs = << >> =>
    \A s \in Subjects, at \in {height, height + 1} :
      LET m == store.subject[s]
          live == /\ m.status = "Active" /\ Hub!IsMarkIssuerUsable(store, s)
                  /\ Window[m.credential.attrs][2] > at
      IN  /\ Roster!Listed(chain, This, s, at) <=> live
          /\ live => Roster!Entry(chain, This, s) = m.credential
=============================================================================
