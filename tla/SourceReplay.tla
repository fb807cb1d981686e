---------------------------- MODULE SourceReplay ----------------------------
(***************************************************************************)
(* How the publisher replays the source chain while the chain moves:       *)
(* buildFromChain (script/publish-epoch.ts), buildSourceRoster             *)
(* (pipeline/roster-source.ts) and the encrypted checkpoint that lets the  *)
(* next replay start where this one ended.                                 *)
(*                                                                         *)
(* Two nodes answer: the roster node, which also serves receipts and logs, *)
(* and an independent header node.  Each has a chain of its own at any     *)
(* moment and may change it at any moment.  A block's hash commits to the  *)
(* block and its ancestors: here it is the chain up to the block.          *)
(***************************************************************************)
EXTENDS RosterSource

CONSTANTS
  Blocks,      \* what a block may carry: sequences of the contract's logs
  Height,      \* the length of every chain; the contract is created in block 1
  Chunk,       \* logChunk
  MaxBlocks,   \* SOURCE_SNAPSHOT_MAX_BLOCKS
  Holder,      \* one holder of the roster
  None,
  MaxMoves     \* bound on the nodes' changes of mind

ASSUME ReplayAssumption ==
  /\ {Height, Chunk, MaxBlocks} \subseteq Nat \ {0}
  /\ MaxMoves \in Nat
  /\ None \notin Seq(Blocks)

Nodes == {"roster", "header"}
Histories == [1 .. Height -> Blocks]

VARIABLES
  view,         \* view[n]: the chain of node n, and the highest block it calls
                \* finalized that also has SOURCE_CONFIRMATIONS
  moves,
  scan,         \* the running replay
  checkpoint,   \* SOURCE_SNAPSHOT_CHECKPOINT_PATH
  held,         \* the checkpoint's lock file
  snapshots     \* what buildFromChain returned so far

replayVars == <<view, moves, scan, checkpoint, held, snapshots>>

Views == [chain : Histories, final : 0 .. Height]

BlockHash(chain, height) == SubSeq(chain, 1, height)
Parent(hash) == SubSeq(hash, 1, Len(hash) - 1)

\* What the logs up to a block make of the holder.
Apply(state, height, block) ==
  FoldLeft(LAMBDA s, L : IF L.sig \in LifecycleSigs /\ L.subject = Holder
                           THEN Replay(s, height, L) ELSE s, state, block)

Quiet == [pc |-> "idle"]

\* A replay that has read nothing but the checkpoint file.
Opened(asked, expected, saved) ==
  [pc |-> "survey", asked |-> asked, expected |-> expected, saved |-> saved,
   height |-> 0, creation |-> << >>, cutoff |-> << >>, anchor |-> << >>,
   parent |-> << >>, block |-> << >>, state |-> FreshState, from |-> 0, logs |-> << >>]

-----------------------------------------------------------------------------
\* The nodes

NodeMoves(n) ==
  /\ moves < MaxMoves
  /\ \E v \in Views : v # view[n] /\ view' = [view EXCEPT ![n] = v]
  /\ moves' = moves + 1
  /\ UNCHANGED <<scan, checkpoint, held, snapshots>>

\* Both nodes are asked for the block, and their headers match.
Agreed(height, hash) == \A n \in Nodes : BlockHash(view[n].chain, height) = hash

Reading == UNCHANGED <<view, moves, checkpoint, held, snapshots>>

-----------------------------------------------------------------------------
\* A replay.  Every failed check and every failed call is Throw.

\* A fresh publication lets the replay choose its cutoff (asked = 0); one that an
\* approval froze asks for that block and expects that hash.
BeginReplay(asked, expected) ==
  /\ scan = Quiet /\ ~held
  /\ scan' = Opened(asked, expected, checkpoint)
  /\ held' = TRUE
  /\ UNCHANGED <<view, moves, checkpoint, snapshots>>

\* The saved checkpoint is what the replay starts from, unless it lies at or after
\* the block asked for.
StartsFromSaved ==
  scan.saved # None /\ (scan.asked = 0 \/ Len(scan.saved.hash) < scan.asked)

SavesItsEnd ==
  scan.saved # None => scan.asked = 0 \/ scan.asked > Len(scan.saved.hash)

Ceiling == Min({view[n].final : n \in Nodes})

\* The first calls: how far both nodes are final, and where the contract was created.
Survey ==
  /\ scan.pc = "survey"
  /\ LET height == IF scan.asked = 0 THEN Ceiling ELSE scan.asked IN
     /\ height \in 1 .. Ceiling
     /\ scan' = [scan EXCEPT !.pc = "cutoff", !.height = height,
                             !.creation = BlockHash(view["roster"].chain, 1)]
  /\ Reading

\* A checkpoint after the cutoff is refused.
ReadCutoff ==
  /\ scan.pc = "cutoff"
  /\ LET hash == BlockHash(view["header"].chain, scan.height) IN
     /\ Agreed(scan.height, hash)
     /\ scan.expected \in {None, hash}
     /\ StartsFromSaved => Len(scan.saved.hash) <= scan.height
     /\ scan' = [scan EXCEPT !.pc = "anchor", !.cutoff = hash]
  /\ Reading

AnchorStands(hash) == StartsFromSaved => hash = scan.saved.hash

\* The block before the first one to replay: the checkpoint's, or the parent of the
\* contract's creation.
ReadAnchor ==
  /\ scan.pc = "anchor"
  /\ LET at == IF StartsFromSaved THEN Len(scan.saved.hash) ELSE 0
         hash == BlockHash(view["header"].chain, at)
     IN  /\ Agreed(at, hash) /\ AnchorStands(hash)
         /\ scan.height - at <= MaxBlocks
         /\ scan' = [scan EXCEPT !.pc = IF at = scan.height THEN "recheck" ELSE "block",
                                 !.anchor = hash, !.parent = hash, !.from = at + 1,
                                 !.state = IF StartsFromSaved THEN scan.saved.state ELSE FreshState]
  /\ Reading

\* The next block has the last one as its parent; the contract's block and the cutoff
\* are the ones already seen.
ContinuesAnyChain(hash) == Len(hash) = Len(scan.cutoff) => hash = scan.cutoff
Continues(hash) ==
  /\ Parent(hash) = scan.parent
  /\ Len(hash) = 1 => hash = scan.creation
  /\ Len(hash) = Len(scan.cutoff) => hash = scan.cutoff

ReadBlock ==
  /\ scan.pc = "block"
  /\ LET at == Len(scan.parent) + 1
         hash == BlockHash(view["header"].chain, at)
     IN  /\ Agreed(at, hash) /\ Continues(hash)
         /\ scan' = [scan EXCEPT !.pc = "receipts", !.block = hash]
  /\ Reading

\* Their receipts carry the block's hash and add up to its receiptsRoot.
ReadReceipts ==
  /\ scan.pc = "receipts"
  /\ LET at == Len(scan.block) IN
     /\ BlockHash(view["roster"].chain, at) = scan.block
     /\ scan' = [scan EXCEPT
          !.pc = IF at = scan.height \/ at - scan.from + 1 = Chunk THEN "logs" ELSE "block",
          !.parent = scan.block,
          !.state = Apply(scan.state, at, Last(scan.block)),
          !.logs = Append(scan.logs, <<scan.block, Last(scan.block)>>)]
  /\ Reading

\* getLogs over the chunk answers what the receipts said; each log names its block.
ReadLogs ==
  /\ scan.pc = "logs"
  /\ LET to == Len(scan.parent)
         chain == view["roster"].chain
         named == [k \in 1 .. to - scan.from + 1 |->
                    <<BlockHash(chain, scan.from + k - 1), chain[scan.from + k - 1]>>]
         OfContract(x) == x[2] # << >>
     IN  /\ SelectSeq(named, OfContract) = SelectSeq(scan.logs, OfContract)
         /\ scan' = [scan EXCEPT !.pc = IF to = scan.height THEN "recheck" ELSE "block",
                                 !.from = to + 1, !.logs = << >>]
  /\ Reading

Result == [hash |-> scan.cutoff, state |-> scan.state]

\* Cutoff and anchor stand and are still final on both nodes.
Rechecked ==
  /\ scan.pc = "recheck"
  /\ Agreed(scan.height, scan.cutoff) /\ Agreed(Len(scan.anchor), scan.anchor)
  /\ \A n \in Nodes : view[n].final >= scan.height

\* The checkpoint is saved, then the snapshot is returned and the lock released.
Finish ==
  /\ Rechecked
  /\ checkpoint' = IF SavesItsEnd THEN Result ELSE checkpoint
  /\ snapshots' = snapshots \cup {Result}
  /\ scan' = Quiet /\ held' = FALSE
  /\ UNCHANGED <<view, moves>>

\* SOURCE_CHECKPOINT_WRITE_UNCONFIRMED: the file may hold the new checkpoint or the
\* old one, and there is no snapshot.
SaveUnconfirmed ==
  /\ Rechecked /\ SavesItsEnd
  /\ checkpoint' \in {checkpoint, Result}
  /\ scan' = Quiet /\ held' = FALSE
  /\ UNCHANGED <<view, moves, snapshots>>

Throws ==
  /\ scan # Quiet
  /\ scan' = Quiet /\ held' = FALSE
  /\ UNCHANGED <<view, moves, checkpoint, snapshots>>

\* The process dies and leaves its lock; an operator removes it.
Dies ==
  /\ scan # Quiet
  /\ scan' = Quiet
  /\ UNCHANGED <<view, moves, checkpoint, held, snapshots>>

RemoveLock ==
  /\ held /\ scan = Quiet
  /\ held' = FALSE
  /\ UNCHANGED <<view, moves, scan, checkpoint, snapshots>>

ReplayInit ==
  /\ view \in [Nodes -> Views] /\ moves = 0
  /\ scan = Quiet /\ checkpoint = None /\ held = FALSE /\ snapshots = {}

ReplayNext ==
  \/ \E n \in Nodes : NodeMoves(n)
  \/ BeginReplay(0, None)
  \/ \E s \in snapshots : BeginReplay(Len(s.hash), s.hash)
  \/ Survey \/ ReadCutoff \/ ReadAnchor \/ ReadBlock \/ ReadReceipts \/ ReadLogs
  \/ Finish \/ SaveUnconfirmed \/ Throws \/ Dies \/ RemoveLock

ReplaySpec == ReplayInit /\ [][ReplayNext]_replayVars

-----------------------------------------------------------------------------

\* A holder's state after a cold replay of the chain a hash names.
ColdReplay(hash) ==
  FoldLeft(LAMBDA s, k : Apply(s, k, hash[k]), FreshState, [k \in DOMAIN hash |-> k])

(***************************************************************************)
(* Whatever the nodes do between the calls of a replay, and from whichever *)
(* checkpoint it started (one of an interrupted replay, of a block since   *)
(* forked away, of a write nobody confirmed), the roster a snapshot states *)
(* and the state a checkpoint keeps are those of a cold replay of the one  *)
(* chain that its block hash names: no roster mixes the logs of two forks, *)
(* skips a block or counts one twice.                                      *)
(***************************************************************************)
SnapshotIsCanonical ==
  \A s \in snapshots \cup ({checkpoint} \ {None}) : s.state = ColdReplay(s.hash)
=============================================================================
