------------------------------ MODULE RelayHub -----------------------------
(***************************************************************************)
(* The hub chain as the worker's RPC node shows it: blocks with at most    *)
(* one relay transaction each (empty blocks only add depth and are left    *)
(* out), the depth at which the worker trusts a block, and the pending     *)
(* transactions of the worker's dedicated signer.  Blocks above the        *)
(* trusted depth may be replaced, and in a rollback a deeper one too.      *)
(***************************************************************************)
EXTENDS Integers, Sequences, FiniteSets

CONSTANTS
  Relayable,      \* source transactions
  NoSignature,    \* a relay sent by somebody else's signer
  Mixes           \* the sets of faults that one behaviour may meet, each once

VARIABLES
  blocks,         \* [source, hash, nonce, success, fork]
  settled,        \* blocks 1 .. settled have WORKER_HUB_CONFIRMATIONS confirmations
  mempool,        \* envelopes [source, nonce, hash] of the signer
  sent,           \* every envelope that ever reached the hub
  trouble         \* the faults met so far, of the hub, the source and the worker

hubVars == <<blocks, settled, mempool, sent>>

HubInit ==
  /\ blocks = << >> /\ settled = 0
  /\ mempool = {} /\ sent = {}
  /\ trouble = {}

\* The behaviour meets faults it has not met before.
Meets(faults) ==
  /\ trouble \cap faults = {}
  /\ trouble' = trouble \cup faults
  /\ \E m \in Mixes : trouble' \subseteq m

\* processedQueries at block n: the query of transaction t has been executed.
Processed(t, n) ==
  \E i \in 1 .. n : i <= Len(blocks) /\ blocks[i].source = t /\ blocks[i].success

\* getTransactionCount(signer, "latest") and "pending".
LatestNonce == Cardinality({i \in DOMAIN blocks : blocks[i].hash # NoSignature})

PendingNonce ==
  LatestNonce + (IF \E e \in mempool : e.nonce = LatestNonce THEN 1 ELSE 0)

\* A block and its hash, which fixes what its transaction did.
BlockId(i) == <<i, blocks[i].fork, blocks[i].success>>

IsCanonical(id) == id[1] <= Len(blocks) /\ BlockId(id[1]) = id

\* The block that holds the transaction, 0 if there is none.
MinedIn(hash) ==
  IF \E i \in DOMAIN blocks : blocks[i].hash = hash
  THEN CHOOSE i \in DOMAIN blocks : blocks[i].hash = hash
  ELSE 0

Block(t, hash, nonce, success) ==
  [source |-> t, hash |-> hash, nonce |-> nonce, success |-> success, 
   fork |-> "fork" \in trouble]

\* A pending transaction is executed: it succeeds only if nobody executed the
\* query before, and the contract may refuse it.
MineRelay(e) ==
  /\ e \in mempool /\ e.nonce = LatestNonce
  /\ \E success \in BOOLEAN :
       /\ success => ~Processed(e.source, Len(blocks))
       /\ blocks' = Append(blocks, Block(e.source, e.hash, e.nonce, success))
  /\ mempool' = mempool \ {e}
  /\ UNCHANGED <<settled, sent, trouble>>

\* Anybody may relay a receipt.
MineOther(t) ==
  /\ Meets({"other"})
  /\ ~Processed(t, Len(blocks))
  /\ blocks' = Append(blocks, Block(t, NoSignature, 0, TRUE))
  /\ UNCHANGED <<settled, mempool, sent>>

Settle ==
  /\ settled < Len(blocks)
  /\ settled' = settled + 1
  /\ UNCHANGED <<blocks, mempool, sent, trouble>>

\* The last block is replaced; its transaction is pending again.
HubFork ==
  /\ blocks # << >>
  /\ Meets(IF settled = Len(blocks) THEN {"fork", "rollback"} ELSE {"fork"})
  /\ LET last == blocks[Len(blocks)] IN
     mempool' = mempool \cup {e \in sent : e.hash = last.hash}
  /\ blocks' = SubSeq(blocks, 1, Len(blocks) - 1)
  /\ settled' = IF settled = Len(blocks) THEN settled - 1 ELSE settled
  /\ UNCHANGED sent

\* A node may forget a pending transaction.
Drop(e) ==
  /\ e \in mempool /\ Meets({"drop"})
  /\ mempool' = mempool \ {e}
  /\ UNCHANGED <<blocks, settled, sent>>

HubNext ==
  \/ \E e \in mempool : MineRelay(e) \/ Drop(e)
  \/ \E t \in Relayable : MineOther(t)
  \/ Settle
  \/ HubFork

\* eth_sendRawTransaction: accepted unless it is mined already, or lost on the way.
Deliver(e) ==
  /\ mempool' = IF MinedIn(e.hash) = 0 THEN mempool \cup {e} ELSE mempool
  /\ sent' = sent \cup {e}
  /\ UNCHANGED <<blocks, settled>>
=============================================================================
