------------------------- MODULE PublicationJournal -------------------------
(***************************************************************************)
(* The publisher's journal: one encrypted file holding every roster        *)
(* publication that was ever planned, and a lock file beside it that the   *)
(* process which opened it removes when it closes.  The lock has no expiry *)
(* and a process that dies, or whose last write is unconfirmed, leaves it. *)
(***************************************************************************)
EXTENDS Integers, Sequences

CONSTANTS
  Plans,     \* the calldata of a publication: epoch, cutoff and list snapshot
  NoTx, NoConf,
  MaxEntries \* bound on journal entries (the code: 1000)

VARIABLES
  entries,   \* the journal file
  lock       \* the lock file exists

journalVars == <<entries, lock>>

\* A confirmation names the block the receipt was in and its status.
Confirmations == [block : Nat, ok : BOOLEAN]

Entries ==
  [plan : Plans,
   tx : Nat \cup {NoTx},                   \* the signed transaction, by its nonce
   conf : Confirmations \cup {NoConf},
   abandoned : BOOLEAN]

JournalTypeOK ==
  /\ entries \in Seq(Entries) /\ Len(entries) <= MaxEntries
  /\ lock \in BOOLEAN

JournalInit == entries = << >> /\ lock = FALSE

Standing(es) == {i \in DOMAIN es : ~es[i].abandoned}

Unsettled(es) == {i \in Standing(es) : es[i].conf = NoConf}

\* entries.filter(e => !e.abandonment).at(-1), or 0
LastStanding(es) ==
  IF Standing(es) = {} THEN 0
  ELSE CHOOSE i \in Standing(es) : \A j \in Standing(es) : j <= i

-----------------------------------------------------------------------------
\* What the file may hold: the constructor and every save validate it.
ValidAbandonment(e) == e.abandoned => e.tx = NoTx /\ e.conf = NoConf
ValidConfirmation(e) == e.conf # NoConf => e.tx # NoTx
Valid(es) ==
  /\ \A i \in DOMAIN es : ValidAbandonment(es[i]) /\ ValidConfirmation(es[i])
  /\ Unsettled(es) \subseteq {Len(es)}

MayBegin(es) == Unsettled(es) = {} /\ Len(es) < MaxEntries

Begun(es, plan) ==
  Append(es, [plan |-> plan, tx |-> NoTx, conf |-> NoConf, abandoned |-> FALSE])

MayPrepare(es, i, nonce) ==
  /\ ~es[i].abandoned /\ es[i].tx = NoTx
  /\ \A j \in DOMAIN es : es[j].tx # nonce

Prepared(es, i, nonce) == [es EXCEPT ![i].tx = nonce]

Confirmed(es, i, c) == [es EXCEPT ![i].conf = c]

MayAbandon(es, i) == es[i].tx = NoTx /\ es[i].conf = NoConf

Abandoned(es, i) == [es EXCEPT ![i].abandoned = TRUE]

-----------------------------------------------------------------------------
\* open(path + ".lock", "wx")
OpenJournal == ~lock /\ lock' = TRUE

Close == lock' = FALSE

\* A save replaces the file by rename; when it reports an error the file may
\* be either version, and the journal object answers nothing more.
Save(es) == Valid(es) /\ entries' = es
SaveUnconfirmed(es) == Valid(es) /\ entries' \in {entries, es} /\ lock' = lock

\* The operator removes the lock of a process that is gone.
ClearLock == lock /\ lock' = FALSE /\ UNCHANGED entries
=============================================================================
