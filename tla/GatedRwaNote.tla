--------------------------- MODULE GatedRwaNote ----------------------------
(***************************************************************************)
(* GatedRwaNote on the hub chain: a token whose holders meet one frozen    *)
(* roster policy of the registry, and a recovery that moves the balance of *)
(* a holder who does not, proposed by one account and approved by another. *)
(***************************************************************************)
EXTENDS ProofmarkRegistry

CONSTANTS
  RecoveryDelay,              \* MIN_RECOVERY_DELAY
  MaxSupply, MaxRecoveries    \* bounds

ASSUME NoteAssumption == RecoveryDelay \in Nat /\ MaxSupply \in Nat

VARIABLES
  noteOwner,       \* owner(), NoAccount before the deployment
  policyId,        \* POLICY_ID
  balance,
  proposer, approver,      \* recoveryProposer, recoveryApprover
  requests                 \* recoveryRequests by id

noteVars == <<noteOwner, policyId, balance, proposer, approver, requests>>

Deployed == noteOwner # NoAccount

NoteInit ==
  /\ RegistryInit
  /\ noteOwner = NoAccount /\ policyId = 0
  /\ balance = [h \in Holders |-> 0]
  /\ proposer = NoAccount /\ approver = NoAccount
  /\ requests = << >>

\* The constructor.
Deploy(a, id) ==
  /\ ~Deployed
  /\ id \in PolicyIds /\ policies[id].frozen /\ policies[id].body.roster
  /\ noteOwner' = a /\ policyId' = id
  /\ UNCHANGED <<balance, proposer, approver, requests>>

(***************************************************************************)
(* _update: the balances after a movement, from and to NoAccount for a     *)
(* mint and a burn.                                                        *)
(***************************************************************************)
Passes(from, to, bypass) ==
  /\ from # NoAccount /\ ~bypass => IsVerified(from, policyId)
  /\ to # NoAccount => IsVerified(to, policyId)

Moved(from, to, amount) ==
  [h \in Holders |-> balance[h] - (IF h = from THEN amount ELSE 0) + (IF h = to THEN amount ELSE 0)]

Update(from, to, amount, bypass) ==
  /\ Passes(from, to, bypass)
  /\ from # NoAccount => balance[from] >= amount
  /\ balance' = Moved(from, to, amount)

\* mint, called by the owner.
MintTo(h) ==
  /\ Deployed /\ \A g \in Holders : balance[g] < MaxSupply
  /\ Update(NoAccount, h, 1, FALSE)
  /\ UNCHANGED <<noteOwner, policyId, proposer, approver, requests>>

Burn(h) ==
  /\ Deployed /\ Update(h, NoAccount, 1, FALSE)
  /\ UNCHANGED <<noteOwner, policyId, proposer, approver, requests>>

\* transfer and transferFrom.
Transfer(g, h) ==
  /\ Deployed /\ Update(g, h, 1, FALSE)
  /\ UNCHANGED <<noteOwner, policyId, proposer, approver, requests>>

(***************************************************************************)
(* Recovery.                                                               *)
(***************************************************************************)
\* Faulty variant: the two authorities may be named again.
ReconfigureRecoveryGovernance(a, p, q) ==
  /\ Deployed /\ a = noteOwner /\ p # q
  /\ proposer' = p /\ approver' = q
  /\ UNCHANGED <<noteOwner, policyId, balance, requests>>

ConfigureRecoveryGovernance(a, p, q) ==
  /\ Deployed /\ a = noteOwner
  /\ proposer = NoAccount /\ p # q
  /\ proposer' = p /\ approver' = q
  /\ UNCHANGED <<noteOwner, policyId, balance, requests>>

\* to is NoAccount for a burn.
ProposeRecovery(a, from, to, amount) ==
  /\ Deployed /\ a = proposer
  /\ to # NoAccount => IsVerified(to, policyId)
  /\ Len(requests) < MaxRecoveries
  /\ requests' = Append(requests,
       [from |-> from, to |-> to, amount |-> amount, proposer |-> a, approver |-> NoAccount,
        executeAfter |-> now + RecoveryDelay, executed |-> FALSE])
  /\ UNCHANGED <<noteOwner, policyId, balance, proposer, approver>>

ApproveRecovery(a, id) ==
  /\ a = approver
  /\ requests[id].approver = NoAccount /\ ~requests[id].executed
  /\ requests' = [requests EXCEPT ![id].approver = a]
  /\ UNCHANGED <<noteOwner, policyId, balance, proposer, approver>>

\* Faulty variant: an executed request may be executed again.
ExecuteRecoveryAgain(id) ==
  LET r == requests[id] IN
  /\ r.approver # NoAccount /\ now >= r.executeAfter
  /\ Update(r.from, r.to, r.amount, TRUE)
  /\ requests' = [requests EXCEPT ![id].executed = TRUE]
  /\ UNCHANGED <<noteOwner, policyId, proposer, approver>>

\* Anybody executes; the bypass is for the sender only and ends with the call.
ExecuteRecovery(id) ==
  LET r == requests[id] IN
  /\ ~r.executed
  /\ r.approver # NoAccount /\ now >= r.executeAfter
  /\ r.to # NoAccount => IsVerified(r.to, policyId)
  /\ Update(r.from, r.to, r.amount, TRUE)
  /\ requests' = [requests EXCEPT ![id].executed = TRUE]
  /\ UNCHANGED <<noteOwner, policyId, proposer, approver>>

NoteNext ==
  \/ \E a \in Accounts, id \in PolicyIds : Deploy(a, id)
  \/ \E h \in Holders : MintTo(h) \/ Burn(h) \/ \E g \in Holders : Transfer(g, h)
  \/ \E a, p, q \in Accounts : ConfigureRecoveryGovernance(a, p, q)
  \/ \E a \in Accounts, from \in Holders, to \in Holders \cup {NoAccount}, amount \in 1 .. MaxSupply :
       ProposeRecovery(a, from, to, amount)
  \/ \E a \in Accounts, id \in DOMAIN requests : ApproveRecovery(a, id)
  \/ \E id \in DOMAIN requests : ExecuteRecovery(id)

GatedNext ==
  \/ HubViewNext /\ UNCHANGED <<registryVars, noteVars>>
  \/ RegistryNext /\ UNCHANGED <<hubView, noteVars>>
  \/ NoteNext /\ UNCHANGED <<hubView, registryVars>>

gatedVars == <<hubView, registryVars, noteVars>>

NoteSpec == NoteInit /\ [][GatedNext]_gatedVars

(***************************************************************************)
(* Properties.                                                             *)
(***************************************************************************)
\* No one person recovers a balance: whoever approved a request is not who
\* proposed it, whatever is configured, proposed and approved in which order
\* (configureRecoveryGovernance: "can never satisfy both sides of a recovery
\* alone").
RecoveryTakesTwo ==
  \A id \in DOMAIN requests : requests[id].approver # requests[id].proposer

\* A balance moves between holders who meet the policy now; only the loss of a
\* recovery that is executed for the first time, approved and past its delay,
\* is excepted, and its gain is not (_update and executeRecovery).
BalancesMoveByRule ==
  [][\A h \in Holders :
       /\ balance'[h] > balance[h] => IsVerified(h, policyId)
       /\ balance'[h] < balance[h] =>
            \/ IsVerified(h, policyId)
            \/ \E id \in DOMAIN requests :
                 LET r == requests[id] IN
                 /\ ~r.executed /\ requests'[id].executed
                 /\ r.from = h /\ r.amount = balance[h] - balance'[h]
                 /\ r.approver # NoAccount /\ now >= r.executeAfter]_gatedVars
=============================================================================
