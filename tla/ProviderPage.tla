---------------------------- MODULE ProviderPage ----------------------------
(***************************************************************************)
(* The hosted verification page (web/app/verify/provider/page.tsx): wallet *)
(* consent, the provider's embedded SDK with its token renewals, and the   *)
(* status that is read every half minute.  One action is at work at a time *)
(* until it settles; reads and renewals go on beside it.                   *)
(***************************************************************************)
EXTENDS WalletSession

CONSTANT MaxReads   \* status reads and token renewals

VARIABLES
  hosted,   \* what the page holds, each part named by its flow
  reads

hostedVars == <<sessionVars, hosted, reads>>

\* clear(): local authorization is dropped, whatever becomes of the SDK.
ClearedHosted ==
  [challenge |-> NoFlow, consent |-> FALSE, bound |-> NoFlow, observation |-> NoFlow, sdk |-> FALSE]

HostedInit == SessionInit /\ hosted = ClearedHosted /\ reads = 0

InvalidateHosted == Dispose /\ hosted' = ClearedHosted /\ UNCHANGED reads

\* act(): refused while an action has not settled
Locked == \E t \in tasks : t.kind \in {"connect", "sign", "prove", "token"}
Reading == \E t \in tasks : t.kind = "read"

ConnectHosted ==
  /\ ~Locked /\ hosted.challenge = NoFlow /\ hosted.bound = NoFlow
  /\ Attach("connect") /\ hosted' = ClearedHosted /\ UNCHANGED reads

PermittedHosted(t) ==
  Bind(t, [t EXCEPT !.at = "fetch"]) /\ UNCHANGED <<hosted, reads>>

ReviewConsent(c) ==
  /\ hosted.challenge # NoFlow /\ ~Locked /\ hosted' = [hosted EXCEPT !.consent = c]
  /\ UNCHANGED <<sessionVars, reads>>

Begin(kind, at, flow) ==
  /\ tasks' = tasks \cup {Task(kind, at, flow, flow)}
  /\ UNCHANGED <<selected, switches, heard, fence, holder, connects>>

\* signAndStart
SignAndStart ==
  /\ ~Locked /\ hosted.challenge # NoFlow /\ hosted.consent
  /\ Begin("sign", "check", hosted.challenge) /\ UNCHANGED <<hosted, reads>>

SignedHosted(t) ==
  /\ t.at = "sign" /\ TaskStep(t, [t EXCEPT !.kind = "prove", !.at = "check"])
  /\ UNCHANGED <<hosted, reads>>

\* launch
Launch ==
  /\ hosted.bound # NoFlow /\ ~hosted.sdk /\ hosted' = [hosted EXCEPT !.sdk = TRUE]
  /\ UNCHANGED <<sessionVars, reads>>

\* refresh, for the binding it finds
Refresh ==
  /\ hosted.bound # NoFlow /\ ~Reading /\ reads < MaxReads /\ reads' = reads + 1
  /\ Begin("read", "check", hosted.bound) /\ UNCHANGED hosted

\* The SDK asks for another token.
Renew ==
  /\ hosted.bound # NoFlow /\ hosted.sdk /\ reads < MaxReads /\ reads' = reads + 1
  /\ Begin("renew", "check", hosted.bound) /\ UNCHANGED hosted

\* The check before a call to the service, or before the wallet is to sign
CheckedHosted(t) ==
  /\ t.at = "check" /\ Checks
  /\ TaskStep(t, [t EXCEPT !.at = IF t.kind = "sign" THEN "sign" ELSE "fetch"])
  /\ UNCHANGED <<hosted, reads>>

ServeHosted(t) ==
  /\ t.at = "fetch"
  /\ \E g \in {"ok", "none"} : TaskStep(t, [t EXCEPT !.at = "reply", !.got = g])
  /\ UNCHANGED <<hosted, reads>>

\* refresh: a failure is shown only for the binding that was read.
Unread(t) == [hosted EXCEPT !.observation = IF hosted.bound = t.flow THEN NoFlow ELSE @]

\* Any failure of a renewal ends the session the page is in.
Failed(t) ==
  CASE t.kind = "renew" ->
         /\ fence' = Disposed /\ heard' = TRUE /\ hosted' = ClearedHosted
         /\ tasks' = Cancelled \ {t}
         /\ UNCHANGED <<selected, switches, holder, connects>>
    [] t.kind = "read" -> TaskEnds(t) /\ hosted' = Unread(t)
    [] OTHER -> TaskEnds(t) /\ UNCHANGED hosted

\* Faulty variant: an answer of an earlier session goes on in this one.
ArriveHostedAnyway(t) ==
  /\ t.at = "reply" /\ t.got = "ok"
  /\ TaskStep(t, [t EXCEPT !.at = "recheck", !.revision = fence.revision])
  /\ UNCHANGED <<hosted, reads>>

\* The answer: authorize(revision, ...) after the signature, check() otherwise
ArriveHosted(t) ==
  /\ t.at = "reply"
  /\ IF ~Current(t) \/ t.got = "none" THEN Failed(t)
     ELSE IF t.kind = "prove"
     THEN /\ fence' = Authorized
          /\ tasks' = Replaced(t, [t EXCEPT !.kind = "token", !.at = "check", !.got = "nothing"])
          /\ UNCHANGED <<selected, switches, heard, holder, connects, hosted>>
     ELSE TaskStep(t, [t EXCEPT !.at = "recheck"]) /\ UNCHANGED hosted
  /\ UNCHANGED reads

\* The check after the call passes.
RecheckedHosted(t) ==
  /\ t.at = "recheck" /\ Checks /\ TaskEnds(t)
  /\ hosted' =
       CASE t.kind = "connect" -> [hosted EXCEPT !.challenge = t.flow]
         [] t.kind = "token" -> [hosted EXCEPT !.bound = t.flow, !.challenge = NoFlow]
         [] t.kind = "read" /\ hosted.bound = t.flow -> [hosted EXCEPT !.observation = t.flow]
         [] OTHER -> hosted
  /\ UNCHANGED reads

HostedPromptFailed(t) == PromptFails(t) /\ InvalidateHosted
HostedAccountChanged == Foreign /\ InvalidateHosted
HostedNetworkChanged == WalletGone /\ InvalidateHosted
HostedExpired == Expires /\ InvalidateHosted

HostedNext ==
  \/ ConnectHosted \/ SignAndStart \/ Launch \/ Refresh \/ Renew
  \/ \E c \in BOOLEAN : ReviewConsent(c)
  \/ \E t \in tasks :
       \/ PermittedHosted(t) \/ SignedHosted(t) \/ CheckedHosted(t) \/ ServeHosted(t)
       \/ ArriveHosted(t) \/ RecheckedHosted(t) \/ HostedPromptFailed(t)
  \/ \E a \in WalletAccounts \cup {NoWallet} : SwitchAccount(a) /\ UNCHANGED <<hosted, reads>>
  \/ AccountsHeard /\ UNCHANGED <<hosted, reads>>
  \/ HostedAccountChanged \/ HostedNetworkChanged \/ HostedExpired

HostedSpec == HostedInit /\ [][HostedNext]_hostedVars

-----------------------------------------------------------------------------
(***************************************************************************)
(* The consent to be signed, the provider session and the status that is   *)
(* shown are those of the account the wallet session is bound to: a status *)
(* or a token asked for in an earlier session is never shown in this one.  *)
(***************************************************************************)
HostedIsOneSession ==
  /\ hosted.observation \in {NoFlow, hosted.bound}
  /\ \A f \in {hosted.challenge, hosted.bound} \ {NoFlow} : holder[f] = fence.address
  /\ hosted.sdk => hosted.bound # NoFlow
=============================================================================
