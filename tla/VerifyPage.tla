----------------------------- MODULE VerifyPage -----------------------------
(***************************************************************************)
(* The guided verification page (web/app/verify/page.tsx): wallet, document,*)
(* bank account, issuance, and recovery of an earlier request.  A token is *)
(* named by the flow of the wallet proof it was obtained with.  One button *)
(* is at work at a time, but an interruption frees the buttons while the   *)
(* service still answers the earlier request.                              *)
(***************************************************************************)
EXTENDS WalletSession

CONSTANT MaxPolls   \* status polls of a page

VARIABLES
  page,      \* what the page holds
  saved,     \* sessionStorage: the request id kept for each account
  request,   \* the service's journal: each flow's issuance
  polls

verifyVars == <<sessionVars, page, saved, request, polls>>

NoResult == [flow |-> NoFlow, state |-> "none"]

\* clearWalletSession: nothing of the session is kept.
ClearedPage ==
  [busy |-> FALSE, consented |-> FALSE, wallet |-> NoFlow, doc |-> NoFlow, id |-> NoFlow,
   twoWay |-> NoFlow, challenge |-> NoFlow, bank |-> NoFlow, issued |-> NoResult, last |-> NoFlow]

VerifyInit ==
  /\ SessionInit
  /\ page = ClearedPage /\ saved = [a \in WalletAccounts |-> NoFlow]
  /\ request = [f \in FlowIds |-> "none"] /\ polls = 0

outside == <<saved, request, polls>>

\* invalidate: the session is disposed of and the page cleared.
Invalidate == Dispose /\ page' = ClearedPage /\ UNCHANGED outside

Unoccupied == ~page.busy

\* What the steps before have to have given.
CanBank == page.wallet # NoFlow /\ page.id # NoFlow
CanIssue == CanBank /\ page.bank # NoFlow
Free == [page EXCEPT !.busy = FALSE]

\* run(step, fn): a button starts a request to the service.
Start(kind, about, changed) ==
  /\ Unoccupied
  /\ tasks' = tasks \cup {Task(kind, "check", page.wallet, about)}
  /\ page' = [changed EXCEPT !.busy = TRUE]
  /\ UNCHANGED <<selected, switches, heard, fence, holder, connects>>

Consent(c) ==
  /\ page.wallet = NoFlow /\ page' = [page EXCEPT !.consented = c]
  /\ UNCHANGED <<sessionVars, outside>>

Connect ==
  /\ Unoccupied /\ page.wallet = NoFlow /\ page.consented
  /\ Attach("hello") /\ page' = [page EXCEPT !.busy = TRUE] /\ UNCHANGED outside

\* loadSample: the samples' own session state, while the wallet stays attached
LoadSample ==
  /\ Unoccupied
  /\ tasks' = tasks \cup {Task("sample", "make", NoFlow, NoFlow)}
  /\ page' = [page EXCEPT !.busy = TRUE]
  /\ UNCHANGED <<selected, switches, heard, fence, holder, connects, outside>>

SampleLoaded(t) ==
  /\ t.at = "make"
  /\ IF Current(t)
     THEN /\ page' = ClearedPage
          /\ fence' = [fence EXCEPT !.authorized = FALSE]
          /\ tasks' = tasks \ {t} /\ UNCHANGED <<selected, switches, heard, holder, connects>>
     ELSE TaskEnds(t) /\ UNCHANGED page
  /\ UNCHANGED outside

ReadDocument ==
  /\ page.wallet # NoFlow /\ page.id = NoFlow
  /\ Start("ocr", page.wallet, page) /\ UNCHANGED outside

VerifyDocument ==
  /\ page.wallet # NoFlow /\ page.id = NoFlow /\ page.twoWay = NoFlow
  /\ Start("id", page.wallet, page) /\ UNCHANGED outside

AnswerTwoWay == page.twoWay # NoFlow /\ Start("id", page.wallet, page) /\ UNCHANGED outside

CancelTwoWay ==
  /\ Unoccupied /\ page.twoWay # NoFlow /\ page' = [page EXCEPT !.twoWay = NoFlow]
  /\ UNCHANGED <<sessionVars, outside>>

\* startBank and its "Start over"
StartBank ==
  /\ CanBank /\ page.challenge = NoFlow
  /\ Start("bank", page.wallet, [page EXCEPT !.bank = NoFlow]) /\ UNCHANGED outside

StartOver ==
  /\ Unoccupied /\ page.challenge # NoFlow /\ page.bank = NoFlow
  /\ page' = [page EXCEPT !.challenge = NoFlow]
  /\ UNCHANGED <<sessionVars, outside>>

ConfirmCode ==
  /\ page.challenge # NoFlow /\ page.bank = NoFlow
  /\ Start("code", page.wallet, page) /\ UNCHANGED outside

Remember(f) == saved' = [saved EXCEPT ![holder[page.wallet]] = f]

\* Faulty variant: the request id is kept when the answer is there.
PressIssueForgetful ==
  /\ CanIssue /\ page.issued.state # "ready"
  /\ Start("issue", page.wallet, page) /\ UNCHANGED outside

\* issue: the request id is kept before anything is sent.
PressIssue ==
  /\ CanIssue /\ page.issued.state # "ready"
  /\ Remember(page.wallet)
  /\ Start("issue", page.wallet, [page EXCEPT !.last = page.wallet])
  /\ UNCHANGED <<request, polls>>

\* resumeIssue, for its status, to resume it, and to retry it
ResumeIssue(kind) ==
  /\ page.wallet # NoFlow /\ page.last # NoFlow
  /\ kind = "retry" => page.issued.state = "failed"
  /\ Start(kind, page.last, page) /\ UNCHANGED outside

\* The five-second effect; its answer may come when the page has moved on.
PollStatus ==
  /\ Unoccupied /\ page.wallet # NoFlow /\ page.last # NoFlow /\ page.issued.state = "open"
  /\ polls < MaxPolls /\ polls' = polls + 1
  /\ tasks' = tasks \cup {Task("poll", "fetch", page.wallet, page.last)}
  /\ UNCHANGED <<selected, switches, heard, fence, holder, connects, page, saved, request>>

-----------------------------------------------------------------------------
\* The wallet permits an account, and signs.
Permitted(t) ==
  /\ Bind(t, [t EXCEPT !.at = "check"]) /\ UNCHANGED <<page, outside>>

Signed(t) ==
  /\ t.at = "sign" /\ TaskStep(t, [t EXCEPT !.kind = "prove", !.at = "check"])
  /\ UNCHANGED <<page, outside>>

\* api: the check before the call
Checked(t) ==
  /\ t.at = "check" /\ Checks /\ TaskStep(t, [t EXCEPT !.at = "fetch"])
  /\ UNCHANGED <<page, outside>>

\* Another request of the journal: it is opened once, and goes on when resumed.
Opened(f) == [request EXCEPT ![f] = IF @ = "none" THEN "open" ELSE @]
Retried(f) == [request EXCEPT ![f] = IF @ = "failed" THEN "open" ELSE @]

\* What the service may answer, and its journal then.
Answers(t) ==
  CASE t.kind = "id" -> {<<"proof", request>>, <<"two_way", request>>}
    [] t.kind = "code" -> {<<"ok", request>>, <<"wrong_code", request>>, <<"gone", request>>}
    [] t.kind = "issue" -> {<<Opened(t.about)[t.about], Opened(t.about)>>, <<"busy", Opened(t.about)>>}
    [] t.kind = "retry" -> {<<Retried(t.about)[t.about], Retried(t.about)>>}
    [] t.kind \in {"status", "resume", "poll"} -> {<<request[t.about], request>>}
    [] OTHER -> {<<"ok", request>>}

\* The call fails, or its answer is lost, before or after it took effect.
Serve(t) ==
  /\ t.at = "fetch"
  /\ \E o \in Answers(t) \cup {<<"none", request>>} : \E lost \in BOOLEAN :
       /\ request' = o[2]
       /\ TaskStep(t, [t EXCEPT !.at = "reply", !.got = IF lost THEN "none" ELSE o[1]])
  /\ UNCHANGED <<page, saved, polls>>

\* Faulty variant: an answer is not held against the session it was asked in.
ArriveAnyway(t) ==
  /\ t.at = "reply"
  /\ TaskStep(t, [t EXCEPT !.at = "recheck", !.revision = fence.revision])
  /\ UNCHANGED <<page, outside>>

\* api: an answer of an earlier session is dropped.
Arrive(t) ==
  /\ t.at = "reply"
  /\ IF Current(t) THEN TaskStep(t, [t EXCEPT !.at = "recheck"]) ELSE TaskEnds(t)
  /\ UNCHANGED <<page, outside>>

\* The check after the call passes: what each answer changes on the page.
Answered(t) ==
  LET f == t.flow IN
  IF t.got = "none" THEN Free
  ELSE CASE t.kind = "ocr" -> [Free EXCEPT !.doc = f]
         [] t.kind = "id" /\ t.got = "two_way" -> [Free EXCEPT !.twoWay = f]
         [] t.kind = "id" /\ t.got = "proof" -> [Free EXCEPT !.twoWay = NoFlow, !.id = f]
         [] t.kind = "bank" -> [Free EXCEPT !.challenge = f]
         [] t.kind = "code" /\ t.got = "ok" -> [Free EXCEPT !.bank = f]
         [] t.kind = "code" /\ t.got = "gone" -> [Free EXCEPT !.challenge = NoFlow]
         [] t.kind = "prove" ->
              [Free EXCEPT !.wallet = f, !.issued = NoResult, !.last = saved[holder[f]]]
         [] t.kind \in {"issue", "status", "resume", "retry"} /\ t.got # "busy" ->
              [Free EXCEPT !.last = t.about, !.issued = [flow |-> t.about, state |-> t.got]]
         [] t.kind = "poll" -> [page EXCEPT !.issued = [flow |-> t.about, state |-> t.got]]
         [] OTHER -> Free

\* The request id that comes with an answer, an error's too, is kept.
Kept(t) ==
  IF t.kind \in {"issue", "status", "resume", "retry"} /\ t.got # "none"
  THEN [saved EXCEPT ![holder[t.flow]] = t.about] ELSE saved

Rechecked(t) ==
  /\ t.at = "recheck" /\ Checks
  /\ IF t.kind = "hello" /\ t.got # "none"
     THEN TaskStep(t, [t EXCEPT !.at = "sign", !.got = "nothing"]) /\ UNCHANGED <<page, saved>>
     ELSE /\ tasks' = tasks \ {t}
          /\ fence' = IF t.kind = "prove" /\ t.got # "none" THEN Authorized ELSE fence
          /\ page' = IF t.kind = "poll" /\ t.got = "none" THEN page ELSE Answered(t)
          /\ saved' = Kept(t)
          /\ UNCHANGED <<selected, switches, heard, holder, connects>>
  /\ UNCHANGED <<request, polls>>

Settle(t) ==
  \/ Permitted(t) \/ Signed(t) \/ Checked(t) \/ Serve(t) \/ Arrive(t) \/ Rechecked(t)
  \/ SampleLoaded(t)

-----------------------------------------------------------------------------
\* Every interruption ends the fence.
PromptFailed(t) == PromptFails(t) /\ Invalidate
AccountChanged == Foreign /\ Invalidate
NetworkChanged == WalletGone /\ Invalidate
SessionExpired == Expires /\ Invalidate
\* "Stop waiting" and "Reset wallet session"
StopWaiting == page.busy /\ (\E t \in tasks : Current(t) /\ t.kind \in {"hello", "prove"}) /\ Invalidate
ResetSession == Unoccupied /\ page.wallet # NoFlow /\ Invalidate

\* The page is loaded again: only sessionStorage is left, and what the service
\* has been asked and may still do.
Reload ==
  /\ page.wallet # NoFlow
  /\ fence' = Disposed /\ tasks' = {t \in tasks : t.at = "fetch"} /\ heard' = TRUE /\ page' = ClearedPage
  /\ UNCHANGED <<selected, switches, holder, connects, outside>>

\* The service goes on with a request by itself.
Progress(f) ==
  /\ request[f] = "open" /\ \E s \in {"failed", "ready"} : request' = [request EXCEPT ![f] = s]
  /\ UNCHANGED <<sessionVars, page, saved, polls>>

Buttons ==
  \/ \E c \in BOOLEAN : Consent(c)
  \/ Connect \/ LoadSample \/ ReadDocument \/ VerifyDocument \/ AnswerTwoWay \/ CancelTwoWay
  \/ StartBank \/ StartOver \/ ConfirmCode \/ PressIssue
  \/ \E kind \in {"status", "resume", "retry"} : ResumeIssue(kind)
  \/ PollStatus

Interruptions ==
  \/ \E a \in WalletAccounts \cup {NoWallet} : SwitchAccount(a) /\ UNCHANGED <<page, outside>>
  \/ AccountsHeard /\ UNCHANGED <<page, outside>>
  \/ \E t \in tasks : PromptFailed(t)
  \/ AccountChanged \/ NetworkChanged \/ SessionExpired \/ StopWaiting \/ ResetSession \/ Reload

VerifyNext ==
  \/ Buttons
  \/ Interruptions
  \/ \E t \in tasks : Settle(t)
  \/ \E f \in FlowIds : Progress(f)

VerifySpec == VerifyInit /\ [][VerifyNext]_verifyVars

-----------------------------------------------------------------------------
(***************************************************************************)
(* What the page holds comes from one fence.  Every token, and the       *)
(* document fields that were read, belong to the flow of the wallet that   *)
(* is shown; that flow's account is the one the session is bound to, and   *)
(* so is the account of the result that is shown beside it: no answer of   *)
(* an earlier account or session gets in, however late it comes.           *)
(***************************************************************************)
PageIsOneSession ==
  /\ \A part \in {page.doc, page.id, page.twoWay, page.challenge, page.bank} :
       part \in {NoFlow, page.wallet}
  /\ page.wallet # NoFlow =>
       /\ fence.address = holder[page.wallet]
       /\ page.issued # NoResult => holder[page.issued.flow] = fence.address
       /\ page.last # NoFlow => holder[page.last] = fence.address

(***************************************************************************)
(* A request that reached the journal can be taken up again from this      *)
(* browser, although its answer was lost, the session interrupted or the   *)
(* page loaded again: the id kept for its account is that request's or a   *)
(* later one's.                                                            *)
(***************************************************************************)
CommittedIsRecoverable ==
  \A f \in FlowIds : request[f] # "none" => saved[holder[f]] >= f
=============================================================================
