---------------------------- MODULE CheckoutReturn ----------------------------
(***************************************************************************)
(* From the signup wizard to Dodo's checkout and back: OnboardingWizard,   *)
(* POST /api/billing/signup, the hand-off cookie and the return token of   *)
(* src/lib/signup-handoff.ts, the page CheckoutReturn and the endpoint it  *)
(* polls, POST /api/billing/confirm.                                       *)
(*                                                                         *)
(* Billing models what the server and Dodo do to a row.  Here a row is     *)
(* reduced to what the way back depends on, and the browsers are modelled: *)
(* what each proves who it is with, which page it shows, and the polls it  *)
(* has in flight, whose answers come in any order and are never cancelled. *)
(***************************************************************************)
EXTENDS Naturals, Sequences, SequencesExt

CONSTANTS
    Business,
    Browser,
    Session,        \* Dodo checkout sessions; a subscription is named by the
                    \* session it was bought in
    Poll,           \* confirm requests in flight at the same time
    Proofs,         \* what a return URL may carry: sets of "trial",
                    \* "session" and "subscription"
    None

ASSUME CheckoutReturnAssumption ==
    /\ Proofs \subseteq SUBSET {"trial", "session", "subscription"}
    /\ None \notin Business \cup Session \cup {"unknown"}

VARIABLES
    exists,         \* businesses that have a row
    checkout,       \* column dodoCheckoutSessionId
    link,           \* column dodoSubscriptionId
    status,         \* column subscriptionStatus
    trial,          \* businesses whose trialStartedAt is set, and runs
    boughtFor,      \* Dodo: the business a session was opened for
    result,         \* Dodo: "open", "paid" or "failed"
    ended,          \* Dodo: the sessions paid or failed, oldest first
    cookie,         \* business session cookie of each browser
    handoff,        \* hand-off cookie of each browser
    tab,            \* what each browser shows
    poll            \* the confirm requests in flight

rowVars     == <<exists, checkout, link, status, trial>>
dodoVars    == <<boughtFor, result, ended>>
browserVars == <<cookie, handoff, tab>>
vars        == <<rowVars, dodoVars, browserVars, poll>>

Cookie  == Business \cup {None}
Handoff == [business : Business, session : Session]
Url     == [session : Session, declined : BOOLEAN, carries : SUBSET UNION Proofs]
Phase   == {"verifying", "confirmed", "unconfirmed", "declined", "signed_out"}

(* The wizard on its first step (the profile), on its second (the plan),   *)
(* or there with the notice that the number is subscribed already.         *)
Wizard(step) == [at |-> "wizard", step |-> step]
Flow         == [at |-> "flow"]
Idle   == [stage |-> "idle"]

Tab ==
    {Wizard(step) : step \in {"profile", "plan", "subscribed"}} \cup {Flow}
    \cup [at : {"submitting"}, business : Business, creates : BOOLEAN]
    \cup [at : {"dodo"}, session : Session]
    \cup [at : {"return"}, url : Url, phase : Phase, late : BOOLEAN,
          about : Business \cup {None}]

Verdict == {"unknown", "waiting", "confirmed", "declined"}
Answer  == [verdict : Verdict, business : Business \cup {None}, mints : BOOLEAN]

PollState ==
    {Idle}
    \cup [stage : {"sent"}, browser : Browser, mounted : BOOLEAN, late : BOOLEAN,
          url : Url, cookie : Cookie, handoff : Handoff \cup {None}]
    \cup [stage : {"asking"}, browser : Browser, mounted : BOOLEAN, late : BOOLEAN,
          business : Business, proved : BOOLEAN, linked : BOOLEAN,
          verdict : {"waiting", "confirmed"}]
    \cup [stage : {"answered"}, browser : Browser, mounted : BOOLEAN, late : BOOLEAN,
          answer : Answer]

TypeOK ==
    /\ exists \subseteq Business
    /\ checkout \in [Business -> Session \cup {None}]
    /\ link \in [Business -> Session \cup {None}]
    /\ status \in [Business -> {"pending_checkout", "active", "failed"}]
    /\ trial \subseteq Business
    /\ boughtFor \in [Session -> Business \cup {None}]
    /\ result \in [Session -> {"open", "paid", "failed"}]
    /\ ended \in Seq(Session)
    /\ cookie \in [Browser -> Cookie]
    /\ handoff \in [Browser -> Handoff \cup {None}]
    /\ tab \in [Browser -> Tab]
    /\ poll \in [Poll -> PollState]

Init ==
    /\ exists \in SUBSET Business       \* rows made by /api/onboarding/start
    /\ checkout = [b \in Business |-> None]
    /\ link = [b \in Business |-> None]
    /\ status = [b \in Business |-> "pending_checkout"]
    /\ trial = {}
    /\ boughtFor = [s \in Session |-> None]
    /\ result = [s \in Session |-> "open"]
    /\ ended = <<>>
    /\ cookie = [w \in Browser |-> None]
    /\ handoff = [w \in Browser |-> None]
    /\ tab = [w \in Browser |-> Wizard("profile")]
    /\ poll = [p \in Poll |-> Idle]

(* The page a browser leaves is unmounted: what its polls answer changes   *)
(* no page any more, only the cookies.                                     *)
Unmount(w) ==
    poll' = [p \in Poll |->
        IF poll[p] # Idle /\ poll[p].browser = w
        THEN [poll[p] EXCEPT !.mounted = FALSE] ELSE poll[p]]

(* Another document is loaded: the browser drops the requests of the old   *)
(* one, and their answers with them.                                       *)
Unload(w) ==
    poll' = [p \in Poll |->
        IF poll[p] # Idle /\ poll[p].browser = w THEN Idle ELSE poll[p]]

-----------------------------------------------------------------------------
(* The wizard and the signup it submits.                                   *)

(* /onboarding shows the flow of a signed-in owner, and the wizard to      *)
(* anyone else.                                                            *)
OnboardingPage(w) == IF cookie[w] \in exists THEN Flow ELSE Wizard("profile")

(* "Continue" with a valid profile.                                        *)
Continue(w) ==
    /\ tab[w] = Wizard("profile")
    /\ tab' = [tab EXCEPT ![w] = Wizard("plan")]
    /\ UNCHANGED <<rowVars, dodoVars, cookie, handoff, poll>>

(* "Back", or a signup refused, before anything is written, for a name     *)
(* another business has.                                                   *)
StepBack(w) ==
    /\ tab[w] \in {Wizard("plan"), Wizard("subscribed")}
    /\ tab' = [tab EXCEPT ![w] = Wizard("profile")]
    /\ UNCHANGED <<rowVars, dodoVars, cookie, handoff, poll>>

(* createBillingSignup up to its first wait.  A business that has a        *)
(* subscription is pointed at the sign-in page, and nothing is written.    *)
SignupStart(w, b) ==
    /\ tab[w] \in {Wizard("plan"), Wizard("subscribed")}
    /\ \/ /\ link[b] = None
          /\ exists' = exists \cup {b}
          /\ status' = [status EXCEPT ![b] = "pending_checkout"]
          /\ tab' = [tab EXCEPT ![w] = [at |-> "submitting", business |-> b,
                                        creates |-> b \notin exists]]
       \/ /\ link[b] # None
          /\ tab' = [tab EXCEPT ![w] = Wizard("subscribed")]
          /\ UNCHANGED <<exists, status>>
    /\ UNCHANGED <<checkout, link, trial, dodoVars, cookie, handoff, poll>>

(* Mutant of SignupIdentity: whoever types the phone of a row is taken for *)
(* its owner.                                                              *)
SignupIdentityForAll(w, b, s, creates) ==
    /\ cookie' = [cookie EXCEPT ![w] = b]
    /\ UNCHANGED handoff

(* The cookies of the answer: a session for a row this signup created, a   *)
(* hand-off bound to the new checkout for any other.                       *)
SignupIdentity(w, b, s, creates) ==
    IF creates
    THEN /\ cookie' = [cookie EXCEPT ![w] = b]
         /\ UNCHANGED handoff
    ELSE /\ handoff' = [handoff EXCEPT ![w] = [business |-> b, session |-> s]]
         /\ UNCHANGED cookie

(* The session is open and stored over the one before.  The answer takes   *)
(* the browser to Dodo, or is lost and leaves the wizard with an error.    *)
SignupOpens(w, s) ==
    LET b == tab[w].business
    IN  /\ tab[w].at = "submitting"
        /\ boughtFor[s] = None
        /\ boughtFor' = [boughtFor EXCEPT ![s] = b]
        /\ checkout' = [checkout EXCEPT ![b] = s]
        /\ status' = [status EXCEPT ![b] = "pending_checkout"]
        /\ \/ /\ SignupIdentity(w, b, s, tab[w].creates)
              /\ tab' = [tab EXCEPT ![w] = [at |-> "dodo", session |-> s]]
              /\ Unload(w)
           \/ /\ tab' = [tab EXCEPT ![w] = Wizard("plan")]
              /\ UNCHANGED <<cookie, handoff, poll>>
        /\ UNCHANGED <<exists, link, trial, result, ended>>

(* Dodo opens no checkout: the wizard shows its error, and the row stays.  *)
SignupFails(w) ==
    /\ tab[w].at = "submitting"
    /\ tab' = [tab EXCEPT ![w] = Wizard("plan")]
    /\ UNCHANGED <<rowVars, dodoVars, cookie, handoff, poll>>

(* The Back button of the browser brings the wizard back, loaded anew.     *)
Abandon(w) ==
    /\ tab[w].at = "dodo"
    /\ tab' = [tab EXCEPT ![w] = OnboardingPage(w)]
    /\ UNCHANGED <<rowVars, dodoVars, cookie, handoff, poll>>

(* A signup for the phone of b in a browser that is not modelled.          *)
SignupElsewhere(b, s) ==
    /\ link[b] = None
    /\ boughtFor[s] = None
    /\ exists' = exists \cup {b}
    /\ status' = [status EXCEPT ![b] = "pending_checkout"]
    /\ checkout' = [checkout EXCEPT ![b] = s]
    /\ boughtFor' = [boughtFor EXCEPT ![s] = b]
    /\ UNCHANGED <<link, trial, result, ended, browserVars, poll>>

(* Dodo takes the payment or declines it, in any tab that is still open on *)
(* the session, and redirects, with the subscription only if it took it.   *)
(* The return page opens in the browser w, whoever signed up in it, or in  *)
(* none that is modelled (None).                                           *)
CheckoutEnds(s, w, outcome, carries) ==
    /\ boughtFor[s] # None
    /\ result[s] = "open"
    /\ outcome = "failed" => "subscription" \notin carries
    /\ result' = [result EXCEPT ![s] = outcome]
    /\ ended' = Append(ended, s)
    /\ \/ /\ w = None
          /\ UNCHANGED <<tab, poll>>
       \/ /\ w # None
          /\ tab[w].at \in {"dodo", "wizard"}
          /\ tab' = [tab EXCEPT ![w] =
                 [at |-> "return", phase |-> "verifying", late |-> FALSE, about |-> None,
                  url |-> [session |-> s, declined |-> outcome = "failed",
                           carries |-> carries]]]
          /\ Unload(w)
    /\ UNCHANGED <<rowVars, boughtFor, cookie, handoff>>

-----------------------------------------------------------------------------
(* The row and Dodo.                                                       *)

(* applyDodoWebhookEvent as Billing has it: the first subscription heard   *)
(* of is linked for good, the status is the one heard last.                *)
Apply(b, s) ==
    /\ link' = [link EXCEPT ![b] = IF @ = None THEN s ELSE @]
    /\ status' = [status EXCEPT ![b] = IF result[s] = "paid" THEN "active" ELSE "failed"]
    /\ trial' = IF result[s] = "paid" THEN trial \cup {b} ELSE trial

Webhook(s) ==
    /\ s \in ToSet(ended)
    /\ Apply(boughtFor[s], s)
    /\ UNCHANGED <<exists, checkout, dodoVars, browserVars, poll>>

(* The subscription the list of b's customer begins with.                  *)
Newest(b, s) ==
    \E i \in DOMAIN ended :
        /\ s = ended[i]
        /\ boughtFor[s] = b
        /\ \A j \in DOMAIN ended : j > i => boughtFor[ended[j]] # b

-----------------------------------------------------------------------------
(* POST /api/billing/confirm.                                              *)

(* Whose subscription it is: the row it is linked to, else the one that    *)
(* Dodo's record names, as long as Dodo answers with it.                   *)
BySubscription(s) ==
    LET b == boughtFor[s]
    IN  IF link[b] = s THEN {b} ELSE {b, None}

(* Who the request is about, None for a 401: the session cookie, else the  *)
(* hand-off cookie, else the return token, else the checkout session in    *)
(* the URL, else its subscription, which Dodo is asked about.  A proof     *)
(* that is there and does not fit the row is not passed over for the next. *)
Identify(q) ==
    LET s       == q.url.session
        brought == "session" \in q.url.carries
    IN  CASE q.cookie # None ->
               {q.cookie}
          [] q.cookie = None /\ q.handoff # None ->
               {IF /\ checkout[q.handoff.business] = q.handoff.session
                   /\ brought => s = q.handoff.session
                THEN q.handoff.business ELSE None}
          [] q.cookie = None /\ q.handoff = None /\ "trial" \in q.url.carries ->
               {IF brought => s = checkout[boughtFor[s]] THEN boughtFor[s] ELSE None}
          [] OTHER ->
               IF brought /\ checkout[boughtFor[s]] = s THEN {boughtFor[s]}
               ELSE IF "subscription" \in q.url.carries
               THEN BySubscription(s)
               ELSE {None}

(* What the page makes of the row: entitled (describeBillingAccess) and    *)
(* linked, or failed.                                                      *)
Judge(b) ==
    IF /\ link[b] # None
       /\ status[b] = "active" \/ (status[b] = "pending_checkout" /\ b \in trial)
    THEN "confirmed"
    ELSE IF status[b] = "failed" THEN "declined"
    ELSE "waiting"

(* Mutant of Mints: the proof alone is worth a session.                     *)
MintsOnProof(proved, linked) == proved

(* The answer carries a session: the proof was not itself a session, and   *)
(* the row has a subscription.                                             *)
Mints(proved, linked) == proved /\ linked

Answered(q, verdict, b, mints) ==
    [stage |-> "answered", browser |-> q.browser, mounted |-> q.mounted, late |-> q.late,
     answer |-> [verdict |-> verdict, business |-> b, mints |-> mints]]

Unconfirmed(b) == checkout[b] # None /\ status[b] = "pending_checkout"

(* The request is read, and answered with the row unless it is unconfirmed *)
(* still, which sends it on to Dodo.                                       *)
ConfirmReads(p) ==
    LET q      == poll[p]
        proved == q.cookie = None
    IN  /\ q.stage = "sent"
        /\ \E b \in Identify(q) :
               \/ /\ b = None
                  /\ poll' = [poll EXCEPT ![p] = Answered(q, "unknown", None, FALSE)]
               \/ /\ b # None
                  /\ ~Unconfirmed(b)
                  /\ poll' = [poll EXCEPT ![p] =
                         Answered(q, Judge(b), b, Mints(proved, link[b] # None))]
               \/ /\ b # None
                  /\ Unconfirmed(b)
                  /\ poll' = [poll EXCEPT ![p] =
                         [stage |-> "asking", browser |-> q.browser, mounted |-> q.mounted,
                          late |-> q.late, business |-> b, proved |-> proved,
                          linked |-> link[b] # None, verdict |-> Judge(b)]]
        /\ UNCHANGED <<rowVars, dodoVars, browserVars>>

(* Dodo's list is applied and the row read again.                          *)
ReconcileApplies(p) ==
    /\ poll[p].stage = "asking"
    /\ \E s \in Session :
           LET b == poll[p].business
           IN  /\ Newest(b, s)
               /\ Apply(b, s)
               /\ poll' = [poll EXCEPT ![p] =
                     Answered(@, IF result[s] = "paid" THEN "confirmed" ELSE "declined",
                              b, Mints(@.proved, TRUE))]
    /\ UNCHANGED <<exists, checkout, dodoVars, browserVars>>

(* There is nothing on the list, Dodo does not answer, or it was asked     *)
(* about the row within the cooldown and is left alone: the answer is the  *)
(* row as it was read before.                                              *)
ReconcileFails(p) ==
    /\ poll[p].stage = "asking"
    /\ poll' = [poll EXCEPT ![p] =
           Answered(@, @.verdict, @.business, Mints(@.proved, @.linked))]
    /\ UNCHANGED <<rowVars, dodoVars, browserVars>>

-----------------------------------------------------------------------------
(* The return page.                                                        *)

OnReturn(w) == tab[w].at = "return"

PollSent(w, p) ==
    /\ OnReturn(w)
    /\ tab[w].phase = "verifying"
    /\ poll[p] = Idle
    /\ poll' = [poll EXCEPT ![p] =
           [stage |-> "sent", browser |-> w, mounted |-> TRUE, late |-> tab[w].late,
            url |-> tab[w].url, cookie |-> cookie[w], handoff |-> handoff[w]]]
    /\ UNCHANGED <<rowVars, dodoVars, browserVars>>

(* Mutant of PhaseAfter: the status in the redirect is believed.           *)
PhaseByRedirect(verdict, declined, late) ==
    CASE verdict = "confirmed" \/ (verdict = "waiting" /\ ~declined) -> "confirmed"
      [] verdict = "declined" \/ (verdict = "waiting" /\ declined) -> "declined"
      [] verdict = "unknown" /\ late -> "signed_out"
      [] verdict = "lost" /\ late -> "unconfirmed"
      [] OTHER -> "verifying"

(* Mutant of PhaseAfter: an answer outside the known ones is shown as it   *)
(* is.                                                                     *)
PhaseRaw(verdict, declined, late) ==
    CASE verdict = "declined" \/ (verdict = "waiting" /\ declined) -> "declined"
      [] verdict = "unknown" /\ late -> "signed_out"
      [] verdict \in {"waiting", "lost"} /\ late -> "unconfirmed"
      [] OTHER -> verdict

(* check(): the phase an answer leads to, whatever the page shows now.     *)
PhaseAfter(verdict, declined, late) ==
    CASE verdict = "confirmed" -> "confirmed"
      [] verdict = "declined" \/ (verdict = "waiting" /\ declined) -> "declined"
      [] verdict = "unknown" /\ late -> "signed_out"
      [] verdict = "waiting" /\ ~declined /\ late -> "unconfirmed"
      [] verdict = "lost" /\ late -> "unconfirmed"
      [] OTHER -> "verifying"

Shows(w, mounted, verdict, b, late) ==
    tab' = IF mounted
           THEN [tab EXCEPT
                    ![w].phase = PhaseAfter(verdict, tab[w].url.declined, late),
                    ![w].about = IF b = None THEN @ ELSE b]
           ELSE tab

(* The browser takes the cookies of an answer, then the page its verdict.  *)
AnswerArrives(p) ==
    LET q == poll[p]
        w == q.browser
    IN  /\ q.stage = "answered"
        /\ IF q.answer.mints
           THEN /\ cookie' = [cookie EXCEPT ![w] = q.answer.business]
                /\ handoff' = [handoff EXCEPT ![w] = None]
           ELSE UNCHANGED <<cookie, handoff>>
        /\ Shows(w, q.mounted, q.answer.verdict, q.answer.business, q.late)
        /\ poll' = [poll EXCEPT ![p] = Idle]
        /\ UNCHANGED <<rowVars, dodoVars>>

(* The connection drops, or the answer is an error.                        *)
PollLost(p) ==
    LET q == poll[p]
    IN  /\ q.stage \in {"sent", "answered"}
        /\ Shows(q.browser, q.mounted, "lost", None, q.late)
        /\ poll' = [poll EXCEPT ![p] = Idle]
        /\ UNCHANGED <<rowVars, dodoVars, cookie, handoff>>

(* Sixty seconds have passed: for the polls in flight as well, each of     *)
(* which holds the deadline it was sent under.                             *)
DeadlinePasses(w) ==
    /\ OnReturn(w)
    /\ ~tab[w].late
    /\ tab' = [tab EXCEPT ![w].late = TRUE]
    /\ poll' = [p \in Poll |->
           IF poll[p] # Idle /\ poll[p].browser = w /\ poll[p].mounted
           THEN [poll[p] EXCEPT !.late = TRUE] ELSE poll[p]]
    /\ UNCHANGED <<rowVars, dodoVars, cookie, handoff>>

(* "Check again".                                                          *)
Retry(w) ==
    /\ OnReturn(w)
    /\ tab[w].phase \in {"unconfirmed", "signed_out"}
    /\ tab' = [tab EXCEPT ![w].phase = "verifying", ![w].late = FALSE]
    /\ UNCHANGED <<rowVars, dodoVars, cookie, handoff, poll>>

(* Two seconds after the confirmation, or at once by its link.             *)
HandsOver(w) ==
    /\ OnReturn(w)
    /\ tab[w].phase = "confirmed"
    /\ tab' = [tab EXCEPT ![w] = OnboardingPage(w)]
    /\ Unmount(w)
    /\ UNCHANGED <<rowVars, dodoVars, cookie, handoff>>

(* "Try checkout again", "Return to checkout", "Back to signup".           *)
BackToSignup(w) ==
    /\ OnReturn(w)
    /\ tab[w].phase \in {"declined", "unconfirmed", "signed_out"}
    /\ tab' = [tab EXCEPT ![w] = OnboardingPage(w)]
    /\ Unmount(w)
    /\ UNCHANGED <<rowVars, dodoVars, cookie, handoff>>

(* The hand-off cookie expires after thirty minutes, or was dropped by the *)
(* browser on the way back; the return token expires after a day.          *)
HandoffExpires(w) ==
    /\ handoff[w] # None
    /\ handoff' = [handoff EXCEPT ![w] = None]
    /\ UNCHANGED <<rowVars, dodoVars, cookie, tab, poll>>

TokenExpires(w) ==
    /\ OnReturn(w)
    /\ "trial" \in tab[w].url.carries
    /\ tab' = [tab EXCEPT ![w].url.carries = @ \ {"trial"}]
    /\ UNCHANGED <<rowVars, dodoVars, cookie, handoff, poll>>

-----------------------------------------------------------------------------
Next ==
    \/ \E w \in Browser, b \in Business : SignupStart(w, b)
    \/ \E w \in Browser, s \in Session : SignupOpens(w, s)
    \/ \E w \in Browser :
           \/ Continue(w) \/ StepBack(w)
           \/ SignupFails(w) \/ Abandon(w) \/ DeadlinePasses(w) \/ Retry(w)
           \/ HandsOver(w) \/ BackToSignup(w) \/ HandoffExpires(w) \/ TokenExpires(w)
    \/ \E b \in Business, s \in Session : SignupElsewhere(b, s)
    \/ \E s \in Session, w \in Browser \cup {None}, outcome \in {"paid", "failed"},
          carries \in Proofs : CheckoutEnds(s, w, outcome, carries)
    \/ \E s \in Session : Webhook(s)
    \/ \E w \in Browser, p \in Poll : PollSent(w, p)
    \/ \E p \in Poll :
           \/ ConfirmReads(p) \/ ReconcileApplies(p) \/ ReconcileFails(p)
           \/ AnswerArrives(p) \/ PollLost(p)

Spec == Init /\ [][Next]_vars

-----------------------------------------------------------------------------
(* A browser comes to a session for b in one of two ways only: it made the *)
(* row of b itself in the signup it submits, or the row has a subscription *)
(* linked when the answer arrives.  Whatever proofs it held, in whatever   *)
(* order polls were answered, and after pages were left with polls in      *)
(* flight.                                                                 *)
SessionProved ==
    [][\A w \in Browser :
          cookie'[w] # cookie[w] =>
              \/ /\ tab[w].at = "submitting"
                 /\ tab[w].creates
                 /\ cookie'[w] = tab[w].business
              \/ link[cookie'[w]] # None]_vars

(* "Payment confirmed - taking you to your final setup step": the browser  *)
(* is signed in by then, for a row that has a subscription, and so has the *)
(* row that the answer was about.  So the final step opens and not a blank *)
(* wizard.  (The two rows need not be the same, see the README.)           *)
ConfirmedIsSignedIn ==
    \A w \in Browser :
        OnReturn(w) /\ tab[w].phase = "confirmed" =>
            \A b \in {cookie[w], tab[w].about} : b \in exists /\ link[b] # None

(* What the declined page says (CheckoutReturn.tsx:230): "start checkout   *)
(* again and try a different card".  Its link opens the wizard, the only   *)
(* way to a checkout: at least while no subscription is linked to the row  *)
(* the answer was about, which needs no second checkout.                   *)
DeclinedMayTryAgain ==
    [][\A w \in Browser :
          /\ OnReturn(w)
          /\ tab[w].phase = "declined"
          /\ tab'[w].at # "return"
          /\ tab[w].about # None => link[tab[w].about] = None
          => tab'[w] = Wizard("profile")]_vars
=============================================================================
