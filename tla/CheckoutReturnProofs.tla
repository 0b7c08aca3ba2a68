-------------------------- MODULE CheckoutReturnProofs --------------------------
(***************************************************************************)
(* Proofs about CheckoutReturn, for any number of businesses, browsers,    *)
(* checkouts and polls.  What a poll was sent with may be stale when its   *)
(* answer arrives; the invariant says what of it is still true then.       *)
(***************************************************************************)
EXTENDS CheckoutReturn, TLAPS

(* Whatever names a business, names a row.                                 *)
RowsExist ==
    /\ \A s \in Session : boughtFor[s] # None => boughtFor[s] \in exists
    /\ \A s \in Session : result[s] # "open" => boughtFor[s] # None
    /\ \A i \in DOMAIN ended : result[ended[i]] # "open"
    /\ \A w \in Browser :
           /\ cookie[w] # None => cookie[w] \in exists
           /\ handoff[w] # None => handoff[w].business \in exists
           /\ tab[w].at = "submitting" => tab[w].business \in exists
           /\ tab[w].at = "return" => boughtFor[tab[w].url.session] # None

(* A browser that is signed in for a row with a subscription.              *)
SignedIn(w) == cookie[w] \in exists /\ link[cookie[w]] # None

(* ... or is still signed in for the business a poll was sent for.         *)
Holds(w, b) == cookie[w] = b \/ SignedIn(w)

(* A return page has no poll in flight that an earlier page sent, and no   *)
(* other page has one.                                                     *)
MountedPolls ==
    \A p \in Poll :
        poll[p] # Idle => (poll[p].mounted <=> OnReturn(poll[p].browser))

SentPoll(q) ==
    /\ boughtFor[q.url.session] # None
    /\ q.cookie # None => q.cookie \in exists /\ Holds(q.browser, q.cookie)
    /\ q.handoff # None => q.handoff.business \in exists

AskingPoll(q) ==
    /\ q.business \in exists
    /\ q.linked => link[q.business] # None
    /\ q.verdict = "confirmed" => q.linked
    /\ ~q.proved => Holds(q.browser, q.business)

AnsweredPoll(q) ==
    /\ q.answer.mints =>
           q.answer.business \in exists /\ link[q.answer.business] # None
    /\ q.answer.verdict = "confirmed" =>
           /\ q.answer.business \in exists
           /\ link[q.answer.business] # None
           /\ q.answer.mints \/ Holds(q.browser, q.answer.business)

PollInv(p) ==
    /\ poll[p].stage = "sent" => SentPoll(poll[p])
    /\ poll[p].stage = "asking" => AskingPoll(poll[p])
    /\ poll[p].stage = "answered" => AnsweredPoll(poll[p])

PollsInv == \A p \in Poll : PollInv(p)

IInv == TypeOK /\ RowsExist /\ MountedPolls /\ PollsInv /\ ConfirmedIsSignedIn

-----------------------------------------------------------------------------
(* Types.                                                                  *)
LEMMA InitTypes == Init => TypeOK
  BY CheckoutReturnAssumption DEF Init, TypeOK, Cookie, Handoff, Tab, Wizard, PollState

LEMMA WizardTab == \A step \in {"profile", "plan", "subscribed"} : Wizard(step) \in Tab
  BY DEF Tab

LEMMA FlowTab == Flow \in Tab
  BY DEF Tab

LEMMA OnboardingTab == \A w \in Browser : OnboardingPage(w) \in Tab
  BY WizardTab, FlowTab DEF OnboardingPage

(* What is known of a page by its name.                                    *)
ReturnTab ==
    [at : {"return"}, url : Url, phase : Phase, late : BOOLEAN, about : Business \cup {None}]

LEMMA TabOnReturn ==
    ASSUME TypeOK, NEW w \in Browser, tab[w].at = "return"
    PROVE  tab[w] \in ReturnTab
  BY DEF TypeOK, Tab, Wizard, Flow, ReturnTab

LEMMA TabSubmitting ==
    ASSUME TypeOK, NEW w \in Browser, tab[w].at = "submitting"
    PROVE  tab[w] \in [at : {"submitting"}, business : Business, creates : BOOLEAN]
  BY DEF TypeOK, Tab, Wizard, Flow

LEMMA ReturnIsTab == ReturnTab \subseteq Tab
  BY DEF ReturnTab, Tab

(* What is known of a poll by its stage.                                   *)
SentState ==
    [stage : {"sent"}, browser : Browser, mounted : BOOLEAN, late : BOOLEAN,
     url : Url, cookie : Cookie, handoff : Handoff \cup {None}]

AskingState ==
    [stage : {"asking"}, browser : Browser, mounted : BOOLEAN, late : BOOLEAN,
     business : Business, proved : BOOLEAN, linked : BOOLEAN,
     verdict : {"waiting", "confirmed"}]

AnsweredState ==
    [stage : {"answered"}, browser : Browser, mounted : BOOLEAN, late : BOOLEAN,
     answer : Answer]

LEMMA PollStates ==
    ASSUME TypeOK, NEW p \in Poll
    PROVE  /\ poll[p] = Idle \/ poll[p] \in SentState \cup AskingState \cup AnsweredState
           /\ poll[p].stage = "sent" => poll[p] \in SentState
           /\ poll[p].stage = "asking" => poll[p] \in AskingState
           /\ poll[p].stage = "answered" => poll[p] \in AnsweredState
           /\ poll[p] # Idle => poll[p].browser \in Browser
  BY DEF TypeOK, PollState, Idle, SentState, AskingState, AnsweredState

LEMMA StatesArePolls ==
    Idle \in PollState /\ SentState \cup AskingState \cup AnsweredState \subseteq PollState
  BY DEF PollState, SentState, AskingState, AnsweredState

LEMMA LeavingTypes ==
    ASSUME TypeOK, NEW w \in Browser, Unmount(w) \/ Unload(w)
    PROVE  poll' \in [Poll -> PollState]
<1>1. CASE Unmount(w)
  <2> SUFFICES ASSUME NEW p \in Poll
               PROVE  (IF poll[p] # Idle /\ poll[p].browser = w
                       THEN [poll[p] EXCEPT !.mounted = FALSE] ELSE poll[p]) \in PollState
    BY <1>1 DEF Unmount
  <2>1. poll[p] \in SentState => [poll[p] EXCEPT !.mounted = FALSE] \in SentState
    BY DEF SentState
  <2>2. poll[p] \in AskingState => [poll[p] EXCEPT !.mounted = FALSE] \in AskingState
    BY DEF AskingState
  <2>3. poll[p] \in AnsweredState => [poll[p] EXCEPT !.mounted = FALSE] \in AnsweredState
    BY DEF AnsweredState
  <2>4. poll[p] \in PollState
    BY DEF TypeOK
  <2>5. QED BY <2>1, <2>2, <2>3, <2>4, PollStates, StatesArePolls
<1>2. CASE Unload(w)
  BY <1>2, StatesArePolls DEF Unload, TypeOK
<1>3. QED BY <1>1, <1>2

(* The wizard, the signup and Dodo.                                        *)
LEMMA SignupTypes ==
    ASSUME TypeOK,
           \/ \E w \in Browser : Continue(w) \/ StepBack(w) \/ SignupFails(w) \/ Abandon(w)
           \/ \E w \in Browser, b \in Business : SignupStart(w, b)
           \/ \E w \in Browser, s \in Session : SignupOpens(w, s)
           \/ \E b \in Business, s \in Session : SignupElsewhere(b, s)
    PROVE  TypeOK'
<1> USE DEF rowVars, dodoVars, browserVars
<1>1. ASSUME NEW w \in Browser, Continue(w) \/ StepBack(w) \/ SignupFails(w) \/ Abandon(w)
      PROVE  TypeOK'
  BY <1>1, WizardTab, OnboardingTab
     DEF TypeOK, Continue, StepBack, SignupFails, Abandon
<1>2. ASSUME NEW w \in Browser, NEW b \in Business, SignupStart(w, b)
      PROVE  TypeOK'
  <2>1. [at |-> "submitting", business |-> b, creates |-> b \notin exists] \in Tab
    BY DEF Tab
  <2>2. QED BY <1>2, <2>1, WizardTab DEF TypeOK, SignupStart
<1>3. ASSUME NEW w \in Browser, NEW s \in Session, SignupOpens(w, s)
      PROVE  TypeOK'
  <2> DEFINE c == tab[w].business
  <2>1. c \in Business /\ tab[w].creates \in BOOLEAN
    BY <1>3, TabSubmitting DEF SignupOpens
  <2>2. [at |-> "dodo", session |-> s] \in Tab
    BY DEF Tab
  <2>3. /\ boughtFor' \in [Session -> Business \cup {None}]
        /\ checkout' \in [Business -> Session \cup {None}]
        /\ status' \in [Business -> {"pending_checkout", "active", "failed"}]
    BY <1>3, <2>1 DEF TypeOK, SignupOpens
  <2>4. tab' \in [Browser -> Tab]
    BY <1>3, <2>2, WizardTab DEF TypeOK, SignupOpens
  <2>5. /\ cookie' \in [Browser -> Cookie]
        /\ handoff' \in [Browser -> Handoff \cup {None}]
    <3>1. [business |-> c, session |-> s] \in Handoff
      BY <2>1 DEF Handoff
    <3>2. QED BY <1>3, <2>1, <3>1 DEF TypeOK, SignupOpens, SignupIdentity, Cookie
  <2>6. poll' \in [Poll -> PollState]
    BY <1>3, LeavingTypes DEF TypeOK, SignupOpens
  <2>7. QED BY <1>3, <2>3, <2>4, <2>5, <2>6 DEF TypeOK, SignupOpens
<1>4. ASSUME NEW b \in Business, NEW s \in Session, SignupElsewhere(b, s)
      PROVE  TypeOK'
  BY <1>4 DEF TypeOK, SignupElsewhere
<1>5. QED BY <1>1, <1>2, <1>3, <1>4

(* A session that ended was opened for a row.                              *)
LEMMA EndedAreBought ==
    ASSUME TypeOK, RowsExist, NEW s \in ToSet(ended)
    PROVE  s \in Session /\ boughtFor[s] # None /\ boughtFor[s] \in exists
<1>1. PICK i \in DOMAIN ended : s = ended[i]
  BY DEF ToSet
<1>2. s \in Session
  BY <1>1 DEF TypeOK
<1>3. QED BY <1>1, <1>2 DEF RowsExist

LEMMA DodoTypes ==
    ASSUME TypeOK,
           \/ \E s \in Session, w \in Browser \cup {None}, outcome \in {"paid", "failed"},
                 carries \in Proofs : CheckoutEnds(s, w, outcome, carries)
           \/ \E s \in Session : Webhook(s) /\ boughtFor[s] # None
    PROVE  TypeOK'
<1> USE DEF rowVars, dodoVars, browserVars
<1>1. ASSUME NEW s \in Session, NEW w \in Browser \cup {None},
             NEW outcome \in {"paid", "failed"}, NEW carries \in Proofs,
             CheckoutEnds(s, w, outcome, carries)
      PROVE  TypeOK'
  <2>1. /\ result' \in [Session -> {"open", "paid", "failed"}]
        /\ ended' \in Seq(Session)
    BY <1>1 DEF TypeOK, CheckoutEnds
  <2>2. tab' \in [Browser -> Tab]
    <3>1. carries \in SUBSET UNION Proofs
      OBVIOUS
    <3>2. [session |-> s, declined |-> outcome = "failed", carries |-> carries] \in Url
      BY <3>1 DEF Url
    <3>3. [at |-> "return", phase |-> "verifying", late |-> FALSE, about |-> None,
           url |-> [session |-> s, declined |-> outcome = "failed", carries |-> carries]]
              \in ReturnTab
      BY <3>2 DEF ReturnTab, Phase
    <3>4. QED BY <1>1, <3>3, ReturnIsTab DEF TypeOK, CheckoutEnds
  <2>3. poll' \in [Poll -> PollState]
    BY <1>1, LeavingTypes DEF TypeOK, CheckoutEnds
  <2>4. QED BY <1>1, <2>1, <2>2, <2>3 DEF TypeOK, CheckoutEnds
<1>2. ASSUME NEW s \in Session, Webhook(s), boughtFor[s] # None
      PROVE  TypeOK'
  BY <1>2 DEF TypeOK, Webhook, Apply
<1>3. QED BY <1>1, <1>2

(* The confirm endpoint.                                                   *)
LEMMA AnsweredTypes ==
    ASSUME NEW q, q.browser \in Browser, q.mounted \in BOOLEAN, q.late \in BOOLEAN,
           NEW verdict \in Verdict, NEW b \in Business \cup {None}, NEW mints \in BOOLEAN
    PROVE  Answered(q, verdict, b, mints) \in AnsweredState
<1>1. [verdict |-> verdict, business |-> b, mints |-> mints] \in Answer
  BY DEF Answer
<1>2. QED BY <1>1 DEF Answered, AnsweredState

(* Who is identified has a row, where the proofs name rows.                *)
LEMMA IdentifiedExist ==
    ASSUME NEW q, SentPoll(q), q.url.session \in Session,
           \A s \in Session : boughtFor[s] # None => boughtFor[s] \in exists,
           NEW b \in Identify(q), b # None
    PROVE  b \in exists /\ (q.cookie # None => b = q.cookie)
<1> DEFINE s == q.url.session
<1>1. boughtFor[s] \in exists
  BY DEF SentPoll
<1>2. CASE q.cookie # None
  BY <1>2 DEF Identify, SentPoll
<1>3. CASE q.cookie = None /\ q.handoff # None
  BY <1>3 DEF Identify, SentPoll
<1>4. CASE q.cookie = None /\ q.handoff = None /\ "trial" \in q.url.carries
  BY <1>4, <1>1 DEF Identify
<1>5. CASE q.cookie = None /\ q.handoff = None /\ "trial" \notin q.url.carries
  BY <1>5, <1>1 DEF Identify, BySubscription
<1>6. QED BY <1>2, <1>3, <1>4, <1>5

LEMMA VerdictTypes ==
    \A b : Judge(b) \in Verdict
  BY DEF Judge, Verdict

LEMMA ConfirmTypes ==
    ASSUME TypeOK, RowsExist, PollsInv, NEW p \in Poll,
           ConfirmReads(p) \/ ReconcileApplies(p) \/ ReconcileFails(p)
    PROVE  TypeOK'
<1> USE DEF rowVars, dodoVars, browserVars
<1> DEFINE q == poll[p]
<1>0. exists \subseteq Business
  BY DEF TypeOK
<1>1. CASE ConfirmReads(p)
  <2>1. q \in SentState
    BY <1>1, PollStates DEF ConfirmReads
  <2>2. SentPoll(q) /\ q.url.session \in Session
    BY <1>1, <2>1 DEF ConfirmReads, PollsInv, PollInv, SentState, Url
  <2>3. PICK b \in Identify(q) :
            \/ b = None /\ poll' = [poll EXCEPT ![p] = Answered(q, "unknown", None, FALSE)]
            \/ b # None /\ poll' = [poll EXCEPT ![p] =
                   Answered(q, Judge(b), b, Mints(q.cookie = None, link[b] # None))]
            \/ b # None /\ Unconfirmed(b) /\ poll' = [poll EXCEPT ![p] =
                   [stage |-> "asking", browser |-> q.browser, mounted |-> q.mounted,
                    late |-> q.late, business |-> b, proved |-> q.cookie = None,
                    linked |-> link[b] # None, verdict |-> Judge(b)]]
    BY <1>1 DEF ConfirmReads
  <2>4. b # None => b \in Business
    BY <1>0, <2>2, IdentifiedExist DEF RowsExist
  <2>5. CASE poll' = [poll EXCEPT ![p] = Answered(q, "unknown", None, FALSE)]
    <3>1. Answered(q, "unknown", None, FALSE) \in AnsweredState
      BY <2>1, AnsweredTypes DEF SentState, Verdict
    <3>2. QED BY <1>1, <2>5, <3>1, StatesArePolls DEF TypeOK, ConfirmReads
  <2>6. CASE b # None /\ poll' = [poll EXCEPT ![p] =
                   Answered(q, Judge(b), b, Mints(q.cookie = None, link[b] # None))]
    <3>1. Answered(q, Judge(b), b, Mints(q.cookie = None, link[b] # None)) \in AnsweredState
      BY <2>1, <2>4, <2>6, AnsweredTypes, VerdictTypes DEF SentState, Mints
    <3>2. QED BY <1>1, <2>6, <3>1, StatesArePolls DEF TypeOK, ConfirmReads
  <2>7. CASE b # None /\ Unconfirmed(b) /\ poll' = [poll EXCEPT ![p] =
                   [stage |-> "asking", browser |-> q.browser, mounted |-> q.mounted,
                    late |-> q.late, business |-> b, proved |-> q.cookie = None,
                    linked |-> link[b] # None, verdict |-> Judge(b)]]
    <3>1. [stage |-> "asking", browser |-> q.browser, mounted |-> q.mounted,
           late |-> q.late, business |-> b, proved |-> q.cookie = None,
           linked |-> link[b] # None, verdict |-> Judge(b)] \in AskingState
      BY <2>1, <2>4, <2>7 DEF SentState, AskingState, Unconfirmed, Judge
    <3>2. QED BY <1>1, <2>7, <3>1, StatesArePolls DEF TypeOK, ConfirmReads
  <2>8. QED BY <2>3, <2>5, <2>6, <2>7
<1>2. CASE ReconcileApplies(p)
  <2>1. q \in AskingState
    BY <1>2, PollStates DEF ReconcileApplies
  <2>2. PICK s \in Session :
            /\ Apply(q.business, s)
            /\ poll' = [poll EXCEPT ![p] =
                   Answered(q, IF result[s] = "paid" THEN "confirmed" ELSE "declined",
                            q.business, Mints(q.proved, TRUE))]
    BY <1>2 DEF ReconcileApplies
  <2>3. Answered(q, IF result[s] = "paid" THEN "confirmed" ELSE "declined",
                 q.business, Mints(q.proved, TRUE)) \in AnsweredState
    BY <2>1, AnsweredTypes DEF AskingState, Verdict, Mints
  <2>4. poll' \in [Poll -> PollState]
    BY <2>2, <2>3, StatesArePolls DEF TypeOK
  <2>5. q.business \in Business
    BY <2>1 DEF AskingState
  <2>6. QED BY <1>2, <2>2, <2>4, <2>5 DEF TypeOK, ReconcileApplies, Apply
<1>3. CASE ReconcileFails(p)
  <2>1. q \in AskingState
    BY <1>3, PollStates DEF ReconcileFails
  <2>2. Answered(q, q.verdict, q.business, Mints(q.proved, q.linked)) \in AnsweredState
    BY <2>1, AnsweredTypes DEF AskingState, Verdict, Mints
  <2>3. QED BY <1>3, <2>2, StatesArePolls DEF TypeOK, ReconcileFails
<1>4. QED BY <1>1, <1>2, <1>3

(* The return page.                                                        *)
LEMMA ShowsTypes ==
    ASSUME TypeOK, NEW w \in Browser, NEW mounted, NEW verdict,
           NEW b \in Business \cup {None}, NEW late,
           mounted => tab[w].at = "return", Shows(w, mounted, verdict, b, late)
    PROVE  tab' \in [Browser -> Tab]
<1>1. CASE mounted
  <2> DEFINE after == PhaseAfter(verdict, tab[w].url.declined, late)
             about == IF b = None THEN tab[w].about ELSE b
  <2>1. tab[w] \in ReturnTab
    BY <1>1, TabOnReturn
  <2>2. after \in Phase
    BY DEF PhaseAfter, Phase
  <2>3. about \in Business \cup {None}
    BY <2>1 DEF ReturnTab
  <2>4. [tab[w] EXCEPT !.phase = after, !.about = about] \in ReturnTab
    BY <2>1, <2>2, <2>3 DEF ReturnTab
  <2>5. tab' = [tab EXCEPT ![w] = [tab[w] EXCEPT !.phase = after, !.about = about]]
    BY <1>1 DEF Shows, TypeOK
  <2>6. QED BY <2>4, <2>5, ReturnIsTab DEF TypeOK
<1>2. CASE ~mounted
  BY <1>2 DEF Shows, TypeOK
<1>3. QED BY <1>1, <1>2

LEMMA PageTypes ==
    ASSUME TypeOK, MountedPolls,
           \/ \E w \in Browser, p \in Poll : PollSent(w, p)
           \/ \E p \in Poll : AnswerArrives(p) \/ PollLost(p)
           \/ \E w \in Browser :
                  \/ DeadlinePasses(w) \/ Retry(w) \/ HandsOver(w) \/ BackToSignup(w)
                  \/ HandoffExpires(w) \/ TokenExpires(w)
    PROVE  TypeOK'
<1> USE DEF rowVars, dodoVars, browserVars
<1>1. ASSUME NEW w \in Browser, NEW p \in Poll, PollSent(w, p)
      PROVE  TypeOK'
  <2>1. tab[w] \in ReturnTab
    BY <1>1, TabOnReturn DEF PollSent, OnReturn
  <2>2. [stage |-> "sent", browser |-> w, mounted |-> TRUE, late |-> tab[w].late,
         url |-> tab[w].url, cookie |-> cookie[w], handoff |-> handoff[w]] \in SentState
    BY <2>1 DEF ReturnTab, SentState, TypeOK
  <2>3. QED BY <1>1, <2>2, StatesArePolls DEF TypeOK, PollSent
<1>2. ASSUME NEW p \in Poll, AnswerArrives(p)
      PROVE  TypeOK'
  <2> DEFINE q == poll[p]
  <2>1. q \in AnsweredState /\ q # Idle
    BY <1>2, PollStates DEF AnswerArrives, Idle
  <2>2. /\ q.browser \in Browser
        /\ q.answer.business \in Business \cup {None}
        /\ q.mounted => tab[q.browser].at = "return"
    BY <2>1 DEF AnsweredState, Answer, MountedPolls, OnReturn
  <2>3. tab' \in [Browser -> Tab]
    BY <1>2, <2>2, ShowsTypes DEF AnswerArrives
  <2>4. cookie' \in [Browser -> Cookie] /\ handoff' \in [Browser -> Handoff \cup {None}]
    BY <1>2, <2>2 DEF TypeOK, AnswerArrives, Cookie
  <2>5. QED BY <1>2, <2>3, <2>4, StatesArePolls DEF TypeOK, AnswerArrives
<1>3. ASSUME NEW p \in Poll, PollLost(p)
      PROVE  TypeOK'
  <2> DEFINE q == poll[p]
  <2>1. q # Idle
    BY <1>3 DEF PollLost, Idle
  <2>2. q.browser \in Browser /\ (q.mounted => tab[q.browser].at = "return")
    BY <2>1, PollStates DEF MountedPolls, OnReturn
  <2>3. tab' \in [Browser -> Tab]
    BY <1>3, <2>2, ShowsTypes DEF PollLost
  <2>4. QED BY <1>3, <2>3, StatesArePolls DEF TypeOK, PollLost
<1>4. ASSUME NEW w \in Browser, DeadlinePasses(w)
      PROVE  TypeOK'
  <2>1. tab[w] \in ReturnTab
    BY <1>4, TabOnReturn DEF DeadlinePasses, OnReturn
  <2>2. [tab[w] EXCEPT !.late = TRUE] \in ReturnTab
    BY <2>1 DEF ReturnTab
  <2>3. tab' \in [Browser -> Tab]
    BY <1>4, <2>2, ReturnIsTab DEF TypeOK, DeadlinePasses
  <2>4. ASSUME NEW r \in Poll
        PROVE  [poll[r] EXCEPT !.late = TRUE] \in PollState \/ poll[r] = Idle
    <3>1. poll[r] \in SentState => [poll[r] EXCEPT !.late = TRUE] \in SentState
      BY DEF SentState
    <3>2. poll[r] \in AskingState => [poll[r] EXCEPT !.late = TRUE] \in AskingState
      BY DEF AskingState
    <3>3. poll[r] \in AnsweredState => [poll[r] EXCEPT !.late = TRUE] \in AnsweredState
      BY DEF AnsweredState
    <3>4. QED BY <3>1, <3>2, <3>3, PollStates, StatesArePolls
  <2>5. poll' \in [Poll -> PollState]
    BY <1>4, <2>4 DEF TypeOK, DeadlinePasses
  <2>6. QED BY <1>4, <2>3, <2>5 DEF TypeOK, DeadlinePasses
<1>5. ASSUME NEW w \in Browser, Retry(w)
      PROVE  TypeOK'
  <2>1. tab[w] \in ReturnTab
    BY <1>5, TabOnReturn DEF Retry, OnReturn
  <2>2. [tab[w] EXCEPT !.phase = "verifying", !.late = FALSE] \in ReturnTab
    BY <2>1 DEF ReturnTab, Phase
  <2>3. tab' = [tab EXCEPT ![w] = [tab[w] EXCEPT !.phase = "verifying", !.late = FALSE]]
    BY <1>5 DEF Retry, TypeOK
  <2>4. QED BY <1>5, <2>2, <2>3, ReturnIsTab DEF TypeOK, Retry
<1>6. ASSUME NEW w \in Browser, HandsOver(w) \/ BackToSignup(w)
      PROVE  TypeOK'
  BY <1>6, OnboardingTab, LeavingTypes DEF TypeOK, HandsOver, BackToSignup
<1>7. ASSUME NEW w \in Browser, HandoffExpires(w)
      PROVE  TypeOK'
  BY <1>7 DEF TypeOK, HandoffExpires
<1>8. ASSUME NEW w \in Browser, TokenExpires(w)
      PROVE  TypeOK'
  <2>1. tab[w] \in ReturnTab
    BY <1>8, TabOnReturn DEF TokenExpires, OnReturn
  <2>2. [tab[w].url EXCEPT !.carries = @ \ {"trial"}] \in Url
    BY <2>1 DEF ReturnTab, Url
  <2>3. [tab[w] EXCEPT !.url = [tab[w].url EXCEPT !.carries = @ \ {"trial"}]] \in ReturnTab
    BY <2>1, <2>2 DEF ReturnTab
  <2>4. tab' \in [Browser -> Tab]
    BY <1>8, <2>3, ReturnIsTab DEF TypeOK, TokenExpires
  <2>5. QED BY <1>8, <2>4 DEF TypeOK, TokenExpires
<1>9. QED BY <1>1, <1>2, <1>3, <1>4, <1>5, <1>6, <1>7, <1>8

LEMMA StepTypes ==
    ASSUME TypeOK, RowsExist, MountedPolls, PollsInv, [Next]_vars
    PROVE  TypeOK'
<1>1. CASE \/ \E w \in Browser, b \in Business : SignupStart(w, b)
           \/ \E w \in Browser, s \in Session : SignupOpens(w, s)
           \/ \E w \in Browser : Continue(w) \/ StepBack(w) \/ SignupFails(w) \/ Abandon(w)
           \/ \E b \in Business, s \in Session : SignupElsewhere(b, s)
  BY <1>1, SignupTypes
<1>2. CASE \/ \E s \in Session, w \in Browser \cup {None}, outcome \in {"paid", "failed"},
                 carries \in Proofs : CheckoutEnds(s, w, outcome, carries)
           \/ \E s \in Session : Webhook(s)
  <2>1. ASSUME NEW s \in Session, Webhook(s)
        PROVE  boughtFor[s] # None
    BY <2>1, EndedAreBought DEF Webhook
  <2>2. QED BY <1>2, <2>1, DodoTypes
<1>3. CASE \/ \E w \in Browser, p \in Poll : PollSent(w, p)
           \/ \E p \in Poll : AnswerArrives(p) \/ PollLost(p)
           \/ \E w \in Browser :
                  \/ DeadlinePasses(w) \/ Retry(w) \/ HandsOver(w) \/ BackToSignup(w)
                  \/ HandoffExpires(w) \/ TokenExpires(w)
  BY <1>3, PageTypes
<1>4. CASE \E p \in Poll : ConfirmReads(p) \/ ReconcileApplies(p) \/ ReconcileFails(p)
  BY <1>4, ConfirmTypes
<1>5. CASE UNCHANGED vars
  BY <1>5 DEF vars, rowVars, dodoVars, browserVars, TypeOK
<1>6. QED BY <1>1, <1>2, <1>3, <1>4, <1>5 DEF Next

-----------------------------------------------------------------------------
(* What only grows: the rows, the sessions opened, the links.              *)
Grows ==
    /\ exists \subseteq exists'
    /\ \A s \in Session : boughtFor[s] # None => boughtFor'[s] = boughtFor[s]
    /\ \A b \in Business : link[b] # None => link'[b] = link[b]

LEMMA NothingUndone ==
    ASSUME TypeOK, RowsExist, [Next]_vars
    PROVE  Grows
<1> USE DEF Grows, TypeOK, rowVars, dodoVars
<1>1. ASSUME NEW w \in Browser, NEW b \in Business, SignupStart(w, b)
      PROVE  Grows
  BY <1>1 DEF SignupStart
<1>2. ASSUME NEW w \in Browser, NEW s \in Session, SignupOpens(w, s)
      PROVE  Grows
  BY <1>2 DEF SignupOpens
<1>3. ASSUME NEW b \in Business, NEW s \in Session, SignupElsewhere(b, s)
      PROVE  Grows
  BY <1>3 DEF SignupElsewhere
<1>4. ASSUME NEW s \in Session, NEW w \in Browser \cup {None}, NEW outcome, NEW carries,
             CheckoutEnds(s, w, outcome, carries)
      PROVE  Grows
  BY <1>4 DEF CheckoutEnds
<1>5. ASSUME NEW s \in Session, Webhook(s)
      PROVE  Grows
  <2>1. boughtFor[s] \in Business
    BY <1>5, EndedAreBought DEF Webhook
  <2>2. QED BY <1>5, <2>1, CheckoutReturnAssumption DEF Webhook, Apply
<1>6. ASSUME NEW p \in Poll, ReconcileApplies(p)
      PROVE  Grows
  <2>1. poll[p].business \in Business
    BY <1>6, PollStates DEF ReconcileApplies, AskingState
  <2>2. QED BY <1>6, <2>1, CheckoutReturnAssumption DEF ReconcileApplies, Apply
<1>7. ASSUME NEW p \in Poll,
             ConfirmReads(p) \/ ReconcileFails(p) \/ AnswerArrives(p) \/ PollLost(p)
      PROVE  Grows
  BY <1>7 DEF ConfirmReads, ReconcileFails, AnswerArrives, PollLost
<1>8. ASSUME NEW w \in Browser, NEW p \in Poll, PollSent(w, p)
      PROVE  Grows
  BY <1>8 DEF PollSent
<1>9. ASSUME NEW w \in Browser,
             \/ Continue(w) \/ StepBack(w) \/ SignupFails(w) \/ Abandon(w)
             \/ DeadlinePasses(w) \/ Retry(w) \/ HandsOver(w) \/ BackToSignup(w)
             \/ HandoffExpires(w) \/ TokenExpires(w)
      PROVE  Grows
  BY <1>9 DEF Continue, StepBack, SignupFails, Abandon, DeadlinePasses, Retry,
              HandsOver, BackToSignup, HandoffExpires, TokenExpires
<1>10. CASE UNCHANGED vars
  BY <1>10 DEF vars
<1>11. QED BY <1>1, <1>2, <1>3, <1>4, <1>5, <1>6, <1>7, <1>8, <1>9, <1>10 DEF Next

(* What an answer does to a page: its phase and whom it is about.          *)
LEMMA ShowsAlters ==
    ASSUME TypeOK, NEW w \in Browser, NEW mounted, NEW verdict, NEW b, NEW late,
           mounted => OnReturn(w), Shows(w, mounted, verdict, b, late), NEW v \in Browser
    PROVE  /\ v # w \/ ~mounted => tab'[v] = tab[v]
           /\ v = w /\ mounted =>
                  /\ tab'[v].at = "return" /\ tab[v].at = "return"
                  /\ tab'[v].url = tab[v].url
                  /\ tab'[v].phase = PhaseAfter(verdict, tab[v].url.declined, late)
                  /\ tab'[v].about = IF b = None THEN tab[v].about ELSE b
<1>1. CASE mounted /\ v = w
  <2>1. tab[w] \in ReturnTab
    BY <1>1, TabOnReturn DEF OnReturn
  <2>2. tab' = [tab EXCEPT ![w].phase = PhaseAfter(verdict, tab[w].url.declined, late),
                           ![w].about = IF b = None THEN @ ELSE b]
    BY <1>1 DEF Shows
  <2>3. QED BY <1>1, <2>1, <2>2 DEF TypeOK, ReturnTab
<1>2. CASE ~mounted \/ v # w
  BY <1>2 DEF Shows, TypeOK
<1>3. QED BY <1>1, <1>2

LEMMA OnboardingPageShows ==
    \A w \in Browser : OnboardingPage(w).at \notin {"return", "submitting"}
  BY DEF OnboardingPage, Flow, Wizard

(* Every name is still the name of a row.                                  *)
LEMMA RowsKept ==
    ASSUME TypeOK, RowsExist, MountedPolls, PollsInv, [Next]_vars
    PROVE  RowsExist'
<1> USE DEF RowsExist, TypeOK, rowVars, dodoVars, browserVars
<1>1. ASSUME NEW w \in Browser, NEW b \in Business, SignupStart(w, b)
      PROVE  RowsExist'
  BY <1>1 DEF SignupStart, Wizard
<1>2. ASSUME NEW w \in Browser, NEW s \in Session, SignupOpens(w, s)
      PROVE  RowsExist'
  <2> DEFINE b == tab[w].business
  <2>1. b \in exists /\ b \in Business
    BY <1>2, TabSubmitting DEF SignupOpens
  <2>2. /\ \A t \in Session : boughtFor'[t] # None => boughtFor'[t] \in exists'
        /\ \A t \in Session : boughtFor[t] # None => boughtFor'[t] # None
    BY <1>2, <2>1 DEF SignupOpens
  <2>3. \A v \in Browser :
            /\ cookie'[v] # None => cookie'[v] \in exists'
            /\ handoff'[v] # None => handoff'[v].business \in exists'
    BY <1>2, <2>1 DEF SignupOpens, SignupIdentity
  <2>4. \A v \in Browser :
            /\ tab'[v].at = "submitting" => tab'[v] = tab[v]
            /\ tab'[v].at = "return" => tab'[v] = tab[v]
    BY <1>2 DEF SignupOpens, Wizard
  <2>5. ASSUME NEW v \in Browser, tab[v].at = "return"
        PROVE  tab[v].url.session \in Session
    BY <2>5, TabOnReturn DEF ReturnTab, Url
  <2>6. /\ exists' = exists /\ result' = result /\ ended' = ended
        /\ ended \in Seq(Session)
    BY <1>2 DEF SignupOpens
  <2>7. /\ \A t \in Session : result'[t] # "open" => boughtFor'[t] # None
        /\ \A i \in DOMAIN ended' : result'[ended'[i]] # "open"
    BY <2>2, <2>6
  <2>8. \A v \in Browser :
            /\ tab'[v].at = "submitting" => tab'[v].business \in exists'
            /\ tab'[v].at = "return" => boughtFor'[tab'[v].url.session] # None
    BY <2>2, <2>4, <2>5, <2>6
  <2>9. QED BY <2>2, <2>3, <2>7, <2>8
<1>3. ASSUME NEW b \in Business, NEW s \in Session, SignupElsewhere(b, s)
      PROVE  RowsExist'
  <2>1. ASSUME NEW v \in Browser, tab[v].at = "return"
        PROVE  tab[v].url.session \in Session
    BY <2>1, TabOnReturn DEF ReturnTab, Url
  <2>2. QED BY <1>3, <2>1 DEF SignupElsewhere
<1>4. ASSUME NEW s \in Session, NEW w \in Browser \cup {None},
             NEW outcome \in {"paid", "failed"}, NEW carries, CheckoutEnds(s, w, outcome, carries)
      PROVE  RowsExist'
  <2>1. \A t \in Session : result'[t] # "open" => t = s \/ result[t] # "open"
    BY <1>4 DEF CheckoutEnds
  <2>2. \A i \in DOMAIN ended' : result'[ended'[i]] # "open"
    BY <1>4 DEF CheckoutEnds
  <2>3. \A v \in Browser :
            /\ tab'[v].at = "submitting" => tab'[v] = tab[v]
            /\ tab'[v].at = "return" => tab'[v] = tab[v] \/ tab'[v].url.session = s
    BY <1>4 DEF CheckoutEnds
  <2>4. QED BY <1>4, <2>1, <2>2, <2>3 DEF CheckoutEnds
<1>5. ASSUME NEW s \in Session, Webhook(s)
      PROVE  RowsExist'
  BY <1>5 DEF Webhook
<1>6. ASSUME NEW p \in Poll, ConfirmReads(p) \/ ReconcileApplies(p) \/ ReconcileFails(p)
      PROVE  RowsExist'
  BY <1>6 DEF ConfirmReads, ReconcileApplies, ReconcileFails
<1>7. ASSUME NEW p \in Poll, AnswerArrives(p) \/ PollLost(p)
      PROVE  RowsExist'
  <2> DEFINE q == poll[p]
             w == q.browser
  <2>1. q # Idle /\ w \in Browser /\ (q.mounted => OnReturn(w))
    BY <1>7, PollStates DEF AnswerArrives, PollLost, Idle, MountedPolls
  <2>2. \A v \in Browser :
            /\ tab'[v].at = tab[v].at
            /\ tab[v].at = "return" => tab'[v].url = tab[v].url
            /\ tab[v].at = "submitting" => tab'[v] = tab[v]
    BY <1>7, <2>1, ShowsAlters DEF AnswerArrives, PollLost
  <2>3. \A v \in Browser :
            /\ cookie'[v] # None => cookie'[v] \in exists
            /\ handoff'[v] # None => handoff'[v].business \in exists
    <3>1. CASE AnswerArrives(p)
      BY <3>1, <2>1 DEF AnswerArrives, PollsInv, PollInv, AnsweredPoll
    <3>2. CASE PollLost(p)
      BY <3>2 DEF PollLost
    <3>3. QED BY <1>7, <3>1, <3>2
  <2>4. UNCHANGED <<exists, boughtFor, result, ended>>
    BY <1>7 DEF AnswerArrives, PollLost
  <2>5. QED BY <2>2, <2>3, <2>4
<1>8. ASSUME NEW w \in Browser, NEW p \in Poll, PollSent(w, p)
      PROVE  RowsExist'
  BY <1>8 DEF PollSent
<1>9. ASSUME NEW w \in Browser,
             DeadlinePasses(w) \/ Retry(w) \/ TokenExpires(w)
      PROVE  RowsExist'
  <2>1. tab[w] \in ReturnTab
    BY <1>9, TabOnReturn DEF DeadlinePasses, Retry, TokenExpires, OnReturn
  <2>2. tab'[w].at = "return" /\ tab'[w].url.session = tab[w].url.session
    BY <1>9, <2>1 DEF DeadlinePasses, Retry, TokenExpires, ReturnTab, Url
  <2>3. /\ tab[w].at = "return"
        /\ \A v \in Browser : v # w => tab'[v] = tab[v]
        /\ UNCHANGED <<exists, boughtFor, result, ended, cookie, handoff>>
    BY <1>9, <2>1 DEF DeadlinePasses, Retry, TokenExpires, ReturnTab
  <2>4. QED BY <2>2, <2>3
<1>10. ASSUME NEW w \in Browser,
             \/ Continue(w) \/ StepBack(w) \/ SignupFails(w) \/ Abandon(w)
             \/ HandsOver(w) \/ BackToSignup(w)
      PROVE  RowsExist'
  <2>1. /\ \A v \in Browser :
               tab'[v] = tab[v] \/ tab'[v].at \notin {"return", "submitting"}
        /\ UNCHANGED <<exists, boughtFor, result, ended, cookie, handoff>>
    BY <1>10, OnboardingPageShows
       DEF Continue, StepBack, SignupFails, Abandon, HandsOver, BackToSignup, Wizard
  <2>2. QED BY <2>1
<1>11. ASSUME NEW w \in Browser, HandoffExpires(w)
       PROVE  RowsExist'
  BY <1>11 DEF HandoffExpires
<1>12. CASE UNCHANGED vars
  BY <1>12 DEF vars
<1> HIDE DEF RowsExist, TypeOK
<1>13. QED
  BY <1>1, <1>2, <1>3, <1>4, <1>5, <1>6, <1>7, <1>8, <1>9, <1>10, <1>11, <1>12 DEF Next

-----------------------------------------------------------------------------
(* How the polls of a page end with it.                                    *)
SameSender(p) ==
    poll'[p] # Idle =>
        /\ poll[p] # Idle
        /\ poll'[p].browser = poll[p].browser
        /\ poll'[p].mounted = poll[p].mounted

LEMMA LeavingPolls ==
    ASSUME TypeOK, NEW w \in Browser, NEW p \in Poll
    PROVE  /\ Unload(w) =>
                  poll'[p] = Idle \/ (poll'[p] = poll[p] /\ poll[p].browser # w)
           /\ Unmount(w) =>
                  \/ poll'[p] = poll[p] /\ (poll[p] = Idle \/ poll[p].browser # w)
                  \/ /\ poll[p] # Idle /\ poll[p].browser = w
                     /\ poll'[p] = [poll[p] EXCEPT !.mounted = FALSE]
                     /\ poll'[p].browser = w /\ ~poll'[p].mounted
<1>1. Unload(w) => poll'[p] = Idle \/ (poll'[p] = poll[p] /\ poll[p].browser # w)
  BY DEF Unload
<1>2. ASSUME Unmount(w), poll[p] # Idle, poll[p].browser = w
      PROVE  /\ poll'[p] = [poll[p] EXCEPT !.mounted = FALSE]
             /\ poll'[p].browser = w /\ ~poll'[p].mounted
  <2>1. poll'[p] = [poll[p] EXCEPT !.mounted = FALSE]
    BY <1>2 DEF Unmount
  <2>2. QED BY <1>2, <2>1, PollStates DEF SentState, AskingState, AnsweredState
<1>3. ASSUME Unmount(w), poll[p] = Idle \/ poll[p].browser # w
      PROVE  poll'[p] = poll[p]
  BY <1>3 DEF Unmount
<1>4. QED BY <1>1, <1>2, <1>3

(* A page that comes has no polls, and a page that goes leaves none that   *)
(* could still change what the browser shows.                              *)
LEMMA MountedKept ==
    ASSUME TypeOK, RowsExist, MountedPolls, PollsInv, [Next]_vars
    PROVE  MountedPolls'
<1> USE DEF MountedPolls, OnReturn, rowVars, dodoVars, browserVars
<1>a. ASSUME \A p \in Poll : SameSender(p),
             \A v \in Browser : tab'[v].at = "return" <=> tab[v].at = "return"
      PROVE  MountedPolls'
  BY <1>a, PollStates DEF SameSender
<1>1. ASSUME NEW w \in Browser, NEW b \in Business, SignupStart(w, b)
      PROVE  MountedPolls'
  <2>1. \A v \in Browser : tab'[v].at = "return" <=> tab[v].at = "return"
    BY <1>1 DEF SignupStart, Wizard, TypeOK
  <2>2. \A p \in Poll : SameSender(p)
    BY <1>1 DEF SignupStart, SameSender
  <2>3. QED BY <2>1, <2>2, <1>a
<1>2. ASSUME NEW w \in Browser, NEW s \in Session, SignupOpens(w, s)
      PROVE  MountedPolls'
  <2>1. \A v \in Browser : tab'[v].at = "return" <=> tab[v].at = "return"
    BY <1>2 DEF SignupOpens, Wizard, TypeOK
  <2>2. ASSUME NEW p \in Poll
        PROVE  SameSender(p)
    <3>1. Unload(w) \/ poll' = poll
      BY <1>2 DEF SignupOpens
    <3>2. QED BY <3>1, LeavingPolls DEF SameSender
  <2>3. QED BY <2>1, <2>2, <1>a
<1>3. ASSUME NEW s \in Session, NEW w \in Browser \cup {None}, NEW outcome, NEW carries,
             CheckoutEnds(s, w, outcome, carries)
      PROVE  MountedPolls'
  <2>1. CASE UNCHANGED <<tab, poll>>
    BY <2>1
  <2>2. ASSUME w \in Browser, Unload(w), \A v \in Browser : v # w => tab'[v] = tab[v]
        PROVE  MountedPolls'
    <3>1. \A p \in Poll : poll'[p] = Idle \/ (poll'[p] = poll[p] /\ poll[p].browser # w)
      BY <2>2, LeavingPolls
    <3>2. QED BY <2>2, <3>1, PollStates
  <2>3. \/ UNCHANGED <<tab, poll>>
        \/ w \in Browser /\ Unload(w) /\ \A v \in Browser : v # w => tab'[v] = tab[v]
    BY <1>3 DEF CheckoutEnds, TypeOK
  <2>4. QED BY <2>1, <2>2, <2>3
<1>4. ASSUME NEW p \in Poll, ConfirmReads(p)
      PROVE  MountedPolls'
  <2>1. poll[p] # Idle
    BY <1>4 DEF ConfirmReads, Idle
  <2>2. \A r \in Poll : SameSender(r)
    BY <1>4, <2>1 DEF ConfirmReads, Answered, SameSender, TypeOK
  <2>3. QED BY <1>4, <2>2, <1>a DEF ConfirmReads
<1>5. ASSUME NEW p \in Poll, ReconcileApplies(p) \/ ReconcileFails(p)
      PROVE  MountedPolls'
  <2>1. poll[p].stage = "asking"
    BY <1>5 DEF ReconcileApplies, ReconcileFails
  <2>2. poll[p] # Idle
    BY <2>1 DEF Idle
  <2>3. PICK verdict, b, mints :
            poll' = [poll EXCEPT ![p] = Answered(poll[p], verdict, b, mints)]
    <3>1. CASE ReconcileApplies(p)
      <4>1. PICK s \in Session : poll' = [poll EXCEPT ![p] =
                Answered(poll[p], IF result[s] = "paid" THEN "confirmed" ELSE "declined",
                         poll[p].business, Mints(poll[p].proved, TRUE))]
        BY <3>1 DEF ReconcileApplies
      <4>2. QED BY <4>1
    <3>2. CASE ReconcileFails(p)
      BY <3>2 DEF ReconcileFails, TypeOK
    <3>3. QED BY <1>5, <3>1, <3>2
  <2>4. \A r \in Poll : SameSender(r)
    BY <2>2, <2>3 DEF Answered, SameSender, TypeOK
  <2>5. QED BY <1>5, <2>4, <1>a DEF ReconcileApplies, ReconcileFails
<1>6. ASSUME NEW p \in Poll, AnswerArrives(p) \/ PollLost(p)
      PROVE  MountedPolls'
  <2> DEFINE q == poll[p]
             w == q.browser
  <2>1. q # Idle /\ w \in Browser /\ (q.mounted => OnReturn(w))
    BY <1>6, PollStates DEF AnswerArrives, PollLost, Idle
  <2>2. \A v \in Browser : tab'[v].at = tab[v].at
    BY <1>6, <2>1, ShowsAlters DEF AnswerArrives, PollLost
  <2>3. \A r \in Poll : SameSender(r)
    BY <1>6 DEF AnswerArrives, PollLost, SameSender, TypeOK
  <2>4. QED BY <2>2, <2>3, <1>a
<1>7. ASSUME NEW w \in Browser, NEW p \in Poll, PollSent(w, p)
      PROVE  MountedPolls'
  BY <1>7 DEF PollSent, TypeOK
<1>8. ASSUME NEW w \in Browser, DeadlinePasses(w)
      PROVE  MountedPolls'
  <2>1. \A v \in Browser : tab'[v].at = "return" <=> tab[v].at = "return"
    <3>1. tab[w] \in ReturnTab
      BY <1>8, TabOnReturn DEF DeadlinePasses
    <3>2. QED BY <1>8, <3>1 DEF DeadlinePasses, TypeOK, ReturnTab
  <2>2. ASSUME NEW p \in Poll
        PROVE  SameSender(p)
    <3>1. poll'[p] = poll[p] \/ (poll[p] # Idle /\ poll'[p] = [poll[p] EXCEPT !.late = TRUE])
      BY <1>8 DEF DeadlinePasses
    <3>2. QED BY <3>1, PollStates DEF SameSender, SentState, AskingState, AnsweredState
  <2>3. QED BY <2>1, <2>2, <1>a
<1>9. ASSUME NEW w \in Browser, HandsOver(w) \/ BackToSignup(w)
      PROVE  MountedPolls'
  <2>1. /\ tab'[w].at # "return"
        /\ \A v \in Browser : v # w => tab'[v] = tab[v]
        /\ Unmount(w)
    BY <1>9, OnboardingPageShows DEF HandsOver, BackToSignup, TypeOK
  <2>2. \A p \in Poll :
            \/ poll'[p] = poll[p] /\ (poll[p] = Idle \/ poll[p].browser # w)
            \/ poll'[p].browser = w /\ ~poll'[p].mounted
    BY <2>1, LeavingPolls
  <2>3. QED BY <2>1, <2>2, PollStates
<1>10. ASSUME NEW w \in Browser,
              \/ Continue(w) \/ StepBack(w) \/ SignupFails(w) \/ Abandon(w)
              \/ Retry(w) \/ HandoffExpires(w) \/ TokenExpires(w)
       PROVE  MountedPolls'
  <2>1. CASE Retry(w) \/ TokenExpires(w)
    <3>1. tab[w] \in ReturnTab
      BY <2>1, TabOnReturn DEF Retry, TokenExpires
    <3>2. tab'[w].at = "return"
      BY <2>1, <3>1 DEF Retry, TokenExpires, TypeOK, ReturnTab
    <3>3. QED BY <2>1, <3>2, <1>a DEF Retry, TokenExpires, TypeOK, SameSender
  <2>2. CASE \/ Continue(w) \/ StepBack(w) \/ SignupFails(w) \/ Abandon(w)
             \/ HandoffExpires(w)
    BY <2>2, <1>a, OnboardingPageShows
       DEF Continue, StepBack, SignupFails, Abandon, HandoffExpires, Wizard, TypeOK,
           SameSender
  <2>3. QED BY <1>10, <2>1, <2>2
<1>11. CASE (\E b \in Business, s \in Session : SignupElsewhere(b, s)) \/ (\E s \in Session : Webhook(s))
  BY <1>11 DEF SignupElsewhere, Webhook
<1>12. CASE UNCHANGED vars
  BY <1>12 DEF vars
<1> HIDE DEF MountedPolls
<1>13. QED
  BY <1>1, <1>2, <1>3, <1>4, <1>5, <1>6, <1>7, <1>8, <1>9, <1>10, <1>11, <1>12 DEF Next

-----------------------------------------------------------------------------
(* Whose session a browser gets, and what becomes of its polls then.       *)
LEMMA CookiesChange ==
    ASSUME TypeOK, RowsExist, PollsInv, [Next]_vars, NEW w \in Browser, cookie'[w] # cookie[w]
    PROVE  \/ /\ tab[w].at = "submitting" /\ tab[w].creates
              /\ cookie'[w] = tab[w].business
              /\ tab'[w].at = "dodo" /\ Unload(w)
           \/ /\ cookie'[w] \in exists
              /\ link[cookie'[w]] # None
<1> USE DEF browserVars
<1>1. ASSUME NEW v \in Browser, NEW s \in Session, SignupOpens(v, s)
      PROVE  /\ tab[w].at = "submitting" /\ tab[w].creates
             /\ cookie'[w] = tab[w].business
             /\ tab'[w].at = "dodo" /\ Unload(w)
  <2>1. v = w
    BY <1>1 DEF SignupOpens, SignupIdentity, TypeOK
  <2>2. cookie' # cookie
    OBVIOUS
  <2>3. /\ SignupIdentity(w, tab[w].business, s, tab[w].creates)
        /\ tab' = [tab EXCEPT ![w] = [at |-> "dodo", session |-> s]]
        /\ Unload(w)
    BY <1>1, <2>1, <2>2 DEF SignupOpens
  <2>4. QED BY <1>1, <2>1, <2>3 DEF SignupOpens, SignupIdentity, TypeOK
<1>2. ASSUME NEW p \in Poll, AnswerArrives(p)
      PROVE  cookie'[w] \in exists /\ link[cookie'[w]] # None
  BY <1>2 DEF AnswerArrives, PollsInv, PollInv, AnsweredPoll, TypeOK
<1>3. CASE \/ \E v \in Browser, b \in Business : SignupStart(v, b)
           \/ \E b \in Business, s \in Session : SignupElsewhere(b, s)
           \/ \E s \in Session : Webhook(s)
           \/ \E v \in Browser, p \in Poll : PollSent(v, p)
           \/ \E s \in Session, v \in Browser \cup {None}, outcome \in {"paid", "failed"},
                 carries \in Proofs : CheckoutEnds(s, v, outcome, carries)
  BY <1>3 DEF SignupStart, SignupElsewhere, Webhook, PollSent, CheckoutEnds
<1>4. CASE \E v \in Browser :
               \/ Continue(v) \/ StepBack(v) \/ SignupFails(v) \/ Abandon(v)
               \/ DeadlinePasses(v) \/ Retry(v) \/ HandsOver(v) \/ BackToSignup(v)
               \/ HandoffExpires(v) \/ TokenExpires(v)
  BY <1>4 DEF Continue, StepBack, SignupFails, Abandon, DeadlinePasses, Retry,
              HandsOver, BackToSignup, HandoffExpires, TokenExpires
<1>5. CASE \E p \in Poll :
               ConfirmReads(p) \/ ReconcileApplies(p) \/ ReconcileFails(p) \/ PollLost(p)
  BY <1>5 DEF ConfirmReads, ReconcileApplies, ReconcileFails, PollLost
<1>6. CASE UNCHANGED vars
  BY <1>6 DEF vars
<1>7. QED BY <1>1, <1>2, <1>3, <1>4, <1>5, <1>6 DEF Next

(* The cookie of a poll that is still in flight was not taken away.        *)
LEMMA HoldsKept ==
    ASSUME TypeOK, RowsExist, PollsInv, [Next]_vars, NEW p \in Poll,
           poll[p] # Idle, poll'[p] # Idle, NEW b \in Business, Holds(poll[p].browser, b)
    PROVE  \/ cookie'[poll[p].browser] = b
           \/ /\ cookie'[poll[p].browser] \in exists'
              /\ link'[cookie'[poll[p].browser]] # None
<1> DEFINE w == poll[p].browser
<1>1. w \in Browser /\ Grows /\ exists \subseteq Business
  BY PollStates, NothingUndone DEF TypeOK
<1>2. ~Unload(w)
  BY <1>1, LeavingPolls
<1>3. cookie'[w] = cookie[w] \/ (cookie'[w] \in exists /\ link[cookie'[w]] # None)
  BY <1>1, <1>2, CookiesChange
<1>4. QED BY <1>1, <1>3 DEF Holds, SignedIn, Grows

(* A request that is only unmounted, or late, or untouched.                *)
LEMMA RequestKept ==
    ASSUME TypeOK, RowsExist, PollsInv, [Next]_vars, NEW p \in Poll,
           \/ poll'[p] = Idle \/ poll'[p] = poll[p]
           \/ poll[p] # Idle /\ poll'[p] = [poll[p] EXCEPT !.mounted = FALSE]
           \/ poll[p] # Idle /\ poll'[p] = [poll[p] EXCEPT !.late = TRUE]
    PROVE  PollInv(p)'
<1>1. CASE poll'[p] = Idle
  BY <1>1 DEF PollInv, Idle
<1>2. CASE poll[p] = Idle /\ poll'[p] = poll[p]
  BY <1>2 DEF PollInv, Idle
<1>3. ASSUME poll[p] # Idle, poll'[p] # Idle
      PROVE  PollInv(p)'
  <2>1. /\ poll[p] \in SentState \cup AskingState \cup AnsweredState
        /\ Grows /\ exists \subseteq Business
    BY <1>3, PollStates, NothingUndone DEF TypeOK
  <2>2. CASE poll[p] \in SentState
    <3>1. /\ poll'[p].stage = "sent" /\ poll'[p].url = poll[p].url
          /\ poll'[p].cookie = poll[p].cookie /\ poll'[p].handoff = poll[p].handoff
          /\ poll'[p].browser = poll[p].browser
      BY <1>3, <2>2 DEF SentState
    <3>2. SentPoll(poll[p]) /\ poll[p].url.session \in Session
      BY <2>2 DEF PollsInv, PollInv, SentState, Url
    <3>3. boughtFor'[poll[p].url.session] # None
      BY <2>1, <3>2 DEF SentPoll, Grows
    <3>4. poll[p].handoff # None => poll[p].handoff.business \in exists'
      BY <2>1, <3>2 DEF SentPoll, Grows
    <3>5. poll[p].cookie # None =>
              /\ poll[p].cookie \in exists'
              /\ \/ cookie'[poll[p].browser] = poll[p].cookie
                 \/ /\ cookie'[poll[p].browser] \in exists'
                    /\ link'[cookie'[poll[p].browser]] # None
      BY <1>3, <2>1, <3>2, HoldsKept DEF SentPoll, Grows
    <3>6. QED BY <3>1, <3>3, <3>4, <3>5 DEF PollInv, SentPoll, Holds, SignedIn
  <2>3. CASE poll[p] \in AskingState
    <3>1. /\ poll'[p].stage = "asking" /\ poll'[p].business = poll[p].business
          /\ poll'[p].proved = poll[p].proved /\ poll'[p].linked = poll[p].linked
          /\ poll'[p].verdict = poll[p].verdict
          /\ poll'[p].browser = poll[p].browser
      BY <1>3, <2>3 DEF AskingState
    <3>2. AskingPoll(poll[p]) /\ poll[p].business \in Business
      BY <2>3 DEF PollsInv, PollInv, AskingState
    <3>3. /\ poll[p].business \in exists'
          /\ poll[p].linked => link'[poll[p].business] # None
          /\ poll[p].verdict = "confirmed" => poll[p].linked
      BY <2>1, <3>2 DEF AskingPoll, Grows
    <3>4. ~poll[p].proved =>
              \/ cookie'[poll[p].browser] = poll[p].business
              \/ /\ cookie'[poll[p].browser] \in exists'
                 /\ link'[cookie'[poll[p].browser]] # None
      BY <1>3, <3>2, HoldsKept DEF AskingPoll
    <3>5. QED BY <3>1, <3>3, <3>4 DEF PollInv, AskingPoll, Holds, SignedIn
  <2>4. CASE poll[p] \in AnsweredState
    <3>1. /\ poll'[p].stage = "answered" /\ poll'[p].answer = poll[p].answer
          /\ poll'[p].browser = poll[p].browser
      BY <1>3, <2>4 DEF AnsweredState
    <3>2. AnsweredPoll(poll[p])
      BY <2>4 DEF PollsInv, PollInv, AnsweredState
    <3>3. ASSUME poll[p].answer.verdict = "confirmed" \/ poll[p].answer.mints
          PROVE  /\ poll[p].answer.business \in exists'
                 /\ link'[poll[p].answer.business] # None
      BY <2>1, <3>2, <3>3 DEF AnsweredPoll, Grows
    <3>4. poll[p].answer.verdict = "confirmed" /\ ~poll[p].answer.mints =>
              \/ cookie'[poll[p].browser] = poll[p].answer.business
              \/ /\ cookie'[poll[p].browser] \in exists'
                 /\ link'[cookie'[poll[p].browser]] # None
      BY <1>3, <2>1, <3>2, HoldsKept DEF AnsweredPoll
    <3>5. QED BY <3>1, <3>3, <3>4 DEF PollInv, AnsweredPoll, Holds, SignedIn
  <2>5. QED BY <2>1, <2>2, <2>3, <2>4
<1>4. QED BY <1>1, <1>2, <1>3

LEMMA PollsKept ==
    ASSUME TypeOK, RowsExist, PollsInv, [Next]_vars
    PROVE  PollsInv'
<1> USE DEF browserVars, rowVars
<1>0. exists \subseteq Business
  BY DEF TypeOK
<1>a. ASSUME NEW p \in Poll, \A r \in Poll : r # p => poll'[r] = poll[r], PollInv(p)'
      PROVE  PollsInv'
  <2>1. ASSUME NEW r \in Poll
        PROVE  PollInv(r)'
    BY <1>a, RequestKept
  <2>2. QED BY <2>1 DEF PollsInv
<1>b. ASSUME \A p \in Poll :
                 \/ poll'[p] = Idle \/ poll'[p] = poll[p]
                 \/ poll[p] # Idle /\ poll'[p] = [poll[p] EXCEPT !.mounted = FALSE]
                 \/ poll[p] # Idle /\ poll'[p] = [poll[p] EXCEPT !.late = TRUE]
      PROVE  PollsInv'
  <2>1. ASSUME NEW p \in Poll
        PROVE  PollInv(p)'
    BY <1>b, RequestKept
  <2>2. QED BY <2>1 DEF PollsInv
<1>1. ASSUME NEW w \in Browser, NEW p \in Poll, PollSent(w, p)
      PROVE  PollsInv'
  <2> DEFINE q == [stage |-> "sent", browser |-> w, mounted |-> TRUE, late |-> tab[w].late,
                   url |-> tab[w].url, cookie |-> cookie[w], handoff |-> handoff[w]]
  <2>1. poll'[p] = q /\ \A r \in Poll : r # p => poll'[r] = poll[r]
    BY <1>1 DEF PollSent, TypeOK
  <2>2. /\ exists' = exists /\ boughtFor' = boughtFor /\ cookie' = cookie
        /\ tab[w].at = "return"
    BY <1>1 DEF PollSent, dodoVars, OnReturn
  <2>3. /\ boughtFor[tab[w].url.session] # None
        /\ cookie[w] # None => cookie[w] \in exists
        /\ handoff[w] # None => handoff[w].business \in exists
    BY <2>2 DEF RowsExist
  <2>4. PollInv(p)'
    BY <2>1, <2>2, <2>3 DEF PollInv, SentPoll, Holds
  <2>5. QED BY <2>1, <2>4, <1>a
<1>2. ASSUME NEW p \in Poll, ConfirmReads(p)
      PROVE  PollsInv'
  <2> DEFINE q == poll[p]
  <2>1. q \in SentState
    BY <1>2, PollStates DEF ConfirmReads
  <2>2. SentPoll(q) /\ q.url.session \in Session
    BY <2>1 DEF PollsInv, PollInv, SentState, Url
  <2>3. PICK b \in Identify(q) :
            \/ b = None /\ poll' = [poll EXCEPT ![p] = Answered(q, "unknown", None, FALSE)]
            \/ b # None /\ poll' = [poll EXCEPT ![p] =
                   Answered(q, Judge(b), b, Mints(q.cookie = None, link[b] # None))]
            \/ b # None /\ Unconfirmed(b) /\ poll' = [poll EXCEPT ![p] =
                   [stage |-> "asking", browser |-> q.browser, mounted |-> q.mounted,
                    late |-> q.late, business |-> b, proved |-> q.cookie = None,
                    linked |-> link[b] # None, verdict |-> Judge(b)]]
    BY <1>2 DEF ConfirmReads
  <2>4. b # None => b \in exists /\ (q.cookie # None => b = q.cookie)
    BY <2>2, IdentifiedExist DEF RowsExist
  <2>5. UNCHANGED <<exists, link, cookie>>
    BY <1>2 DEF ConfirmReads
  <2>6. b # None /\ q.cookie # None => Holds(q.browser, b)
    BY <2>2, <2>4 DEF SentPoll
  <2>7. CASE poll' = [poll EXCEPT ![p] = Answered(q, "unknown", None, FALSE)]
    <3>1. /\ poll'[p] = Answered(q, "unknown", None, FALSE)
          /\ \A r \in Poll : r # p => poll'[r] = poll[r]
      BY <2>7 DEF TypeOK
    <3>2. PollInv(p)'
      BY <3>1 DEF PollInv, Answered, AnsweredPoll
    <3>3. QED BY <3>1, <3>2, <1>a
  <2>8. CASE b # None /\ poll' = [poll EXCEPT ![p] =
                   Answered(q, Judge(b), b, Mints(q.cookie = None, link[b] # None))]
    <3>1. /\ poll'[p] = Answered(q, Judge(b), b, Mints(q.cookie = None, link[b] # None))
          /\ \A r \in Poll : r # p => poll'[r] = poll[r]
      BY <2>8 DEF TypeOK
    <3>2. Judge(b) = "confirmed" => link[b] # None
      BY DEF Judge
    <3>3. /\ poll'[p].stage = "answered" /\ poll'[p].browser = q.browser
          /\ poll'[p].answer.verdict = Judge(b) /\ poll'[p].answer.business = b
          /\ poll'[p].answer.mints = (q.cookie = None /\ link[b] # None)
      BY <3>1 DEF Answered, Mints
    <3>4. b \in exists' /\ link' = link
      BY <2>4, <2>5, <2>8
    <3>5. q.cookie # None =>
              \/ cookie'[q.browser] = b
              \/ cookie'[q.browser] \in exists' /\ link'[cookie'[q.browser]] # None
      BY <2>5, <2>6, <2>8 DEF Holds, SignedIn
    <3>6. PollInv(p)'
      BY <3>2, <3>3, <3>4, <3>5 DEF PollInv, AnsweredPoll, Holds, SignedIn
    <3>7. QED BY <3>1, <3>6, <1>a
  <2>9. CASE b # None /\ Unconfirmed(b) /\ poll' = [poll EXCEPT ![p] =
                   [stage |-> "asking", browser |-> q.browser, mounted |-> q.mounted,
                    late |-> q.late, business |-> b, proved |-> q.cookie = None,
                    linked |-> link[b] # None, verdict |-> Judge(b)]]
    <3>1. /\ poll'[p] = [stage |-> "asking", browser |-> q.browser, mounted |-> q.mounted,
                         late |-> q.late, business |-> b, proved |-> q.cookie = None,
                         linked |-> link[b] # None, verdict |-> Judge(b)]
          /\ \A r \in Poll : r # p => poll'[r] = poll[r]
      BY <2>9 DEF TypeOK
    <3>2. /\ poll'[p].stage = "asking" /\ poll'[p].browser = q.browser
          /\ poll'[p].business = b
          /\ poll'[p].proved = (q.cookie = None)
          /\ poll'[p].linked = (link[b] # None)
          /\ poll'[p].verdict = Judge(b)
      BY <3>1
    <3>a. Judge(b) = "confirmed" => link[b] # None
      BY DEF Judge
    <3>3. b \in exists' /\ link' = link
      BY <2>4, <2>5, <2>9
    <3>4. q.cookie # None =>
              \/ cookie'[q.browser] = b
              \/ cookie'[q.browser] \in exists' /\ link'[cookie'[q.browser]] # None
      BY <2>5, <2>6, <2>9 DEF Holds, SignedIn
    <3>5. PollInv(p)'
      BY <3>2, <3>3, <3>4, <3>a DEF PollInv, AskingPoll, Holds, SignedIn
    <3>6. QED BY <3>1, <3>5, <1>a
  <2>10. QED BY <2>3, <2>7, <2>8, <2>9
<1>3. ASSUME NEW p \in Poll, ReconcileApplies(p)
      PROVE  PollsInv'
  <2> DEFINE q == poll[p]
  <2>1. q \in AskingState /\ AskingPoll(q)
    BY <1>3, PollStates DEF ReconcileApplies, PollsInv, PollInv
  <2>2. PICK s \in Session :
            /\ Apply(q.business, s)
            /\ poll' = [poll EXCEPT ![p] =
                   Answered(q, IF result[s] = "paid" THEN "confirmed" ELSE "declined",
                            q.business, Mints(q.proved, TRUE))]
    BY <1>3 DEF ReconcileApplies
  <2>3. q.business \in Business /\ q.business \in exists /\ exists' = exists
    BY <1>3, <2>1 DEF AskingState, AskingPoll, ReconcileApplies
  <2>4. link'[q.business] # None
    BY <2>2, <2>3, CheckoutReturnAssumption DEF Apply, TypeOK
  <2>5. Grows /\ cookie' = cookie
    BY <1>3, NothingUndone DEF ReconcileApplies
  <2>6. PICK verdict \in Verdict :
            poll'[p] = Answered(q, verdict, q.business, Mints(q.proved, TRUE))
    BY <2>2 DEF TypeOK, Verdict
  <2>7. ~q.proved => \/ cookie'[q.browser] = q.business
                     \/ cookie'[q.browser] \in exists' /\ link'[cookie'[q.browser]] # None
    BY <1>0, <2>1, <2>5 DEF AskingPoll, Holds, SignedIn, Grows
  <2>8. PollInv(p)'
    <3>1. /\ poll'[p].stage = "answered" /\ poll'[p].browser = q.browser
          /\ poll'[p].answer.business = q.business
          /\ poll'[p].answer.mints <=> q.proved
      BY <2>1, <2>6 DEF Answered, Mints, AskingState
    <3>2. QED BY <2>3, <2>4, <2>7, <3>1 DEF PollInv, AnsweredPoll, Holds, SignedIn
  <2>9. \A r \in Poll : r # p => poll'[r] = poll[r]
    BY <2>2 DEF TypeOK
  <2>10. QED BY <2>8, <2>9, <1>a
<1>4. ASSUME NEW p \in Poll, ReconcileFails(p)
      PROVE  PollsInv'
  <2> DEFINE q == poll[p]
  <2>1. q \in AskingState /\ AskingPoll(q)
    BY <1>4, PollStates DEF ReconcileFails, PollsInv, PollInv
  <2>2. /\ poll'[p] = Answered(q, q.verdict, q.business, Mints(q.proved, q.linked))
        /\ \A r \in Poll : r # p => poll'[r] = poll[r]
    BY <1>4 DEF ReconcileFails, TypeOK
  <2>3. UNCHANGED <<exists, link, cookie>>
    BY <1>4 DEF ReconcileFails
  <2>4. PollInv(p)'
    <3>1. /\ poll'[p].stage = "answered" /\ poll'[p].browser = q.browser
          /\ poll'[p].answer.verdict = q.verdict
          /\ poll'[p].answer.business = q.business
          /\ poll'[p].answer.mints <=> q.proved /\ q.linked
      BY <2>1, <2>2 DEF Answered, Mints, AskingState
    <3>2. QED BY <2>1, <2>3, <3>1 DEF PollInv, AnsweredPoll, AskingPoll, Holds, SignedIn
  <2>5. QED BY <2>2, <2>4, <1>a
<1>5. ASSUME NEW p \in Poll, AnswerArrives(p) \/ PollLost(p)
      PROVE  PollsInv'
  BY <1>5, <1>b DEF AnswerArrives, PollLost, TypeOK
<1>6. ASSUME NEW w \in Browser, NEW s \in Session, SignupOpens(w, s)
      PROVE  PollsInv'
  <2>1. Unload(w) \/ poll' = poll
    BY <1>6 DEF SignupOpens
  <2>2. QED BY <2>1, <1>b DEF Unload
<1>7. ASSUME NEW s \in Session, NEW w \in Browser \cup {None},
             NEW outcome \in {"paid", "failed"}, NEW carries \in Proofs,
             CheckoutEnds(s, w, outcome, carries)
      PROVE  PollsInv'
  <2>1. Unload(w) \/ poll' = poll
    BY <1>7 DEF CheckoutEnds
  <2>2. QED BY <2>1, <1>b DEF Unload
<1>8. ASSUME NEW w \in Browser, HandsOver(w) \/ BackToSignup(w)
      PROVE  PollsInv'
  <2>1. Unmount(w)
    BY <1>8 DEF HandsOver, BackToSignup
  <2>2. QED BY <2>1, <1>b DEF Unmount
<1>9. ASSUME NEW w \in Browser, DeadlinePasses(w)
      PROVE  PollsInv'
  <2>1. poll' = [p \in Poll |-> IF poll[p] # Idle /\ poll[p].browser = w /\ poll[p].mounted
                                THEN [poll[p] EXCEPT !.late = TRUE] ELSE poll[p]]
    BY <1>9 DEF DeadlinePasses
  <2>2. QED BY <2>1, <1>b
<1>10. CASE \/ \E w \in Browser, b \in Business : SignupStart(w, b)
            \/ \E w \in Browser :
                   \/ Continue(w) \/ StepBack(w) \/ SignupFails(w) \/ Abandon(w)
                   \/ Retry(w) \/ HandoffExpires(w) \/ TokenExpires(w)
            \/ \E b \in Business, s \in Session : SignupElsewhere(b, s)
            \/ \E s \in Session : Webhook(s)
            \/ UNCHANGED vars
  <2>1. poll' = poll
    BY <1>10 DEF SignupStart, Continue, StepBack, SignupFails, Abandon, Retry,
                 HandoffExpires, TokenExpires, SignupElsewhere, Webhook, vars
  <2>2. QED BY <2>1, <1>b
<1>11. QED BY <1>1, <1>2, <1>3, <1>4, <1>5, <1>6, <1>7, <1>8, <1>9, <1>10 DEF Next

-----------------------------------------------------------------------------
(* The confirmed page.                                                     *)
LEMMA OnlyConfirmedConfirms ==
    \A verdict, declined, late :
        PhaseAfter(verdict, declined, late) = "confirmed" => verdict = "confirmed"
  BY DEF PhaseAfter

Linked(b) == b \in exists /\ link[b] # None

LEMMA LinkedKept ==
    ASSUME TypeOK, Grows, NEW b, Linked(b)
    PROVE  b \in exists' /\ link'[b] # None
  BY DEF TypeOK, Linked, Grows

LEMMA ConfirmedKept ==
    ASSUME IInv, [Next]_vars
    PROVE  ConfirmedIsSignedIn'
<1> USE DEF IInv, OnReturn
<1>0. Grows
  BY NothingUndone
<1>a. ASSUME NEW w \in Browser, tab[w].at = "return", tab[w].phase = "confirmed",
             tab'[w].about = tab[w].about
      PROVE  \/ \A b \in {cookie'[w], tab'[w].about} : b \in exists' /\ link'[b] # None
             \/ tab'[w].at # "return"
  <2>1. Linked(tab[w].about) /\ Linked(cookie[w])
    BY <1>a DEF ConfirmedIsSignedIn, Linked
  <2>2. cookie'[w] = cookie[w] \/ Linked(cookie'[w]) \/ tab'[w].at = "dodo"
    BY CookiesChange DEF Linked
  <2>3. QED BY <1>0, <1>a, <2>1, <2>2, LinkedKept
<1>b. ASSUME \A w \in Browser :
                 tab'[w].at = "return" /\ tab'[w].phase = "confirmed" =>
                     /\ tab[w].at = "return" /\ tab[w].phase = "confirmed"
                     /\ tab'[w].about = tab[w].about
      PROVE  ConfirmedIsSignedIn'
  BY <1>a, <1>b DEF ConfirmedIsSignedIn
<1>1. ASSUME NEW p \in Poll, AnswerArrives(p)
      PROVE  ConfirmedIsSignedIn'
  <2> DEFINE q == poll[p]
             v == q.browser
  <2>1. q # Idle /\ v \in Browser /\ (q.mounted => OnReturn(v)) /\ q \in AnsweredState
    BY <1>1, PollStates DEF AnswerArrives, Idle, MountedPolls
  <2>2. /\ Shows(v, q.mounted, q.answer.verdict, q.answer.business, q.late)
        /\ q.answer.mints => cookie' = [cookie EXCEPT ![v] = q.answer.business]
        /\ ~q.answer.mints => cookie' = cookie
        /\ AnsweredPoll(q)
    BY <1>1 DEF AnswerArrives, PollsInv, PollInv
  <2>3. ASSUME NEW w \in Browser, tab'[w].at = "return", tab'[w].phase = "confirmed"
        PROVE  \A b \in {cookie'[w], tab'[w].about} : b \in exists' /\ link'[b] # None
    <3>1. CASE w = v /\ q.mounted
      <4>0. Shows(w, q.mounted, q.answer.verdict, q.answer.business, q.late)
        BY <2>2, <3>1
      <4>1. /\ tab'[w].phase = PhaseAfter(q.answer.verdict, tab[w].url.declined, q.late)
            /\ tab'[w].about = IF q.answer.business = None THEN tab[w].about
                               ELSE q.answer.business
        <5>1. tab[w] \in ReturnTab
          BY <2>1, <3>1, TabOnReturn
        <5>2. tab' = [tab EXCEPT
                  ![w].phase = PhaseAfter(q.answer.verdict, tab[w].url.declined, q.late),
                  ![w].about = IF q.answer.business = None THEN @ ELSE q.answer.business]
          BY <3>1, <4>0 DEF Shows
        <5>3. QED BY <5>1, <5>2 DEF ReturnTab, TypeOK
      <4>2. q.answer.verdict = "confirmed"
        BY <2>3, <4>1, OnlyConfirmedConfirms
      <4>3. Linked(q.answer.business) /\ q.answer.business # None
        BY <2>2, <4>2, CheckoutReturnAssumption DEF AnsweredPoll, Linked, TypeOK
      <4>4. tab'[w].about = q.answer.business
        BY <4>1, <4>3
      <4>5. Linked(cookie'[w])
        BY <2>1, <2>2, <3>1, <4>2, <4>3 DEF AnsweredPoll, Holds, SignedIn, Linked, TypeOK
      <4>6. QED BY <1>0, <4>3, <4>4, <4>5, LinkedKept
    <3>2. CASE ~(w = v /\ q.mounted)
      <4>1. tab'[w] = tab[w]
        BY <2>1, <2>2, <3>2, ShowsAlters
      <4>2. /\ tab[w].at = "return" /\ tab[w].phase = "confirmed"
            /\ tab'[w].about = tab[w].about
        BY <2>3, <4>1
      <4>3. \/ \A b \in {cookie'[w], tab'[w].about} : b \in exists' /\ link'[b] # None
            \/ tab'[w].at # "return"
        BY <4>2, <1>a
      <4>4. QED BY <2>3, <4>3
    <3>3. QED BY <3>1, <3>2
  <2>4. QED BY <2>3 DEF ConfirmedIsSignedIn
<1>2. ASSUME NEW p \in Poll, PollLost(p)
      PROVE  ConfirmedIsSignedIn'
  <2> DEFINE q == poll[p]
             v == q.browser
  <2>1. q # Idle /\ v \in Browser /\ (q.mounted => OnReturn(v))
    BY <1>2, PollStates DEF PollLost, Idle, MountedPolls
  <2>2. Shows(v, q.mounted, "lost", None, q.late)
    BY <1>2 DEF PollLost
  <2>3. PhaseAfter("lost", tab[v].url.declined, q.late) # "confirmed"
    BY OnlyConfirmedConfirms
  <2>4. \A w \in Browser : tab'[w] = tab[w] \/ tab'[w].phase # "confirmed"
    BY <2>1, <2>2, <2>3, ShowsAlters
  <2>5. QED BY <2>4, <1>b
<1>3. ASSUME NEW w \in Browser, DeadlinePasses(w) \/ Retry(w) \/ TokenExpires(w)
      PROVE  ConfirmedIsSignedIn'
  <2>1. tab[w] \in ReturnTab
    BY <1>3, TabOnReturn DEF DeadlinePasses, Retry, TokenExpires
  <2>2. /\ tab'[w].about = tab[w].about
        /\ tab[w].at = "return"
        /\ tab'[w].phase = tab[w].phase \/ tab'[w].phase = "verifying"
        /\ \A v \in Browser : v # w => tab'[v] = tab[v]
    BY <1>3, <2>1 DEF DeadlinePasses, Retry, TokenExpires, ReturnTab, TypeOK
  <2>3. QED BY <2>2, <1>b
<1>4. CASE \E s \in Session, w \in Browser \cup {None}, outcome \in {"paid", "failed"},
               carries \in Proofs : CheckoutEnds(s, w, outcome, carries)
  <2>1. \A v \in Browser : tab'[v] = tab[v] \/ tab'[v].phase = "verifying"
    BY <1>4 DEF CheckoutEnds, TypeOK
  <2>2. QED BY <2>1, <1>b
<1>5. CASE \/ \E w \in Browser, b \in Business : SignupStart(w, b)
           \/ \E w \in Browser, s \in Session : SignupOpens(w, s)
           \/ \E w \in Browser :
                  \/ Continue(w) \/ StepBack(w) \/ SignupFails(w) \/ Abandon(w)
                  \/ HandsOver(w) \/ BackToSignup(w)
  <2>1. \A v \in Browser : tab'[v] = tab[v] \/ tab'[v].at # "return"
    BY <1>5, OnboardingPageShows
       DEF SignupStart, SignupOpens, Continue, StepBack, SignupFails, Abandon,
           HandsOver, BackToSignup, Wizard, TypeOK
  <2>2. QED BY <2>1, <1>b
<1>6. CASE \/ \E w \in Browser : HandoffExpires(w)
           \/ \E b \in Business, s \in Session : SignupElsewhere(b, s)
           \/ \E s \in Session : Webhook(s)
           \/ \E w \in Browser, p \in Poll : PollSent(w, p)
           \/ \E p \in Poll : ConfirmReads(p) \/ ReconcileApplies(p) \/ ReconcileFails(p)
           \/ UNCHANGED vars
  <2>1. tab' = tab
    BY <1>6 DEF HandoffExpires, SignupElsewhere, Webhook, PollSent, ConfirmReads,
                ReconcileApplies, ReconcileFails, vars, browserVars
  <2>2. QED BY <2>1, <1>b
<1> HIDE DEF IInv
<1>7. QED BY <1>1, <1>2, <1>3, <1>4, <1>5, <1>6 DEF Next

-----------------------------------------------------------------------------
LEMMA Invariance == Spec => []IInv
<1>1. Init => IInv
  <2>1. ASSUME Init
        PROVE  RowsExist /\ MountedPolls /\ PollsInv /\ ConfirmedIsSignedIn
    BY <2>1, CheckoutReturnAssumption
       DEF Init, RowsExist, MountedPolls, PollsInv, PollInv, ConfirmedIsSignedIn, OnReturn,
           Wizard, Idle
  <2>2. QED BY <2>1, InitTypes DEF IInv
<1>2. IInv /\ [Next]_vars => IInv'
  BY StepTypes, RowsKept, MountedKept, PollsKept, ConfirmedKept DEF IInv
<1>3. QED BY <1>1, <1>2, PTL DEF Spec

(* The values of the state.                                                *)
THEOREM TypesHold == Spec => []TypeOK
  BY Invariance, PTL DEF IInv

(* The page that says "payment confirmed" is shown to a browser that is    *)
(* signed in for a row with a subscription, however many checkouts and     *)
(* polls were under way in it (CheckoutReturn.tsx:213).                    *)
THEOREM ConfirmedSignedIn == Spec => []ConfirmedIsSignedIn
  BY Invariance, PTL DEF IInv

(* A browser comes to a session by the row it created itself, or by one    *)
(* that has a subscription, for any proofs and any order of the answers.   *)
THEOREM SessionsProved == Spec => SessionProved
<1>1. ASSUME IInv, [Next]_vars, NEW w \in Browser, cookie'[w] # cookie[w]
      PROVE  \/ /\ tab[w].at = "submitting"
                /\ tab[w].creates
                /\ cookie'[w] = tab[w].business
             \/ link[cookie'[w]] # None
  BY <1>1, CookiesChange DEF IInv
<1>2. IInv /\ [Next]_vars =>
          [\A w \in Browser :
              cookie'[w] # cookie[w] =>
                  \/ /\ tab[w].at = "submitting"
                     /\ tab[w].creates
                     /\ cookie'[w] = tab[w].business
                  \/ link[cookie'[w]] # None]_vars
  BY <1>1
<1>3. QED BY <1>2, Invariance, PTL DEF Spec, SessionProved
=============================================================================
