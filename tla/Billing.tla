------------------------------- MODULE Billing -------------------------------
(***************************************************************************)
(* Checkout, webhook and reconciliation: src/lib/billing.ts, the billing   *)
(* half of src/lib/db.ts, and the routes that call them (billing/signup,   *)
(* billing/checkout, billing/confirm, webhooks/dodo).                      *)
(*                                                                         *)
(* Three requests wait on Dodo in the middle: a signup and a dashboard     *)
(* checkout for a customer and then a session, a confirm for the list of   *)
(* subscriptions.  What they read before a wait may be stale after it, so  *)
(* each is a sequence of actions, one per answer; everything else is one   *)
(* action.  Dodo itself is external: what it creates, what each            *)
(* subscription goes through, and the events it tells us about in any      *)
(* order, any number of times, or never.                                   *)
(***************************************************************************)
EXTENDS Naturals, Sequences, SequencesExt

CONSTANTS
    Business,
    Customer,       \* Dodo customer ids
    Session,        \* Dodo checkout sessions; each is paid at most once, and
                    \* the subscription bought in it has its name
    Request,        \* requests in flight at the same time
    Report,         \* what Dodo may say of a subscription (see StatusOf)
    MaxReports,     \* bound on what Dodo says of one subscription
    None

Idle == [pc |-> "idle"]

Local == {"not_started", "pending_checkout"}

DodoStatus == {"pending", "active", "on_hold", "paused", "cancelled", "failed",
               "expired", "past_due"}

(* Mutant of StatusOf: the status of the payload is taken as it comes.      *)
StatusAsSent(report) == report

(* normalizeDodoEvent: the status an event carries.  "payment" is any      *)
(* payment.* event, which has none; "renewed" is a subscription.* event    *)
(* other than subscription.active whose record is active.                  *)
StatusOf(report) == IF report = "payment" THEN None
                    ELSE IF report = "renewed" THEN "active"
                    ELSE report

Checkout == [business : Business, customer : Customer]

ASSUME BillingAssumption ==
    /\ Report \subseteq DodoStatus \cup {"payment", "renewed"}
    /\ MaxReports \in Nat
    /\ None \notin Business \cup Customer \cup Session \cup Local \cup DodoStatus
    /\ None \notin Checkout
    /\ "created" \notin Session

VARIABLES
    status,         \* column subscriptionStatus, None while there is no row
    customer,       \* column dodoCustomerId
    subscription,   \* column dodoSubscriptionId
    trial,          \* column trialStartedAt: what stamped it
    numbered,       \* businesses that have been given a number
    seen,           \* dodo_webhook_events
    req,            \* the requests that wait on Dodo
    madeFor,        \* Dodo: the business a customer was created for
    opened,         \* Dodo: the checkout sessions, by id
    paid,           \* Dodo: the sessions paid, oldest first
    echoed,         \* Dodo: those whose metadata its records carry
    reports         \* Dodo: what it says of each subscription, oldest first

rowVars  == <<status, customer, subscription, trial, numbered, seen>>
dodoVars == <<madeFor, opened, paid, echoed, reports>>
vars     == <<rowVars, req, dodoVars>>

RequestState ==
    {Idle}
    \cup [pc : {"customer"}, kind : {"signup", "checkout"}, business : Business]
    \cup [pc : {"session"}, kind : {"signup", "checkout"},
          business : Business, customer : Customer]
    \cup [pc : {"list"}, business : Business, customer : Customer]
    \cup [pc : {"apply"}, business : Business, latest : Session, status : DodoStatus]

TypeOK ==
    /\ status \in [Business -> Local \cup DodoStatus \cup {None}]
    /\ customer \in [Business -> Customer \cup {None}]
    /\ subscription \in [Business -> Session \cup {None}]
    /\ trial \in [Business -> Session \cup {"created", None}]
    /\ numbered \subseteq Business
    /\ seen \subseteq Session \X (1..MaxReports)
    /\ req \in [Request -> RequestState]
    /\ madeFor \in [Customer -> Business \cup {None}]
    /\ opened \in [Session -> Checkout \cup {None}]
    /\ paid \in Seq(Session)
    /\ echoed \subseteq Session
    /\ reports \in [Session -> Seq(Report)]

Init ==
    /\ status = [b \in Business |-> None]
    /\ customer = [b \in Business |-> None]
    /\ subscription = [b \in Business |-> None]
    /\ trial = [b \in Business |-> None]
    /\ numbered = {}
    /\ seen = {}
    /\ req = [r \in Request |-> Idle]
    /\ madeFor = [c \in Customer |-> None]
    /\ opened = [s \in Session |-> None]
    /\ paid = <<>>
    /\ echoed = {}
    /\ reports = [s \in Session |-> <<>>]

Rows == {b \in Business : status[b] # None}

-----------------------------------------------------------------------------
(* Signup and dashboard checkout.                                          *)

(* The next wait of openHostedCheckout for a row whose customer is c.      *)
Await(r, kind, b, c) ==
    req' = [req EXCEPT ![r] =
        IF c = None THEN [pc |-> "customer", kind |-> kind, business |-> b]
        ELSE [pc |-> "session", kind |-> kind, business |-> b, customer |-> c]]

(* createBillingSignup up to its first wait: the row is created, or reset  *)
(* to pending_checkout, unless a subscription is already linked.           *)
SignupStart(r, b) ==
    /\ req[r] = Idle
    /\ subscription[b] = None
    /\ status' = [status EXCEPT ![b] = "pending_checkout"]
    /\ Await(r, "signup", b, customer[b])
    /\ UNCHANGED <<customer, subscription, trial, numbered, seen, dodoVars>>

CheckoutStart(r, b) ==
    /\ req[r] = Idle
    /\ b \in Rows
    /\ subscription[b] = None
    /\ Await(r, "checkout", b, customer[b])
    /\ UNCHANGED <<rowVars, dodoVars>>

CustomerCreated(r) ==
    /\ req[r].pc = "customer"
    /\ \E c \in Customer :
           /\ madeFor[c] = None
           /\ madeFor' = [madeFor EXCEPT ![c] = req[r].business]
           /\ Await(r, req[r].kind, req[r].business, c)
    /\ UNCHANGED <<rowVars, opened, paid, echoed, reports>>

(* Mutant of StoreCheckout: a new customer is not stored.                   *)
StoreStatusOnly(kind, b, c) ==
    /\ status' = IF kind = "signup" THEN [status EXCEPT ![b] = "pending_checkout"]
                 ELSE status
    /\ UNCHANGED <<customer, subscription, trial, numbered, seen>>

(* The session exists and the row is written, whatever has become of the   *)
(* row meanwhile: a signup puts pending_checkout back.                     *)
StoreCheckout(kind, b, c) ==
    /\ customer' = [customer EXCEPT ![b] = c]
    /\ status' = IF kind = "signup" THEN [status EXCEPT ![b] = "pending_checkout"]
                 ELSE status
    /\ UNCHANGED <<subscription, trial, numbered, seen>>

SessionOpened(r) ==
    /\ req[r].pc = "session"
    /\ \E s \in Session :
           /\ opened[s] = None
           /\ opened' = [opened EXCEPT ![s] = [business |-> req[r].business,
                                               customer |-> req[r].customer]]
    /\ StoreCheckout(req[r].kind, req[r].business, req[r].customer)
    /\ req' = [req EXCEPT ![r] = Idle]
    /\ UNCHANGED <<madeFor, paid, echoed, reports>>

(* Dodo refuses, the network fails, or the process restarts.               *)
RequestFails(r) ==
    /\ req[r] # Idle
    /\ req' = [req EXCEPT ![r] = Idle]
    /\ UNCHANGED <<rowVars, dodoVars>>

-----------------------------------------------------------------------------
(* applyDodoWebhookEvent: one transaction on one row.                      *)

(* The row an event about subscription s belongs to: the hint, then the    *)
(* customer, then the subscription; none of them is checked against        *)
(* another.                                                                *)
Match(hint, s) ==
    LET byHint         == {b \in Rows : b = hint}
        byCustomer     == {b \in Rows : customer[b] = opened[s].customer}
        bySubscription == {b \in Rows : subscription[b] = s}
    IN  IF byHint # {} THEN byHint
        ELSE IF byCustomer # {} THEN byCustomer
        ELSE bySubscription

(* Mutant of Link: the newest subscription replaces the link.               *)
Relink(b, s) ==
    subscription' =
        IF \A c \in Business : subscription[c] # s
        THEN [subscription EXCEPT ![b] = s] ELSE subscription

(* COALESCE on the link and on the trial, and the partial unique index.    *)
Link(b, s) ==
    subscription' =
        IF subscription[b] = None /\ \A c \in Business : subscription[c] # s
        THEN [subscription EXCEPT ![b] = s] ELSE subscription

StampTrial(b, s, stamps) ==
    trial' = IF stamps /\ trial[b] = None THEN [trial EXCEPT ![b] = s] ELSE trial

ApplyEvent(b, s, st, stamps) ==
    /\ status' = IF st = None THEN status ELSE [status EXCEPT ![b] = st]
    /\ Link(b, s)
    /\ StampTrial(b, s, stamps)
    /\ UNCHANGED customer

(* assignNumber, when it is due: it gives a number unless the pool is      *)
(* empty or its file unreadable, or the process dies before it writes.     *)
MayBeNumbered(b, due) ==
    \/ UNCHANGED numbered
    \/ due /\ numbered' = numbered \cup {b}

(* The webhook.  An event that matches no row is acknowledged all the      *)
(* same.  The number is drawn after the commit: what goes wrong there is   *)
(* not made good by a redelivery, which is a duplicate.                    *)
Deliver(s, k) ==
    LET report  == reports[s][k]
        matches == Match(IF s \in echoed THEN opened[s].business ELSE None, s)
    IN  /\ k \in DOMAIN reports[s]
        /\ <<s, k>> \notin seen
        /\ seen' = seen \cup {<<s, k>>}
        /\ \/ /\ matches = {}
              /\ UNCHANGED <<status, customer, subscription, trial, numbered>>
           \/ \E b \in matches :
                  /\ ApplyEvent(b, s, StatusOf(report), report = "active")
                  /\ MayBeNumbered(b, report # "payment" /\ status'[b] = "active")
        /\ UNCHANGED <<req, dodoVars>>

-----------------------------------------------------------------------------
(* The checkout return page polls POST /api/billing/confirm.               *)

(* Mutant of Unconfirmed: a subscription still processing is not asked for. *)
UnconfirmedLocal == {"not_started", "pending_checkout"}

Unconfirmed == {"not_started", "pending_checkout", "pending"}

Unserved(b) == b \notin numbered /\ subscription[b] # None /\ status[b] = "active"

ConfirmStart(r, b) ==
    /\ req[r] = Idle
    /\ customer[b] # None
    /\ status[b] \in Unconfirmed
    /\ req' = [req EXCEPT ![r] = [pc |-> "list", business |-> b, customer |-> customer[b]]]
    /\ UNCHANGED <<rowVars, dodoVars>>

GivenNumber(b) ==
    /\ numbered' = numbered \cup {b}
    /\ UNCHANGED <<status, customer, subscription, trial, seen, req, dodoVars>>

(* A row that needs no reconciliation is given its number at once; with    *)
(* nothing in the pool the answer is the same and nothing changes.         *)
ConfirmServes(b) == Unserved(b) /\ GivenNumber(b)

(* The setup pages and the admin's Assign draw for any row without one.    *)
OthersServe(b) == b \in Rows \ numbered /\ GivenNumber(b)

(* Dodo has st on record for subscription s: the last status it reported.  *)
OnRecord(s, st) ==
    \/ /\ st = "pending"
       /\ \A k \in DOMAIN reports[s] : StatusOf(reports[s][k]) = None
    \/ \E k \in DOMAIN reports[s] :
           /\ st = StatusOf(reports[s][k])
           /\ \A l \in DOMAIN reports[s] : l > k => StatusOf(reports[s][l]) = None

(* Mutant of Newest: whose subscription it is does not matter.              *)
NewestOfAll(s, c) == paid # <<>> /\ s = Last(paid)

(* s is the subscription of customer c with the latest created_at.         *)
Newest(s, c) ==
    \E i \in DOMAIN paid :
        /\ s = paid[i]
        /\ opened[s].customer = c
        /\ \A j \in DOMAIN paid : j > i => opened[paid[j]].customer # c

ListAnswered(r) ==
    /\ req[r].pc = "list"
    /\ \/ /\ \A s \in Session : ~Newest(s, req[r].customer)
          /\ req' = [req EXCEPT ![r] = Idle]
       \/ \E s \in Session, st \in DodoStatus :
              /\ Newest(s, req[r].customer)
              /\ OnRecord(s, st)
              /\ req' = [req EXCEPT ![r] = [pc |-> "apply", business |-> req[r].business,
                                            latest |-> s, status |-> st]]
    /\ UNCHANGED <<rowVars, dodoVars>>

(* The answer is applied under an event id of its own, as of the time it   *)
(* was given; then the row, read again, may get its number.                *)
ConfirmApplies(r) ==
    LET b == req[r].business
    IN  /\ req[r].pc = "apply"
        /\ ApplyEvent(b, req[r].latest, req[r].status, req[r].status = "active")
        /\ MayBeNumbered(b, subscription'[b] # None /\ status'[b] = "active")
        /\ req' = [req EXCEPT ![r] = Idle]
        /\ UNCHANGED <<seen, dodoVars>>

-----------------------------------------------------------------------------
(* createAdminCustomer: a row with its number and a trial of its own.      *)
AdminCreates(b) ==
    /\ b \notin Rows
    /\ status' = [status EXCEPT ![b] = "not_started"]
    /\ trial' = [trial EXCEPT ![b] = "created"]
    /\ numbered' = numbered \cup {b}
    /\ UNCHANGED <<customer, subscription, seen, req, dodoVars>>

(* Dodo.  A session is paid once; its subscription then has a history.     *)
Pays(s, echoes) ==
    /\ opened[s] # None
    /\ s \notin ToSet(paid)
    /\ paid' = Append(paid, s)
    /\ echoed' = IF echoes THEN echoed \cup {s} ELSE echoed
    /\ UNCHANGED <<rowVars, req, madeFor, opened, reports>>

Reports(s, report) ==
    /\ s \in ToSet(paid)
    /\ Len(reports[s]) < MaxReports
    /\ reports' = [reports EXCEPT ![s] = Append(@, report)]
    /\ UNCHANGED <<rowVars, req, madeFor, opened, paid, echoed>>

Next ==
    \/ \E r \in Request, b \in Business :
           SignupStart(r, b) \/ CheckoutStart(r, b) \/ ConfirmStart(r, b)
    \/ \E r \in Request :
           \/ CustomerCreated(r) \/ SessionOpened(r) \/ RequestFails(r)
           \/ ListAnswered(r) \/ ConfirmApplies(r)
    \/ \E s \in Session, k \in 1..MaxReports : Deliver(s, k)
    \/ \E b \in Business : ConfirmServes(b) \/ OthersServe(b) \/ AdminCreates(b)
    \/ \E s \in Session, echoes \in BOOLEAN : Pays(s, echoes)
    \/ \E s \in Session, report \in Report : Reports(s, report)

Spec == Init /\ [][Next]_vars

(* The page of an owner who has paid and is not confirmed is open, or      *)
(* opened again, and asks until it is answered ("Check again"); every      *)
(* request ends, and a list asked for often enough is answered.  Nothing   *)
(* is assumed of webhooks, nor of the payer.                               *)
Polled ==
    /\ \A b \in Business : SF_vars(\E r \in Request : ConfirmStart(r, b))
    /\ \A r \in Request :
           /\ WF_vars(CustomerCreated(r) \/ SessionOpened(r) \/ RequestFails(r))
           /\ SF_vars(ListAnswered(r))
           /\ SF_vars(ConfirmApplies(r))

(* An owner without a number asks again, on the return page or, once it    *)
(* has moved on, in the setup it leads to, and the pool does not stay      *)
(* without one for good: the operator is mailed when it is empty           *)
(* (alertPoolEmpty) and pastes numbers.                                    *)
Restocked == \A b \in Business : SF_vars(ConfirmServes(b) \/ OthersServe(b))

LiveSpec == Spec /\ Polled /\ Restocked

-----------------------------------------------------------------------------
Said(s) == {"pending"} \cup {StatusOf(report) : report \in ToSet(reports[s])}

OwnSubscriptions(b) == {s \in ToSet(paid) : opened[s].business = b}

(* A business is billed for what it bought itself: its link, its trial and *)
(* any status that Dodo owns come from a subscription paid in a checkout   *)
(* opened for it, through stale answers, abandoned checkouts and events    *)
(* without metadata (Match, reconcileDodoCheckout's filter).               *)
BilledForOwnCheckout ==
    \A b \in Business :
        /\ subscription[b] # None => subscription[b] \in OwnSubscriptions(b)
        /\ trial[b] \in Session => /\ trial[b] \in OwnSubscriptions(b)
                                  /\ "active" \in Said(trial[b])
        /\ status[b] \in DodoStatus =>
               \E s \in OwnSubscriptions(b) : status[b] \in Said(s)

(* The link and the start of the trial never change once they are set: a   *)
(* retry, a second subscription or a request that read the row before      *)
(* cannot restart a trial (the COALESCEs of applyDodoWebhookEvent, and     *)
(* updateBusiness which reads the row again before it rewrites it).        *)
SetForGood ==
    [][\A b \in Business :
          /\ subscription[b] # None => subscription'[b] = subscription[b]
          /\ trial[b] # None => trial'[b] = trial[b]]_vars

(* "dodoCustomerId is written before the browser is ever sent to Dodo, so  *)
(* it identifies the account that started a checkout" (db.ts:819-820):     *)
(* whoever pays, the row holds the payer's customer or, when two openings  *)
(* have made one each (openHostedCheckout has no lock), that of another    *)
(* checkout of the same business; never none, and never a stranger's.      *)
PayerKnown ==
    \A s \in ToSet(paid) :
        \E t \in Session : /\ opened[t] # None
                           /\ opened[t].business = opened[s].business
                           /\ opened[t].customer = customer[opened[s].business]

Paying(b) == \E s \in Session : Newest(s, customer[b]) /\ OnRecord(s, "active")

(* Dodo has said nothing of the business's subscriptions but that they     *)
(* are processed, paid or active.                                          *)
Untroubled(b) ==
    \A s \in OwnSubscriptions(b) : Said(s) \subseteq {"pending", "active", None}

Served(b) == subscription[b] # None /\ status[b] = "active" /\ b \in numbered

(* "a webhook that loses the race against the redirect (or is lost         *)
(* entirely) cannot leave a paying customer guessing" (CheckoutReturn.tsx: *)
(* 18-20): once Dodo has the newest subscription of a row active for good, *)
(* the row says so and, with a pool that is restocked, has been given a    *)
(* number.  Not so after any other status, which ends the asking: a row    *)
(* that has heard of an on_hold stays there if the event of the recovery   *)
(* is the one lost.                                                        *)
PaidIsServed ==
    \A b \in Business : <>[](Paying(b) /\ Untroubled(b)) => <>[]Served(b)

(* "the only writer of subscriptionStatus" (webhooks/dodo/route.ts:10-12): *)
(* the status of a linked row moves only to one Dodo has reported.         *)
OnlyDodoMovesStatus ==
    [][\A b \in Business :
          subscription[b] # None /\ status'[b] # status[b]
          => \E s \in OwnSubscriptions(b) : status'[b] \in Said(s)]_vars

(* "Never open a second subscription for the same business"                *)
(* (billing.ts:341-342).  It does not hold: see the README.                *)
OneSubscription ==
    \A s, t \in ToSet(paid) : opened[s].business = opened[t].business => s = t
=============================================================================
