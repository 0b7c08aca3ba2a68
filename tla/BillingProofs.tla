---------------------------- MODULE BillingProofs ----------------------------
(* Billing for any number of businesses, requests, sessions and events.    *)
EXTENDS Billing, TLAPS

(* BilledForOwnCheckout rests on Dodo's customers and sessions each being  *)
(* made for one business, and on what a waiting request remembers of them. *)
CustomersOwned ==
    /\ \A b \in Business : customer[b] # None => madeFor[customer[b]] = b
    /\ \A s \in Session : opened[s] # None => madeFor[opened[s].customer] = opened[s].business

PaidOpened ==
    /\ \A s \in ToSet(paid) : opened[s] # None
    /\ \A s \in Session : reports[s] # <<>> => s \in ToSet(paid)

OwnedRequest(r) ==
    /\ req[r].pc \in {"session", "list"} => madeFor[req[r].customer] = req[r].business
    /\ req[r].pc = "apply" => /\ req[r].latest \in OwnSubscriptions(req[r].business)
                              /\ req[r].status \in Said(req[r].latest)

RequestsOwned == \A r \in Request : OwnedRequest(r)

IInv == TypeOK /\ CustomersOwned /\ PaidOpened /\ RequestsOwned /\ BilledForOwnCheckout

-----------------------------------------------------------------------------
(* What is read of sequences: the elements, and what Append adds to them.  *)
LEMMA AppendElements ==
    ASSUME NEW S, NEW q \in Seq(S), NEW x \in S
    PROVE  ToSet(Append(q, x)) = ToSet(q) \cup {x}
<1>1. \A y \in ToSet(Append(q, x)) : y \in ToSet(q) \cup {x}
  BY DEF ToSet
<1>2. \A y \in ToSet(q) : y \in ToSet(Append(q, x))
  BY DEF ToSet
<1>3. x \in ToSet(Append(q, x))
  <2>1. Append(q, x)[Len(q) + 1] = x /\ Len(q) + 1 \in DOMAIN Append(q, x)
    OBVIOUS
  <2>2. QED BY <2>1 DEF ToSet
<1>4. QED BY <1>1, <1>2, <1>3

LEMMA ElementsInSet ==
    ASSUME NEW S, NEW q \in Seq(S)
    PROVE  ToSet(q) \subseteq S
BY DEF ToSet

LEMMA NonEmptyFromIndex ==
    ASSUME NEW S, NEW q \in Seq(S), NEW k \in DOMAIN q
    PROVE  q # <<>> /\ q[k] \in ToSet(q) /\ q[k] \in S
BY DEF ToSet

(* The fields of a waiting request.                                        *)
LEMMA RequestFields ==
    ASSUME TypeOK, NEW r \in Request
    PROVE  /\ req[r].pc \in {"idle", "customer", "session", "list", "apply"}
           /\ req[r].pc # "idle" => req[r].business \in Business
           /\ req[r].pc \in {"customer", "session"} => req[r].kind \in {"signup", "checkout"}
           /\ req[r].pc \in {"session", "list"} => req[r].customer \in Customer
           /\ req[r].pc = "apply" => req[r].latest \in Session /\ req[r].status \in DodoStatus
BY DEF TypeOK, RequestState, Idle

(* Every status an event carries is one of Dodo's.                         *)
LEMMA StatusType ==
    ASSUME NEW x \in Report
    PROVE  StatusOf(x) \in DodoStatus \cup {None}
BY BillingAssumption DEF StatusOf, DodoStatus

-----------------------------------------------------------------------------
LEMMA InitIInv == Init => IInv
<1>1. ASSUME Init PROVE TypeOK
  BY <1>1 DEF Init, TypeOK, RequestState, Idle
<1>2. ASSUME Init PROVE CustomersOwned /\ RequestsOwned
  BY <1>2 DEF Init, CustomersOwned, RequestsOwned, OwnedRequest, Idle
<1>3. ASSUME Init PROVE PaidOpened /\ BilledForOwnCheckout
  BY <1>3, BillingAssumption
     DEF Init, PaidOpened, BilledForOwnCheckout, ToSet, DodoStatus
<1>4. QED BY <1>1, <1>2, <1>3 DEF IInv

(* What Dodo said stays said and what was paid stays paid, so what was     *)
(* owned before a step of Dodo's is owned after it.                        *)
HistoryGrows ==
    /\ ToSet(paid) \subseteq ToSet(paid)'
    /\ \A s \in Session : opened[s] # None => opened'[s] = opened[s]
    /\ \A s \in Session : ToSet(reports[s]) \subseteq ToSet(reports[s])'

LEMMA GrowthKeepsOwnership ==
    ASSUME IInv, HistoryGrows
    PROVE  /\ \A b \in Business : OwnSubscriptions(b) \subseteq OwnSubscriptions(b)'
           /\ \A s \in Session : Said(s) \subseteq Said(s)'
<1>1. ToSet(paid) \subseteq Session
  BY ElementsInSet DEF IInv, TypeOK
<1>2. \A b \in Business : OwnSubscriptions(b) \subseteq OwnSubscriptions(b)'
  BY <1>1 DEF OwnSubscriptions, HistoryGrows, IInv, PaidOpened
<1>3. \A s \in Session : Said(s) \subseteq Said(s)'
  BY DEF Said, HistoryGrows
<1>4. QED BY <1>2, <1>3

LEMMA GrowthKeepsBilling ==
    ASSUME IInv, HistoryGrows,
           status' = status \/ \E b \in Business, st \in Local :
                                   status' = [status EXCEPT ![b] = st],
           UNCHANGED <<subscription, trial>>
    PROVE  BilledForOwnCheckout'
<1>1. /\ \A b \in Business : OwnSubscriptions(b) \subseteq OwnSubscriptions(b)'
      /\ \A s \in Session : Said(s) \subseteq Said(s)'
  BY GrowthKeepsOwnership
<1>2. ASSUME NEW b \in Business, status'[b] \in DodoStatus
      PROVE  status[b] = status'[b]
  BY <1>2 DEF Local, DodoStatus, IInv, TypeOK
<1>3. \A b \in Business : OwnSubscriptions(b) \subseteq Session
  BY ElementsInSet DEF OwnSubscriptions, IInv, TypeOK
<1>4. QED BY <1>1, <1>2, <1>3 DEF IInv, BilledForOwnCheckout

LEMMA GrowthKeepsRequest ==
    ASSUME IInv, HistoryGrows, NEW r \in Request, req'[r] = req[r],
           \A c \in Customer : madeFor[c] # None => madeFor'[c] = madeFor[c]
    PROVE  OwnedRequest(r)'
<1>1. /\ \A b \in Business : OwnSubscriptions(b) \subseteq OwnSubscriptions(b)'
      /\ \A s \in Session : Said(s) \subseteq Said(s)'
  BY GrowthKeepsOwnership
<1>2. /\ req[r].pc # "idle" => req[r].business \in Business
      /\ req[r].pc \in {"session", "list"} => req[r].customer \in Customer
      /\ req[r].pc = "apply" => req[r].latest \in Session
  BY RequestFields DEF IInv
<1>3. req[r].pc \in {"session", "list"} => madeFor[req[r].customer] # None
  BY <1>2, BillingAssumption DEF IInv, RequestsOwned, OwnedRequest
<1>4. ASSUME req[r].pc = "apply"
      PROVE  (/\ req[r].latest \in OwnSubscriptions(req[r].business)
              /\ req[r].status \in Said(req[r].latest))'
  <2>1. /\ req[r].latest \in OwnSubscriptions(req[r].business)
        /\ req[r].status \in Said(req[r].latest)
    BY <1>4 DEF IInv, RequestsOwned, OwnedRequest
  <2>2. req[r].business \in Business /\ req[r].latest \in Session
    BY <1>2, <1>4
  <2>3. req[r].latest \in {s \in ToSet(paid)' : opened'[s].business = req[r].business}
    BY <1>1, <2>1, <2>2 DEF OwnSubscriptions
  <2>4. req[r].status \in {"pending"} \cup {StatusOf(x) : x \in ToSet(reports'[req[r].latest])}
    BY <1>1, <2>1, <2>2 DEF Said
  <2>5. QED BY <2>3, <2>4 DEF OwnSubscriptions, Said
<1>5. ASSUME req[r].pc \in {"session", "list"}
      PROVE  madeFor'[req'[r].customer] = req'[r].business
  BY <1>2, <1>3, <1>5 DEF IInv, RequestsOwned, OwnedRequest
<1>6. QED BY <1>4, <1>5 DEF OwnedRequest

(* A new request remembers a customer made for its business.               *)
LEMMA AwaitKeeps ==
    ASSUME IInv, NEW r \in Request, NEW kind \in {"signup", "checkout"},
           NEW b \in Business, NEW c \in Customer \cup {None},
           c # None => madeFor'[c] = b,
           Await(r, kind, b, c)
    PROVE  /\ \A q \in Request : q # r => req'[q] = req[q]
           /\ req'[r].pc \in {"customer", "session"}
           /\ OwnedRequest(r)'
           /\ req' \in [Request -> RequestState]
<1>1. req \in [Request -> RequestState]
  BY DEF IInv, TypeOK
<1>2. CASE c = None
  BY <1>1, <1>2 DEF Await, RequestState, OwnedRequest
<1>3. CASE c # None
  BY <1>1, <1>3 DEF Await, RequestState, OwnedRequest
<1>4. QED BY <1>2, <1>3

(* A step that leaves Dodo's history and every other request alone.        *)
LEMMA OthersKept ==
    ASSUME IInv, HistoryGrows, NEW r \in Request,
           \A q \in Request : q # r => req'[q] = req[q],
           \A c \in Customer : madeFor[c] # None => madeFor'[c] = madeFor[c],
           OwnedRequest(r)'
    PROVE  RequestsOwned'
<1>1. ASSUME NEW q \in Request PROVE OwnedRequest(q)'
  BY <1>1, GrowthKeepsRequest
<1>2. QED BY <1>1 DEF RequestsOwned

LEMMA SignupStartKeeps ==
    ASSUME IInv, NEW r \in Request, NEW b \in Business, SignupStart(r, b)
    PROVE  IInv'
<1>1. HistoryGrows /\ UNCHANGED <<madeFor, opened, paid, echoed, reports, customer,
                                  subscription, trial, numbered, seen>>
  BY DEF SignupStart, dodoVars, HistoryGrows
<1>2. Await(r, "signup", b, customer[b]) /\ customer[b] \in Customer \cup {None}
  BY DEF SignupStart, IInv, TypeOK
<1>3. customer[b] # None => madeFor'[customer[b]] = b
  BY <1>1 DEF IInv, CustomersOwned
<1>4. /\ \A q \in Request : q # r => req'[q] = req[q]
      /\ OwnedRequest(r)'
      /\ req' \in [Request -> RequestState]
  BY <1>2, <1>3, AwaitKeeps
<1>5. status' = [status EXCEPT ![b] = "pending_checkout"]
  BY DEF SignupStart
<1>6. TypeOK'
  BY <1>1, <1>4, <1>5 DEF IInv, TypeOK, Local, Checkout
<1>7. CustomersOwned' /\ PaidOpened'
  BY <1>1 DEF IInv, CustomersOwned, PaidOpened
<1>8. RequestsOwned'
  BY <1>1, <1>4, OthersKept
<1>9. BilledForOwnCheckout'
  BY <1>1, <1>5, GrowthKeepsBilling DEF Local
<1>10. QED BY <1>6, <1>7, <1>8, <1>9 DEF IInv

LEMMA CheckoutStartKeeps ==
    ASSUME IInv, NEW r \in Request, NEW b \in Business, CheckoutStart(r, b)
    PROVE  IInv'
<1>1. HistoryGrows /\ UNCHANGED <<rowVars, dodoVars>>
  BY DEF CheckoutStart, rowVars, dodoVars, HistoryGrows
<1>2. Await(r, "checkout", b, customer[b]) /\ customer[b] \in Customer \cup {None}
  BY DEF CheckoutStart, IInv, TypeOK
<1>3. customer[b] # None => madeFor'[customer[b]] = b
  BY <1>1 DEF dodoVars, IInv, CustomersOwned
<1>4. /\ \A q \in Request : q # r => req'[q] = req[q]
      /\ OwnedRequest(r)'
      /\ req' \in [Request -> RequestState]
  BY <1>2, <1>3, AwaitKeeps
<1>5. TypeOK'
  BY <1>1, <1>4 DEF rowVars, dodoVars, IInv, TypeOK
<1>6. CustomersOwned' /\ PaidOpened'
  BY <1>1 DEF rowVars, dodoVars, IInv, CustomersOwned, PaidOpened
<1>7. RequestsOwned'
  BY <1>1, <1>4, OthersKept DEF dodoVars
<1>8. BilledForOwnCheckout'
  BY <1>1, GrowthKeepsBilling DEF rowVars
<1>9. QED BY <1>5, <1>6, <1>7, <1>8 DEF IInv

(* A request that ends, whatever it waited for.                            *)
LEMMA EndKeeps ==
    ASSUME IInv, NEW r \in Request, req' = [req EXCEPT ![r] = Idle]
    PROVE  /\ \A q \in Request : q # r => req'[q] = req[q]
           /\ OwnedRequest(r)'
           /\ req' \in [Request -> RequestState]
<1>1. req' \in [Request -> RequestState] /\ req'[r] = Idle
  BY DEF IInv, TypeOK, RequestState
<1>2. QED BY <1>1 DEF IInv, TypeOK, Idle, OwnedRequest

LEMMA RequestFailsKeeps ==
    ASSUME IInv, NEW r \in Request, RequestFails(r)
    PROVE  IInv'
<1>1. HistoryGrows /\ UNCHANGED <<rowVars, dodoVars>>
  BY DEF RequestFails, rowVars, dodoVars, HistoryGrows
<1>2. /\ \A q \in Request : q # r => req'[q] = req[q]
      /\ OwnedRequest(r)'
      /\ req' \in [Request -> RequestState]
  BY EndKeeps DEF RequestFails
<1>3. TypeOK'
  BY <1>1, <1>2 DEF rowVars, dodoVars, IInv, TypeOK
<1>4. CustomersOwned' /\ PaidOpened'
  BY <1>1 DEF rowVars, dodoVars, IInv, CustomersOwned, PaidOpened
<1>5. RequestsOwned'
  BY <1>1, <1>2, OthersKept DEF dodoVars
<1>6. BilledForOwnCheckout'
  BY <1>1, GrowthKeepsBilling DEF rowVars
<1>7. QED BY <1>3, <1>4, <1>5, <1>6 DEF IInv

LEMMA CustomerCreatedKeeps ==
    ASSUME IInv, NEW r \in Request, CustomerCreated(r)
    PROVE  IInv'
<1>1. PICK c \in Customer :
          /\ madeFor[c] = None
          /\ madeFor' = [madeFor EXCEPT ![c] = req[r].business]
          /\ Await(r, req[r].kind, req[r].business, c)
  BY DEF CustomerCreated
<1>2. req[r].business \in Business /\ req[r].kind \in {"signup", "checkout"}
  BY RequestFields DEF CustomerCreated, IInv
<1>3. HistoryGrows /\ UNCHANGED <<rowVars, opened, paid, echoed, reports>>
  BY DEF CustomerCreated, rowVars, HistoryGrows
<1>4. madeFor'[c] = req[r].business
  BY <1>1 DEF IInv, TypeOK
<1>5. /\ \A q \in Request : q # r => req'[q] = req[q]
      /\ OwnedRequest(r)'
      /\ req' \in [Request -> RequestState]
  <2>1. c \in Customer \cup {None}
    BY <1>1
  <2>2. QED BY <1>1, <1>2, <1>4, <2>1, AwaitKeeps
<1>6. \A d \in Customer : madeFor[d] # None => madeFor'[d] = madeFor[d]
  BY <1>1 DEF IInv, TypeOK
<1>7. TypeOK'
  BY <1>1, <1>2, <1>3, <1>5 DEF rowVars, IInv, TypeOK
<1>8. CustomersOwned'
  <2>1. \A b \in Business : customer[b] # None => madeFor[customer[b]] # None
    BY BillingAssumption DEF IInv, CustomersOwned
  <2>2. \A s \in Session : opened[s] # None =>
            opened[s].customer \in Customer /\ opened[s].business \in Business
    BY DEF IInv, TypeOK, Checkout
  <2>3. \A s \in Session : opened[s] # None => madeFor[opened[s].customer] # None
    BY <2>2, BillingAssumption DEF IInv, CustomersOwned
  <2>4. QED BY <1>3, <1>6, <2>1, <2>2, <2>3 DEF rowVars, IInv, TypeOK, CustomersOwned
<1>9. PaidOpened'
  BY <1>3 DEF IInv, PaidOpened
<1>10. RequestsOwned'
  BY <1>3, <1>5, <1>6, OthersKept
<1>11. BilledForOwnCheckout'
  BY <1>3, GrowthKeepsBilling DEF rowVars
<1>12. QED BY <1>7, <1>8, <1>9, <1>10, <1>11 DEF IInv

LEMMA SessionOpenedKeeps ==
    ASSUME IInv, NEW r \in Request, SessionOpened(r)
    PROVE  IInv'
<1> DEFINE b == req[r].business
           c == req[r].customer
<1>1. b \in Business /\ c \in Customer /\ madeFor[c] = b
  BY RequestFields DEF SessionOpened, IInv, RequestsOwned, OwnedRequest
<1>2. PICK s \in Session :
          /\ opened[s] = None
          /\ opened' = [opened EXCEPT ![s] = [business |-> b, customer |-> c]]
  BY DEF SessionOpened
<1>3. /\ customer' = [customer EXCEPT ![b] = c]
      /\ status' = status \/ status' = [status EXCEPT ![b] = "pending_checkout"]
      /\ UNCHANGED <<subscription, trial, numbered, seen, madeFor, paid, echoed, reports>>
  BY DEF SessionOpened, StoreCheckout
<1>4. [business |-> b, customer |-> c] \in Checkout
  BY <1>1 DEF Checkout
<1>5. \A x \in Session : opened[x] # None => opened'[x] = opened[x]
  BY <1>2 DEF IInv, TypeOK
<1>6. HistoryGrows
  BY <1>3, <1>5 DEF HistoryGrows
<1>7. /\ \A q \in Request : q # r => req'[q] = req[q]
      /\ OwnedRequest(r)'
      /\ req' \in [Request -> RequestState]
  BY EndKeeps DEF SessionOpened
<1>8. TypeOK'
  BY <1>1, <1>2, <1>3, <1>4, <1>7 DEF IInv, TypeOK, Local
<1>9. CustomersOwned'
  <2>1. \A d \in Business : customer'[d] # None => madeFor'[customer'[d]] = d
    BY <1>1, <1>3 DEF IInv, TypeOK, CustomersOwned
  <2>2. ASSUME NEW x \in Session, opened'[x] # None
        PROVE  madeFor'[opened'[x].customer] = opened'[x].business
    <3>1. CASE x = s
      <4>1. opened'[x] = [business |-> b, customer |-> c]
        BY <3>1, <1>2 DEF IInv, TypeOK
      <4>2. QED BY <4>1, <1>1, <1>3
    <3>2. CASE x # s
      <4>1. opened'[x] = opened[x]
        BY <3>2, <1>2 DEF IInv, TypeOK
      <4>2. QED BY <4>1, <2>2, <1>3 DEF IInv, CustomersOwned
    <3>3. QED BY <3>1, <3>2
  <2>3. QED BY <2>1, <2>2 DEF CustomersOwned
<1>10. PaidOpened'
  <2>1. ToSet(paid) \subseteq Session
    BY ElementsInSet DEF IInv, TypeOK
  <2>2. QED BY <1>3, <1>5, <2>1 DEF IInv, PaidOpened
<1>11. RequestsOwned'
  BY <1>3, <1>6, <1>7, OthersKept
<1>12. BilledForOwnCheckout'
  BY <1>1, <1>3, <1>6, GrowthKeepsBilling DEF Local
<1>13. QED BY <1>8, <1>9, <1>10, <1>11, <1>12 DEF IInv

(* The one write of billing state, given a subscription the row owns.      *)
LEMMA ApplyEventKeeps ==
    ASSUME IInv, NEW b \in Business, NEW s \in OwnSubscriptions(b),
           NEW st \in Said(s) \cup {None}, st \in DodoStatus \cup {None},
           NEW stamps \in BOOLEAN, stamps => "active" \in Said(s),
           ApplyEvent(b, s, st, stamps),
           UNCHANGED <<madeFor, opened, paid, echoed, reports>>
    PROVE  /\ BilledForOwnCheckout'
           /\ CustomersOwned'
           /\ PaidOpened'
           /\ status' \in [Business -> Local \cup DodoStatus \cup {None}]
           /\ subscription' \in [Business -> Session \cup {None}]
           /\ trial' \in [Business -> Session \cup {"created", None}]
           /\ customer' = customer
<1>1. s \in Session
  BY ElementsInSet DEF OwnSubscriptions, IInv, TypeOK
<1>2. /\ status' = status \/ (st # None /\ status' = [status EXCEPT ![b] = st])
      /\ subscription' = subscription \/ subscription' = [subscription EXCEPT ![b] = s]
      /\ trial' = trial \/ (stamps /\ trial' = [trial EXCEPT ![b] = s])
      /\ customer' = customer
  BY DEF ApplyEvent, Link, StampTrial
<1>3. /\ status' \in [Business -> Local \cup DodoStatus \cup {None}]
      /\ subscription' \in [Business -> Session \cup {None}]
      /\ trial' \in [Business -> Session \cup {"created", None}]
  BY <1>1, <1>2 DEF IInv, TypeOK
<1>4. CustomersOwned' /\ PaidOpened'
  BY <1>2 DEF IInv, CustomersOwned, PaidOpened
<1>5. /\ \A c \in Business : OwnSubscriptions(c)' = OwnSubscriptions(c)
      /\ \A x \in Session : Said(x)' = Said(x)
  BY DEF OwnSubscriptions, Said
<1>6. ASSUME NEW c \in Business
      PROVE  /\ subscription'[c] # None => subscription'[c] \in OwnSubscriptions(c)
             /\ trial'[c] \in Session => /\ trial'[c] \in OwnSubscriptions(c)
                                         /\ "active" \in Said(trial'[c])
             /\ status'[c] \in DodoStatus =>
                    \E x \in OwnSubscriptions(c) : status'[c] \in Said(x)
  <2>1. CASE c # b
    BY <1>2, <2>1 DEF IInv, TypeOK, BilledForOwnCheckout
  <2>2. CASE c = b
    <3>1. subscription'[c] # None => subscription'[c] \in OwnSubscriptions(c)
      BY <1>2, <2>2 DEF IInv, TypeOK, BilledForOwnCheckout
    <3>2. trial'[c] \in Session => /\ trial'[c] \in OwnSubscriptions(c)
                                    /\ "active" \in Said(trial'[c])
      BY <1>2, <2>2 DEF IInv, TypeOK, BilledForOwnCheckout
    <3>3. status'[c] \in DodoStatus =>
              \E x \in OwnSubscriptions(c) : status'[c] \in Said(x)
      BY <1>2, <2>2 DEF IInv, TypeOK, BilledForOwnCheckout
    <3>4. QED BY <3>1, <3>2, <3>3
  <2>3. QED BY <2>1, <2>2
<1>7. BilledForOwnCheckout'
  <2>1. \A c \in Business : OwnSubscriptions(c) \subseteq Session
    BY ElementsInSet DEF OwnSubscriptions, IInv, TypeOK
  <2>2. QED BY <1>5, <1>6, <2>1 DEF BilledForOwnCheckout
<1>8. QED BY <1>2, <1>3, <1>4, <1>7

(* An event reaches the business its subscription was bought for, whether  *)
(* by the hint, the customer or the link.                                  *)
LEMMA MatchIsOwner ==
    ASSUME IInv, NEW s \in ToSet(paid), s \in Session,
           NEW hint \in {opened[s].business, None},
           NEW b \in Match(hint, s)
    PROVE  b \in Business /\ s \in OwnSubscriptions(b)
<1>1. /\ opened[s] # None
      /\ opened[s].business \in Business
      /\ opened[s].customer \in Customer
  BY DEF IInv, PaidOpened, TypeOK, Checkout
<1>2. b \in Business
  BY DEF Match, Rows
<1>3. \/ b = hint
      \/ customer[b] = opened[s].customer
      \/ subscription[b] = s
  BY DEF Match
<1>4. CASE b = hint
  BY <1>1, <1>2, <1>4, BillingAssumption DEF OwnSubscriptions
<1>5. CASE customer[b] = opened[s].customer
  BY <1>1, <1>2, <1>5, BillingAssumption DEF OwnSubscriptions, IInv, CustomersOwned
<1>6. CASE subscription[b] = s
  BY <1>1, <1>2, <1>6, BillingAssumption DEF IInv, BilledForOwnCheckout
<1>7. QED BY <1>2, <1>3, <1>4, <1>5, <1>6

(* A step that leaves requests and Dodo alone, and bills as it should.     *)
LEMMA RequestsKept ==
    ASSUME IInv, UNCHANGED <<req, madeFor, opened, paid, echoed, reports>>
    PROVE  RequestsOwned'
<1>1. HistoryGrows
  BY DEF HistoryGrows
<1>2. ASSUME NEW q \in Request PROVE OwnedRequest(q)'
  BY <1>1, GrowthKeepsRequest
<1>3. QED BY <1>2 DEF RequestsOwned

LEMMA DeliverKeeps ==
    ASSUME IInv, NEW s \in Session, NEW k \in 1..MaxReports, Deliver(s, k)
    PROVE  IInv'
<1> DEFINE report  == reports[s][k]
           hint    == IF s \in echoed THEN opened[s].business ELSE None
<1>1. k \in DOMAIN reports[s] /\ reports[s] \in Seq(Report)
  BY DEF Deliver, IInv, TypeOK
<1>2. report \in Report /\ report \in ToSet(reports[s]) /\ s \in ToSet(paid)
  BY <1>1, NonEmptyFromIndex DEF IInv, PaidOpened
<1>3. UNCHANGED <<req, madeFor, opened, paid, echoed, reports>>
  BY DEF Deliver, dodoVars
<1>4. /\ seen' = seen \cup {<<s, k>>}
      /\ \/ UNCHANGED <<status, customer, subscription, trial, numbered>>
         \/ \E b \in Match(hint, s) :
                /\ ApplyEvent(b, s, StatusOf(report), report = "active")
                /\ numbered' = numbered \/ numbered' = numbered \cup {b}
  BY DEF Deliver, MayBeNumbered
<1>5. CASE UNCHANGED <<status, customer, subscription, trial, numbered>>
  <2>1. TypeOK'
    BY <1>3, <1>4, <1>5 DEF IInv, TypeOK
  <2>2. CustomersOwned' /\ PaidOpened'
    BY <1>3, <1>5 DEF IInv, CustomersOwned, PaidOpened
  <2>3. BilledForOwnCheckout'
    BY <1>3, <1>5, GrowthKeepsBilling DEF HistoryGrows
  <2>4. QED BY <1>3, <2>1, <2>2, <2>3, RequestsKept DEF IInv
<1>6. CASE \E b \in Match(hint, s) :
                /\ ApplyEvent(b, s, StatusOf(report), report = "active")
                /\ numbered' = numbered \/ numbered' = numbered \cup {b}
  <2>1. PICK b \in Match(hint, s) :
                /\ ApplyEvent(b, s, StatusOf(report), report = "active")
                /\ numbered' = numbered \/ numbered' = numbered \cup {b}
    BY <1>6
  <2>2. b \in Business /\ s \in OwnSubscriptions(b)
    BY <1>2, MatchIsOwner
  <2>3. /\ StatusOf(report) \in Said(s) \cup {None}
        /\ StatusOf(report) \in DodoStatus \cup {None}
        /\ report = "active" => "active" \in Said(s)
    <3>1. StatusOf(report) \in Said(s)
      BY <1>2 DEF Said
    <3>2. report = "active" => StatusOf(report) = "active"
      BY DEF StatusOf
    <3>3. QED BY <1>2, <3>1, <3>2, StatusType
  <2>4. /\ BilledForOwnCheckout'
        /\ CustomersOwned'
        /\ PaidOpened'
        /\ status' \in [Business -> Local \cup DodoStatus \cup {None}]
        /\ subscription' \in [Business -> Session \cup {None}]
        /\ trial' \in [Business -> Session \cup {"created", None}]
        /\ customer' = customer
    <3>1. (report = "active") \in BOOLEAN
      OBVIOUS
    <3>2. QED BY <1>3, <2>1, <2>2, <2>3, <3>1, ApplyEventKeeps
  <2>5. TypeOK'
    BY <1>3, <1>4, <2>1, <2>2, <2>4 DEF IInv, TypeOK
  <2>6. QED BY <1>3, <2>4, <2>5, RequestsKept DEF IInv
<1>7. QED BY <1>4, <1>5, <1>6

LEMMA ConfirmStartKeeps ==
    ASSUME IInv, NEW r \in Request, NEW b \in Business, ConfirmStart(r, b)
    PROVE  IInv'
<1>1. HistoryGrows /\ UNCHANGED <<rowVars, dodoVars>>
  BY DEF ConfirmStart, rowVars, dodoVars, HistoryGrows
<1>2. customer[b] \in Customer /\ madeFor[customer[b]] = b
  BY DEF ConfirmStart, IInv, TypeOK, CustomersOwned
<1>3. /\ \A q \in Request : q # r => req'[q] = req[q]
      /\ req' \in [Request -> RequestState]
      /\ req'[r] = [pc |-> "list", business |-> b, customer |-> customer[b]]
  BY <1>2 DEF ConfirmStart, IInv, TypeOK, RequestState
<1>4. OwnedRequest(r)'
  BY <1>1, <1>2, <1>3 DEF OwnedRequest, dodoVars
<1>5. TypeOK'
  BY <1>1, <1>3 DEF rowVars, dodoVars, IInv, TypeOK
<1>6. CustomersOwned' /\ PaidOpened'
  BY <1>1 DEF rowVars, dodoVars, IInv, CustomersOwned, PaidOpened
<1>7. RequestsOwned'
  BY <1>1, <1>3, <1>4, OthersKept DEF dodoVars
<1>8. BilledForOwnCheckout'
  BY <1>1, GrowthKeepsBilling DEF rowVars
<1>9. QED BY <1>5, <1>6, <1>7, <1>8 DEF IInv

LEMMA GivenNumberKeeps ==
    ASSUME IInv, NEW b \in Business, GivenNumber(b)
    PROVE  IInv'
<1>1. /\ HistoryGrows
      /\ numbered' = numbered \cup {b}
      /\ UNCHANGED <<status, customer, subscription, trial, seen, req,
                     madeFor, opened, paid, echoed, reports>>
  BY DEF GivenNumber, dodoVars, HistoryGrows
<1>2. TypeOK'
  BY <1>1 DEF IInv, TypeOK
<1>3. CustomersOwned' /\ PaidOpened'
  BY <1>1 DEF IInv, CustomersOwned, PaidOpened
<1>4. BilledForOwnCheckout'
  BY <1>1, GrowthKeepsBilling
<1>5. QED BY <1>1, <1>2, <1>3, <1>4, RequestsKept DEF IInv

LEMMA AdminCreatesKeeps ==
    ASSUME IInv, NEW b \in Business, AdminCreates(b)
    PROVE  IInv'
<1>1. /\ status' = [status EXCEPT ![b] = "not_started"]
      /\ trial' = [trial EXCEPT ![b] = "created"]
      /\ numbered' = numbered \cup {b}
      /\ UNCHANGED <<customer, subscription, seen, req,
                     madeFor, opened, paid, echoed, reports>>
  BY DEF AdminCreates, dodoVars
<1>2. TypeOK'
  BY <1>1 DEF IInv, TypeOK, Local
<1>3. CustomersOwned' /\ PaidOpened'
  BY <1>1 DEF IInv, CustomersOwned, PaidOpened
<1>4. /\ \A c \in Business : OwnSubscriptions(c)' = OwnSubscriptions(c)
      /\ \A x \in Session : Said(x)' = Said(x)
      /\ \A c \in Business : OwnSubscriptions(c) \subseteq Session
  BY <1>1, ElementsInSet DEF OwnSubscriptions, Said, IInv, TypeOK
<1>5. ASSUME NEW c \in Business, trial'[c] \in Session PROVE trial'[c] = trial[c]
  BY <1>1, <1>5, BillingAssumption DEF IInv, TypeOK
<1>6. ASSUME NEW c \in Business, status'[c] \in DodoStatus PROVE status'[c] = status[c]
  BY <1>1, <1>6 DEF IInv, TypeOK, DodoStatus
<1>7. BilledForOwnCheckout'
  BY <1>1, <1>4, <1>5, <1>6 DEF IInv, BilledForOwnCheckout
<1>8. QED BY <1>1, <1>2, <1>3, <1>7, RequestsKept DEF IInv

LEMMA ListAnsweredKeeps ==
    ASSUME IInv, NEW r \in Request, ListAnswered(r)
    PROVE  IInv'
<1>1. HistoryGrows /\ UNCHANGED <<rowVars, dodoVars>>
  BY DEF ListAnswered, rowVars, dodoVars, HistoryGrows
<1>2. /\ req[r].business \in Business /\ req[r].customer \in Customer
      /\ madeFor[req[r].customer] = req[r].business
  BY RequestFields DEF ListAnswered, IInv, RequestsOwned, OwnedRequest
<1>3. /\ \A q \in Request : q # r => req'[q] = req[q]
      /\ OwnedRequest(r)'
      /\ req' \in [Request -> RequestState]
  <2>1. CASE req' = [req EXCEPT ![r] = Idle]
    BY <2>1, EndKeeps
  <2>2. CASE \E s \in Session, st \in DodoStatus :
              /\ Newest(s, req[r].customer)
              /\ OnRecord(s, st)
              /\ req' = [req EXCEPT ![r] = [pc |-> "apply", business |-> req[r].business,
                                            latest |-> s, status |-> st]]
    <3>1. PICK s \in Session, st \in DodoStatus :
              /\ Newest(s, req[r].customer)
              /\ OnRecord(s, st)
              /\ req' = [req EXCEPT ![r] = [pc |-> "apply", business |-> req[r].business,
                                            latest |-> s, status |-> st]]
      BY <2>2
    <3>2. s \in ToSet(paid) /\ opened[s].customer = req[r].customer
      BY <3>1 DEF Newest, ToSet
    <3>3. opened[s].business = req[r].business
      BY <3>2, <1>2 DEF IInv, PaidOpened, CustomersOwned
    <3>4. st \in Said(s)
      BY <3>1 DEF OnRecord, Said, ToSet
    <3>5. /\ req' \in [Request -> RequestState]
          /\ req'[r] = [pc |-> "apply", business |-> req[r].business,
                        latest |-> s, status |-> st]
          /\ \A q \in Request : q # r => req'[q] = req[q]
      BY <3>1, <1>2 DEF IInv, TypeOK, RequestState
    <3>6. OwnedRequest(r)'
      <4>1. s \in OwnSubscriptions(req[r].business)
        BY <3>2, <3>3 DEF OwnSubscriptions
      <4>2. (req[r].latest \in OwnSubscriptions(req[r].business))'
        BY <3>5, <4>1, <1>1 DEF OwnSubscriptions, dodoVars
      <4>3. (req[r].status \in Said(req[r].latest))'
        BY <3>5, <3>4, <1>1 DEF Said, dodoVars
      <4>4. QED BY <3>5, <4>2, <4>3 DEF OwnedRequest
    <3>7. QED BY <3>5, <3>6
  <2>3. QED BY <2>1, <2>2 DEF ListAnswered
<1>4. TypeOK'
  BY <1>1, <1>3 DEF rowVars, dodoVars, IInv, TypeOK
<1>5. CustomersOwned' /\ PaidOpened'
  BY <1>1 DEF rowVars, dodoVars, IInv, CustomersOwned, PaidOpened
<1>6. RequestsOwned'
  BY <1>1, <1>3, OthersKept DEF dodoVars
<1>7. BilledForOwnCheckout'
  BY <1>1, GrowthKeepsBilling DEF rowVars
<1>8. QED BY <1>4, <1>5, <1>6, <1>7 DEF IInv

LEMMA ConfirmAppliesKeeps ==
    ASSUME IInv, NEW r \in Request, ConfirmApplies(r)
    PROVE  IInv'
<1> DEFINE b  == req[r].business
           s  == req[r].latest
           st == req[r].status
<1>1. /\ b \in Business /\ s \in Session /\ st \in DodoStatus
      /\ s \in OwnSubscriptions(b) /\ st \in Said(s)
  BY RequestFields DEF ConfirmApplies, IInv, RequestsOwned, OwnedRequest
<1>2. /\ ApplyEvent(b, s, st, st = "active")
      /\ numbered' = numbered \/ numbered' = numbered \cup {b}
      /\ UNCHANGED <<seen, madeFor, opened, paid, echoed, reports>>
  BY DEF ConfirmApplies, MayBeNumbered, dodoVars
<1>3. /\ BilledForOwnCheckout'
      /\ CustomersOwned'
      /\ PaidOpened'
      /\ status' \in [Business -> Local \cup DodoStatus \cup {None}]
      /\ subscription' \in [Business -> Session \cup {None}]
      /\ trial' \in [Business -> Session \cup {"created", None}]
      /\ customer' = customer
  <2>1. (st = "active") \in BOOLEAN
    OBVIOUS
  <2>2. QED BY <1>1, <1>2, <2>1, ApplyEventKeeps
<1>4. /\ \A q \in Request : q # r => req'[q] = req[q]
      /\ OwnedRequest(r)'
      /\ req' \in [Request -> RequestState]
  BY EndKeeps DEF ConfirmApplies
<1>5. TypeOK'
  BY <1>1, <1>2, <1>3, <1>4 DEF IInv, TypeOK
<1>6. RequestsOwned'
  <2>1. HistoryGrows
    BY <1>2 DEF HistoryGrows
  <2>2. QED BY <1>2, <1>4, <2>1, OthersKept
<1>7. QED BY <1>3, <1>5, <1>6 DEF IInv

LEMMA PaysKeeps ==
    ASSUME IInv, NEW s \in Session, NEW echoes \in BOOLEAN, Pays(s, echoes)
    PROVE  IInv'
<1>1. /\ opened[s] # None
      /\ paid' = Append(paid, s)
      /\ echoed' \subseteq echoed \cup {s}
      /\ UNCHANGED <<rowVars, req, madeFor, opened, reports>>
  BY DEF Pays
<1>2. ToSet(paid') = ToSet(paid) \cup {s} /\ paid' \in Seq(Session)
  BY <1>1, AppendElements DEF IInv, TypeOK
<1>3. HistoryGrows
  BY <1>1, <1>2 DEF HistoryGrows
<1>4. TypeOK'
  BY <1>1, <1>2 DEF rowVars, IInv, TypeOK
<1>5. CustomersOwned' /\ PaidOpened'
  BY <1>1, <1>2 DEF rowVars, IInv, CustomersOwned, PaidOpened
<1>6. RequestsOwned'
  <2>1. ASSUME NEW q \in Request PROVE OwnedRequest(q)'
    BY <1>1, <1>3, GrowthKeepsRequest
  <2>2. QED BY <2>1 DEF RequestsOwned
<1>7. BilledForOwnCheckout'
  BY <1>1, <1>3, GrowthKeepsBilling DEF rowVars
<1>8. QED BY <1>4, <1>5, <1>6, <1>7 DEF IInv

LEMMA ReportsKeeps ==
    ASSUME IInv, NEW s \in Session, NEW report \in Report, Reports(s, report)
    PROVE  IInv'
<1>1. /\ s \in ToSet(paid)
      /\ reports' = [reports EXCEPT ![s] = Append(reports[s], report)]
      /\ UNCHANGED <<rowVars, req, madeFor, opened, paid, echoed>>
  BY DEF Reports
<1>2. /\ reports' \in [Session -> Seq(Report)]
      /\ \A x \in Session : x # s => reports'[x] = reports[x]
      /\ reports'[s] = Append(reports[s], report)
  BY <1>1 DEF IInv, TypeOK
<1>3. ToSet(reports'[s]) = ToSet(reports[s]) \cup {report}
  BY <1>2, AppendElements DEF IInv, TypeOK
<1>4. HistoryGrows
  BY <1>1, <1>2, <1>3 DEF HistoryGrows
<1>5. TypeOK'
  BY <1>1, <1>2 DEF rowVars, IInv, TypeOK
<1>6. CustomersOwned' /\ PaidOpened'
  BY <1>1, <1>2 DEF rowVars, IInv, CustomersOwned, PaidOpened
<1>7. RequestsOwned'
  <2>1. ASSUME NEW q \in Request PROVE OwnedRequest(q)'
    BY <1>1, <1>4, GrowthKeepsRequest
  <2>2. QED BY <2>1 DEF RequestsOwned
<1>8. BilledForOwnCheckout'
  BY <1>1, <1>4, GrowthKeepsBilling DEF rowVars
<1>9. QED BY <1>5, <1>6, <1>7, <1>8 DEF IInv

LEMMA StutterKeeps ==
    ASSUME IInv, UNCHANGED vars
    PROVE  IInv'
<1>1. UNCHANGED <<status, customer, subscription, trial, numbered, seen, req,
                  madeFor, opened, paid, echoed, reports>>
  BY DEF vars, rowVars, dodoVars
<1>2. HistoryGrows
  BY <1>1 DEF HistoryGrows
<1>3. TypeOK' /\ CustomersOwned' /\ PaidOpened'
  BY <1>1 DEF IInv, TypeOK, CustomersOwned, PaidOpened
<1>4. RequestsOwned' /\ BilledForOwnCheckout'
  BY <1>1, <1>2, RequestsKept, GrowthKeepsBilling
<1>5. QED BY <1>3, <1>4 DEF IInv

-----------------------------------------------------------------------------
(* IInv is inductive: one step for each disjunct of Next.                  *)
LEMMA NextKeeps == IInv /\ [Next]_vars => IInv'
<1> SUFFICES ASSUME IInv, [Next]_vars PROVE IInv'
  OBVIOUS
<1>1. CASE \E r \in Request, b \in Business :
               SignupStart(r, b) \/ CheckoutStart(r, b) \/ ConfirmStart(r, b)
  BY <1>1, SignupStartKeeps, CheckoutStartKeeps, ConfirmStartKeeps
<1>2. CASE \E r \in Request :
               \/ CustomerCreated(r) \/ SessionOpened(r) \/ RequestFails(r)
               \/ ListAnswered(r) \/ ConfirmApplies(r)
  BY <1>2, CustomerCreatedKeeps, SessionOpenedKeeps, RequestFailsKeeps,
     ListAnsweredKeeps, ConfirmAppliesKeeps
<1>3. CASE \E s \in Session, k \in 1..MaxReports : Deliver(s, k)
  BY <1>3, DeliverKeeps
<1>4. CASE \E b \in Business : ConfirmServes(b) \/ OthersServe(b) \/ AdminCreates(b)
  BY <1>4, GivenNumberKeeps, AdminCreatesKeeps DEF ConfirmServes, OthersServe
<1>5. CASE \E s \in Session, echoes \in BOOLEAN : Pays(s, echoes)
  BY <1>5, PaysKeeps
<1>6. CASE \E s \in Session, report \in Report : Reports(s, report)
  BY <1>6, ReportsKeeps
<1>7. CASE UNCHANGED vars
  BY <1>7, StutterKeeps
<1>8. QED BY <1>1, <1>2, <1>3, <1>4, <1>5, <1>6, <1>7 DEF Next

(* Every reachable state has the types declared for it.                    *)
THEOREM Types == Spec => []TypeOK
<1>1. IInv => TypeOK
  BY DEF IInv
<1>2. QED BY InitIInv, NextKeeps, <1>1, PTL DEF Spec

(* Whatever is in flight, lost, late or repeated, a business is linked,    *)
(* put on trial and given a status only by a subscription paid in a        *)
(* checkout that was opened for it (applyDodoWebhookEvent).                *)
THEOREM OwnCheckoutOnly == Spec => []BilledForOwnCheckout
<1>1. IInv => BilledForOwnCheckout
  BY DEF IInv
<1>2. QED BY InitIInv, NextKeeps, <1>1, PTL DEF Spec

(* Only a row is ever billed, and no row goes away.  SetForGood needs it:  *)
(* createAdminCustomer stamps the trial of an id that must be new.         *)
RowsBilled ==
    /\ \A b \in Business : status[b] = None => trial[b] = None
    /\ \A r \in Request : req[r].pc # "idle" => status[req[r].business] # None

RowsStay == \A b \in Business : status[b] # None => status'[b] # None

LEMMA InitRows == Init => RowsBilled
BY DEF Init, RowsBilled, Idle

LEMMA ApplyEventRows ==
    ASSUME IInv, RowsBilled, NEW b \in Business, status[b] # None,
           NEW s, NEW st \in DodoStatus \cup {None}, NEW stamps, ApplyEvent(b, s, st, stamps)
    PROVE  RowsStay /\ \A c \in Business : status'[c] = None => trial'[c] = None
BY BillingAssumption DEF ApplyEvent, StampTrial, IInv, TypeOK, RowsBilled, RowsStay

(* Requests that go on, or end, stay with their row.                       *)
LEMMA RequestRows ==
    ASSUME RowsBilled, IInv, RowsStay, req' \in [Request -> RequestState],
           \A r \in Request : \/ req'[r].pc = "idle"
                              \/ req[r].pc # "idle" /\ req'[r].business = req[r].business
                              \/ req'[r].business \in Business /\ status'[req'[r].business] # None
    PROVE  \A r \in Request : req'[r].pc # "idle" => status'[req'[r].business] # None
<1>1. \A r \in Request : req[r].pc # "idle" => req[r].business \in Business
  BY RequestFields DEF IInv
<1>2. QED BY <1>1 DEF RowsBilled, RowsStay

LEMMA AwaitBusiness ==
    ASSUME IInv, NEW r \in Request, NEW kind, NEW b, NEW c, Await(r, kind, b, c)
    PROVE  /\ req'[r].business = b
           /\ \A q \in Request : q # r => req'[q] = req[q]
BY DEF Await, IInv, TypeOK

LEMMA NextRows == IInv /\ RowsBilled /\ [Next]_vars => RowsBilled'
<1> SUFFICES ASSUME IInv, RowsBilled, [Next]_vars PROVE RowsBilled'
  OBVIOUS
<1> USE BillingAssumption
<1>1. req' \in [Request -> RequestState]
  BY NextKeeps DEF IInv, TypeOK
<1> DEFINE Follows == \A r \in Request :
                          \/ req'[r].pc = "idle"
                          \/ req[r].pc # "idle" /\ req'[r].business = req[r].business
                          \/ req'[r].business \in Business /\ status'[req'[r].business] # None
           Stamped == \A c \in Business : status'[c] = None => trial'[c] = None
<1>2. ASSUME RowsStay, Follows, Stamped PROVE RowsBilled'
  BY <1>1, <1>2, RequestRows DEF RowsBilled
<1>3. ASSUME UNCHANGED req PROVE Follows
  BY <1>3 DEF IInv, TypeOK, RequestState, Idle
<1>4. ASSUME UNCHANGED <<status, trial>> PROVE RowsStay /\ Stamped
  BY <1>4 DEF RowsStay, RowsBilled
<1>5. ASSUME NEW r \in Request, req' = [req EXCEPT ![r] = Idle] PROVE Follows
  BY <1>5 DEF IInv, TypeOK, RequestState, Idle
<1>6. ASSUME NEW r \in Request, NEW b \in Business, SignupStart(r, b) PROVE RowsBilled'
  <2>1. RowsStay /\ Stamped /\ status'[b] # None
    BY <1>6 DEF SignupStart, IInv, TypeOK, RowsStay, RowsBilled, Local
  <2>2. req'[r].business = b /\ \A q \in Request : q # r => req'[q] = req[q]
    BY <1>6, AwaitBusiness DEF SignupStart
  <2>3. Follows
    BY <2>1, <2>2 DEF IInv, TypeOK, RequestState, Idle
  <2>4. QED BY <1>2, <2>1, <2>3
<1>7. ASSUME NEW r \in Request, NEW b \in Business, CheckoutStart(r, b) PROVE RowsBilled'
  <2>1. RowsStay /\ Stamped /\ status'[b] # None
    BY <1>4, <1>7 DEF CheckoutStart, rowVars, Rows
  <2>2. req'[r].business = b /\ \A q \in Request : q # r => req'[q] = req[q]
    BY <1>7, AwaitBusiness DEF CheckoutStart
  <2>3. Follows
    BY <2>1, <2>2 DEF IInv, TypeOK, RequestState, Idle
  <2>4. QED BY <1>2, <2>1, <2>3
<1>8. ASSUME NEW r \in Request, NEW b \in Business, ConfirmStart(r, b) PROVE RowsBilled'
  <2>1. RowsStay /\ Stamped /\ status'[b] # None
    BY <1>4, <1>8 DEF ConfirmStart, rowVars, Unconfirmed, Local, DodoStatus
  <2>2. Follows
    BY <1>8, <2>1 DEF ConfirmStart, IInv, TypeOK, RequestState, Idle
  <2>3. QED BY <1>2, <2>1, <2>2
<1>9. ASSUME NEW r \in Request, CustomerCreated(r) PROVE RowsBilled'
  <2>1. RowsStay /\ Stamped
    BY <1>4, <1>9 DEF CustomerCreated, rowVars
  <2>2. PICK c : Await(r, req[r].kind, req[r].business, c)
    BY <1>9 DEF CustomerCreated
  <2>3. Follows
    BY <1>9, <2>2, AwaitBusiness DEF CustomerCreated, IInv, TypeOK, RequestState, Idle
  <2>4. QED BY <1>2, <2>1, <2>3
<1>10. ASSUME NEW r \in Request, SessionOpened(r) PROVE RowsBilled'
  <2>1. RowsStay /\ Stamped
    BY <1>10 DEF SessionOpened, StoreCheckout, IInv, TypeOK, RowsStay, RowsBilled, Local
  <2>2. QED BY <1>2, <1>5, <1>10, <2>1 DEF SessionOpened
<1>11. ASSUME NEW r \in Request, RequestFails(r) PROVE RowsBilled'
  BY <1>2, <1>4, <1>5, <1>11 DEF RequestFails, rowVars
<1>12. ASSUME NEW r \in Request, ListAnswered(r) PROVE RowsBilled'
  <2>1. RowsStay /\ Stamped
    BY <1>4, <1>12 DEF ListAnswered, rowVars
  <2>2. Follows
    <3>1. \/ req' = [req EXCEPT ![r] = Idle]
          \/ \E s \in Session, st \in DodoStatus :
                 req' = [req EXCEPT ![r] = [pc |-> "apply", business |-> req[r].business,
                                            latest |-> s, status |-> st]]
      BY <1>12 DEF ListAnswered
    <3>2. req[r].pc # "idle" /\ req \in [Request -> RequestState]
      BY <1>12 DEF ListAnswered, IInv, TypeOK
    <3>3. CASE \E s \in Session, st \in DodoStatus :
                   req' = [req EXCEPT ![r] = [pc |-> "apply", business |-> req[r].business,
                                              latest |-> s, status |-> st]]
      <4>1. /\ req'[r].business = req[r].business
            /\ \A q \in Request : q # r => req'[q] = req[q]
        BY <3>2, <3>3
      <4>2. QED BY <3>2, <4>1 DEF RequestState, Idle
    <3>4. QED BY <1>5, <3>1, <3>3
  <2>3. QED BY <1>2, <2>1, <2>2
<1>13. ASSUME NEW r \in Request, ConfirmApplies(r) PROVE RowsBilled'
  <2>1. /\ req[r].business \in Business /\ status[req[r].business] # None
        /\ req[r].status \in DodoStatus
    BY <1>13, RequestFields DEF ConfirmApplies, IInv, RowsBilled
  <2>2. RowsStay /\ Stamped
    BY <1>13, <2>1, ApplyEventRows DEF ConfirmApplies
  <2>3. QED BY <1>2, <1>5, <1>13, <2>2 DEF ConfirmApplies
<1>14. ASSUME NEW s \in Session, NEW k \in 1..MaxReports, Deliver(s, k) PROVE RowsBilled'
  <2>1. reports[s][k] \in Report
    BY <1>14, NonEmptyFromIndex DEF Deliver, IInv, TypeOK
  <2>2. \/ UNCHANGED <<status, trial>>
        \/ \E b \in Rows : ApplyEvent(b, s, StatusOf(reports[s][k]), reports[s][k] = "active")
    BY <1>14 DEF Deliver, Match
  <2>3. RowsStay /\ Stamped
    BY <1>4, <2>1, <2>2, StatusType, ApplyEventRows DEF Rows
  <2>4. QED BY <1>2, <1>3, <1>14, <2>3 DEF Deliver
<1>15. ASSUME NEW b \in Business, AdminCreates(b) PROVE RowsBilled'
  <2>1. RowsStay /\ Stamped
    BY <1>15 DEF AdminCreates, IInv, TypeOK, RowsStay, RowsBilled, Local
  <2>2. QED BY <1>2, <1>3, <1>15, <2>1 DEF AdminCreates
<1>16. ASSUME UNCHANGED <<status, trial, req>> PROVE RowsBilled'
  BY <1>2, <1>3, <1>4, <1>16
<1>17. QED BY <1>6, <1>7, <1>8, <1>9, <1>10, <1>11, <1>12, <1>13, <1>14, <1>15, <1>16
           DEF Next, vars, rowVars, ConfirmServes, OthersServe, GivenNumber, Pays, Reports

(* A link and the start of a trial are written once: no retry, second      *)
(* subscription or late request moves them (the COALESCEs of               *)
(* applyDodoWebhookEvent).                                                 *)
THEOREM LinkAndTrialForGood == Spec => SetForGood
<1> DEFINE Kept == \A b \in Business :
                       /\ subscription[b] # None => subscription'[b] = subscription[b]
                       /\ trial[b] # None => trial'[b] = trial[b]
<1>1. ASSUME NEW b \in Business, NEW s, NEW st, NEW stamps, IInv, ApplyEvent(b, s, st, stamps)
      PROVE  Kept
  BY <1>1 DEF ApplyEvent, Link, StampTrial, IInv, TypeOK
<1>2. ASSUME UNCHANGED <<subscription, trial>> PROVE Kept
  BY <1>2
<1>3. ASSUME IInv, NEW s \in Session, NEW k \in 1..MaxReports, Deliver(s, k) PROVE Kept
  <2>1. \/ UNCHANGED <<subscription, trial>>
        \/ \E b \in Business : ApplyEvent(b, s, StatusOf(reports[s][k]), reports[s][k] = "active")
    BY <1>3 DEF Deliver, Match, Rows
  <2>2. QED BY <1>1, <1>2, <1>3, <2>1
<1>4. ASSUME IInv, NEW r \in Request, ConfirmApplies(r) PROVE Kept
  <2>1. req[r].business \in Business
    BY <1>4, RequestFields DEF IInv, ConfirmApplies
  <2>2. QED BY <1>1, <1>4, <2>1 DEF ConfirmApplies
<1>5. ASSUME IInv, RowsBilled, NEW b \in Business, AdminCreates(b) PROVE Kept
  BY <1>5 DEF AdminCreates, Rows, IInv, TypeOK, RowsBilled
<1>6. IInv /\ RowsBilled /\ [Next]_vars => [Kept]_vars
  <2> SUFFICES ASSUME IInv, RowsBilled, Next PROVE Kept
    OBVIOUS
  <2>1. \/ \E s \in Session, k \in 1..MaxReports : Deliver(s, k)
        \/ \E r \in Request : ConfirmApplies(r)
        \/ \E b \in Business : AdminCreates(b)
        \/ UNCHANGED <<subscription, trial>>
    BY DEF Next, SignupStart, CheckoutStart, ConfirmStart, CustomerCreated, SessionOpened,
           StoreCheckout, RequestFails, ListAnswered, ConfirmServes, OthersServe, GivenNumber,
           Pays, Reports, rowVars
  <2>2. QED BY <1>2, <1>3, <1>4, <1>5, <2>1
<1>7. QED BY InitIInv, NextKeeps, InitRows, NextRows, <1>6, PTL DEF Spec, SetForGood

-----------------------------------------------------------------------------
(* The customer of a payer.  A business that has a checkout is a row with  *)
(* the customer of one of its checkouts; which of them, when two requests  *)
(* have each made a customer, is left open.                                *)
KnownFrom(t, b) ==
    /\ opened[t] # None
    /\ opened[t].business = b
    /\ opened[t].customer = customer[b]

CheckoutsKnown ==
    \A s \in Session : opened[s] # None => \E t \in Session : KnownFrom(t, opened[s].business)

LEMMA InitKnown == Init => CheckoutsKnown
  BY DEF Init, CheckoutsKnown

(* The checkout that is stored is the one that has just been opened, and   *)
(* every other business keeps the one it had.                              *)
LEMMA SessionOpenedKnown ==
    ASSUME IInv, CheckoutsKnown, NEW r \in Request, SessionOpened(r)
    PROVE  CheckoutsKnown'
<1>1. PICK b \in Business, c \in Customer : b = req[r].business /\ c = req[r].customer
  BY RequestFields DEF SessionOpened, IInv
<1>2. PICK x \in Checkout : x = [business |-> b, customer |-> c]
  BY DEF Checkout
<1>3. PICK t \in Session : opened[t] = None /\ opened' = [opened EXCEPT ![t] = x]
  BY <1>1, <1>2 DEF SessionOpened
<1>4. customer' = [customer EXCEPT ![b] = c]
  BY <1>1 DEF SessionOpened, StoreCheckout
<1>5. /\ customer \in [Business -> Customer \cup {None}]
      /\ opened \in [Session -> Checkout \cup {None}]
      /\ x # None /\ x.business = b /\ x.customer = c
  BY <1>2, BillingAssumption DEF IInv, TypeOK
<1>6. /\ opened'[t] = x
      /\ customer'[b] = c
      /\ \A s \in Session : s # t => opened'[s] = opened[s]
      /\ \A d \in Business : d # b => customer'[d] = customer[d]
  BY <1>3, <1>4, <1>5
<1>7. KnownFrom(t, b)'
  BY <1>5, <1>6 DEF KnownFrom
<1>8. ASSUME NEW s \in Session, opened'[s] # None
      PROVE  \E u \in Session : KnownFrom(u, opened[s].business)'
  <2>1. CASE opened'[s].business = b
    BY <1>7, <2>1 DEF KnownFrom
  <2>2. CASE opened'[s].business # b
    <3>1. opened'[s] = opened[s] /\ opened[s] \in Checkout
      BY <1>5, <1>6, <1>8, <2>2
    <3>2. PICK u \in Session : KnownFrom(u, opened[s].business)
      BY <1>8, <3>1 DEF CheckoutsKnown
    <3>3. PICK d \in Business : d = opened[s].business /\ d # b
      BY <2>2, <3>1 DEF Checkout
    <3>4. opened'[u] = opened[u] /\ customer'[d] = customer[d]
      BY <1>3, <1>6, <3>2, <3>3 DEF KnownFrom
    <3>5. QED BY <3>1, <3>2, <3>3, <3>4 DEF KnownFrom
  <2>3. QED BY <2>1, <2>2
<1>9. QED BY <1>8 DEF CheckoutsKnown

LEMMA NextKnown == IInv /\ CheckoutsKnown /\ [Next]_vars => CheckoutsKnown'
<1> SUFFICES ASSUME IInv, CheckoutsKnown, [Next]_vars
             PROVE  CheckoutsKnown'
  OBVIOUS
<1>1. CASE \E r \in Request : SessionOpened(r)
  BY <1>1, SessionOpenedKnown
<1>2. CASE UNCHANGED <<customer, opened>>
  BY <1>2 DEF CheckoutsKnown, KnownFrom
<1>3. QED
  BY <1>1, <1>2
     DEF Next, vars, rowVars, dodoVars, SignupStart, CheckoutStart, ConfirmStart,
         CustomerCreated, RequestFails, ListAnswered, ConfirmApplies, ApplyEvent, Deliver,
         ConfirmServes, OthersServe, GivenNumber, AdminCreates, Pays, Reports

(* Whoever pays, in whatever order any number of openings, answers and     *)
(* events come, the row of the business holds the customer of a checkout   *)
(* of its own: never none and never a stranger's (db.ts:819-820).  With    *)
(* two openings at a time it need not be the payer's.                      *)
THEOREM PayersKnown == Spec => []PayerKnown
<1>1. IInv /\ CheckoutsKnown => PayerKnown
  <2>1. ASSUME IInv, NEW s \in ToSet(paid)
        PROVE  s \in Session /\ opened[s] # None
    BY <2>1, ElementsInSet DEF IInv, TypeOK, PaidOpened
  <2>2. QED BY <2>1 DEF CheckoutsKnown, KnownFrom, PayerKnown
<1>2. QED BY InitIInv, NextKeeps, InitKnown, NextKnown, <1>1, PTL DEF Spec
=============================================================================
