----------------------------- MODULE Onboarding -----------------------------
(***************************************************************************)
(* The four setup steps of an owner: src/app/api/onboarding/start and      *)
(* /step, with the calls that move a business along from elsewhere.        *)
(*                                                                         *)
(* Step 3 needs a number.  The step route draws one when the business has  *)
(* none, and when that leaves the pool low it waits on an e-mail to the    *)
(* operator before it writes the step it decided on earlier: the owner,    *)
(* who reloads the page and clicks again, the webhook and the admin do not *)
(* wait.  Every other handler here ends before another one runs.           *)
(***************************************************************************)
EXTENDS Naturals, FiniteSets

CONSTANTS
    Business,
    Number,         \* CallFlow numbers
    Request,        \* step requests that wait at the same time
    LowStock,       \* LOW_POOL_THRESHOLD
    SmtpReady,      \* readSmtpConfig() finds a configuration
    None

Step == {"1", "2", "3", "4", "done"}

ASSUME OnboardingAssumption ==
    /\ LowStock \in Nat
    /\ SmtpReady \in BOOLEAN
    /\ None \notin Business \cup Step

VARIABLES
    step,       \* column onboardingStep, None while there is no row
    borrower,   \* column assignedNumber, by number
    had,        \* history: the businesses that have had a number
    listed,     \* the numbers in the pool file
    waiting     \* the business whose step 3 a request is about to write

vars == <<step, borrower, had, listed, waiting>>

Pool == INSTANCE NumberOwnership WITH Nobody <- None

TypeOK ==
    /\ step \in [Business -> Step \cup {None}]
    /\ borrower \in [Number -> Business \cup {None}]
    /\ had \subseteq Business
    /\ listed \subseteq Number
    /\ waiting \in [Request -> Business \cup {None}]

Init ==
    /\ step = [b \in Business |-> None]
    /\ borrower = [n \in Number |-> None]
    /\ had = {}
    /\ listed = {}
    /\ waiting = [r \in Request |-> None]

Free == {n \in listed : borrower[n] = None}

HasNumber(b) == \E n \in Number : borrower[n] = b

(* assignNumber for a business that has none.                              *)
Draw(b) ==
    /\ \E n \in Free : Pool!Lend(n, b)
    /\ had' = had \cup {b}

-----------------------------------------------------------------------------
(* POST /api/onboarding/start.                                             *)

(* Mutant of AfterStart: the info page sends everybody to step 2.          *)
AfterStartAgain(s) == "2"

AfterStart(s) == IF s = "1" THEN "2" ELSE s

(* The row, then the pool, which may be empty or unreadable, or the        *)
(* process dies between the two; a wait on the alert changes nothing more. *)
Start(b) ==
    /\ step[b] # None
    /\ step' = [step EXCEPT ![b] = AfterStart(step[b])]
    /\ Draw(b) \/ UNCHANGED <<borrower, had>>
    /\ UNCHANGED <<listed, waiting>>

-----------------------------------------------------------------------------
(* POST /api/onboarding/step.                                              *)

(* Mutant of Allowed: no "test later" link.                                *)
AllowedNoSkip == {<<"2", "3">>, <<"3", "4">>}

Allowed == {<<"2", "3">>, <<"3", "4">>, <<"4", "done">>}

(* The targets of a move that is allowed from somewhere.                   *)
Asked == {move[2] : move \in Allowed}

(* Mutant of NeedsNumber: step 3 is shown without a number.                *)
NeedsNumberNever(b, next) == FALSE

NeedsNumber(b, next) == next = "3" /\ ~HasNumber(b)

(* assignNumber waits on the alert when what remains is at the threshold.  *)
WaitsOnAlert == SmtpReady /\ Cardinality(Free) - 1 <= LowStock

StepWritten(b, next) ==
    /\ step' = [step EXCEPT ![b] = next]
    /\ UNCHANGED waiting

(* Any other move is refused, and an empty or unreadable pool leaves       *)
(* everything as it is.                                                    *)
StepAsked(r, b, next) ==
    /\ waiting[r] = None
    /\ <<step[b], next>> \in Allowed
    /\ \/ /\ ~NeedsNumber(b, next)
          /\ StepWritten(b, next)
          /\ UNCHANGED <<borrower, had>>
       \/ /\ NeedsNumber(b, next)
          /\ Draw(b)
          /\ IF WaitsOnAlert
             THEN waiting' = [waiting EXCEPT ![r] = b] /\ UNCHANGED step
             ELSE StepWritten(b, next)
    /\ UNCHANGED listed

(* SMTP has answered or given up, and the step is written as decided.      *)
AlertAnswered(r) ==
    /\ waiting[r] # None
    /\ step' = [step EXCEPT ![waiting[r]] = "3"]
    /\ waiting' = [waiting EXCEPT ![r] = None]
    /\ UNCHANGED <<borrower, had, listed>>

Crash ==
    /\ waiting' = [r \in Request |-> None]
    /\ UNCHANGED <<step, borrower, had, listed>>

-----------------------------------------------------------------------------
(* The others who move a business along.                                   *)

SignUp(b) ==
    /\ step[b] = None
    /\ step' = [step EXCEPT ![b] = "1"]
    /\ UNCHANGED <<borrower, had, listed, waiting>>

(* createAdminCustomer: no setup, and a number of the admin's choice.      *)
AdminCreates(b, n) ==
    /\ step[b] = None
    /\ Pool!Lend(n, b)
    /\ step' = [step EXCEPT ![b] = "done"]
    /\ had' = had \cup {b}
    /\ listed' = listed \cup {n}
    /\ UNCHANGED waiting

(* assignNumber of the webhook, of the return page and of the admin.       *)
Granted(b) ==
    /\ step[b] # None
    /\ Draw(b)
    /\ UNCHANGED <<step, listed, waiting>>

(* handleDograhWebhook: the first call to the number ends the setup.       *)
FirstCall(b) ==
    /\ step[b] = "4"
    /\ HasNumber(b)
    /\ step' = [step EXCEPT ![b] = "done"]
    /\ UNCHANGED <<borrower, had, listed, waiting>>

Release(n) ==
    /\ Pool!GiveBack(n)
    /\ UNCHANGED <<step, had, listed, waiting>>

Restock(n) ==
    /\ n \notin listed
    /\ borrower[n] = None
    /\ listed' = listed \cup {n}
    /\ UNCHANGED <<step, borrower, had, waiting>>

Next ==
    \/ \E b \in Business : SignUp(b) \/ Start(b) \/ Granted(b) \/ FirstCall(b)
    \/ \E b \in Business, n \in Number : AdminCreates(b, n)
    \/ \E r \in Request, b \in Business, next \in Asked : StepAsked(r, b, next)
    \/ \E r \in Request : AlertAnswered(r)
    \/ Crash
    \/ \E n \in Number : Release(n) \/ Restock(n)

Spec == Init /\ [][Next]_vars

(* The button of the setup page, by the row's step: the card of step 3 is  *)
(* the code to dial, and without a number there is no card.                *)
Offered(b) ==
    CASE step[b] = "2" -> {"3"}
      [] step[b] = "3" -> IF HasNumber(b) THEN {"4"} ELSE {}
      [] step[b] = "4" -> {"done"}
      [] OTHER -> {}

(* The owner fills the first form and keeps clicking what the page offers, *)
(* after a reload where the page is behind; the operator pastes numbers    *)
(* when told that the pool is empty; SMTP answers, unless the process dies *)
(* first, which it does not do every time.                                 *)
Clicked ==
    /\ \A b \in Business :
           /\ WF_vars(step[b] = "1" /\ Start(b))
           /\ SF_vars(\E r \in Request, next \in Offered(b) : StepAsked(r, b, next))
    /\ \A r \in Request : SF_vars(AlertAnswered(r))
    /\ \A n \in Number : WF_vars(Restock(n))

LiveSpec == Spec /\ Clicked

-----------------------------------------------------------------------------
(* The forwarding step, and what follows it, is only ever reached by a     *)
(* business that has had a number to forward to ("requires an assigned     *)
(* number", step/route.ts:12), however late the step is written.           *)
HadNumber == \A b \in Business : step[b] \in {"3", "4", "done"} => b \in had

(* Nobody is sent back to the forms before a number: not by the info page  *)
(* submitted again, not by a request decided on long ago.                  *)
NeverRestarts ==
    [][\A b \in Business :
          /\ step[b] \in Step \ {"1"} => step'[b] \in Step \ {"1"}
          /\ step[b] \in {"3", "4", "done"} => step'[b] \in {"3", "4", "done"}]_vars

(* Whatever is released, restarted or written late, the setup of an owner  *)
(* who keeps clicking ends, and stays ended, unless the owner is left at   *)
(* the forwarding step without a number for good: the page has no button   *)
(* then.                                                                   *)
Onboarded ==
    \A b \in Business :
        <>[](step[b] # None)
        => <>[](step[b] = "done") \/ <>[](step[b] = "3" /\ ~HasNumber(b))

(* "Only the exact next transition is allowed (no skipping, no going back)"*)
(* (step/route.ts:11).  It does not hold: see the README.                  *)
OnlyNextTransition ==
    [][\A b \in Business :
          step[b] # None /\ step'[b] # step[b]
          => <<step[b], step'[b]>> \in Allowed \cup {<<"1", "2">>}]_vars
=============================================================================
