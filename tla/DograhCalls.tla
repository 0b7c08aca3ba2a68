----------------------------- MODULE DograhCalls -----------------------------
(***************************************************************************)
(* The end-of-call webhook: src/lib/dograh-webhook.ts, its route, and the  *)
(* rows of calls and settings it writes (src/lib/db.ts).                   *)
(*                                                                         *)
(* Dograh reports a call any number of times, with more or fewer of its    *)
(* fields filled in.  The number the caller dialled picks the business, as *)
(* the pool lends it at that moment, so a report delivered again may find  *)
(* another one.  The owner's e-mail and push are sent after the response,  *)
(* by tasks that die with the process and whose answers come late; the     *)
(* token they use is the one row of settings that every business shares.   *)
(***************************************************************************)
CONSTANTS
    Business,
    Number,         \* CallFlow numbers
    Call,           \* Dograh callIds
    Dialled,        \* the number that was dialled in a call
    Field,          \* what a report may carry: "calledNumber" and details
    Kept,           \* the columns written COALESCE(@incoming, column)
    Token,          \* FCM registration tokens
    OwnerOf,        \* the business on whose device a token was registered
    NoToken,        \* settings.fcmToken = ''
    None

FollowUp == {"none", "needed", "resolved"}

TaskState == {"planned", "answered", "lost"}

Row == [business : Business \cup {None}, captured : SUBSET Field, followUp : FollowUp]

Alert == [to : Business, pc : TaskState]

Push == [to : Business, token : Token, pc : TaskState]

ASSUME CallsAssumption ==
    /\ Dialled \in [Call -> Number]
    /\ Kept \subseteq Field
    /\ OwnerOf \in [Token -> Business]
    /\ NoToken \notin Token
    /\ None \notin Business \cup Row \cup Alert \cup Push

VARIABLES
    borrower,   \* businesses.assignedNumber, by number
    borrowed,   \* history: every business that has had a number
    verifying,  \* businesses at onboardingStep '4'
    row,        \* table calls, by dograhRunId
    alert,      \* the owner's e-mail about a call
    push,       \* the owner's push about a call
    token,      \* settings.fcmToken
    mailable,   \* businesses with a notificationEmail or a billingEmail
    dead        \* FCM: tokens of devices that are gone

poolVars == <<borrower, borrowed>>
taskVars == <<alert, push>>
vars == <<poolVars, verifying, row, taskVars, token, mailable, dead>>

Pool == INSTANCE NumberOwnership WITH Nobody <- None

TypeOK ==
    /\ borrower \in [Number -> Business \cup {None}]
    /\ borrowed \in [Number -> SUBSET Business]
    /\ verifying \subseteq Business
    /\ row \in [Call -> Row \cup {None}]
    /\ alert \in [Call -> Alert \cup {None}]
    /\ push \in [Call -> Push \cup {None}]
    /\ mailable \subseteq Business
    /\ token \in Token \cup {NoToken}
    /\ dead \subseteq Token

Init ==
    /\ borrower = [n \in Number |-> None]
    /\ borrowed = [n \in Number |-> {}]
    /\ verifying = {}
    /\ row = [c \in Call |-> None]
    /\ alert = [c \in Call |-> None]
    /\ push = [c \in Call |-> None]
    /\ token = NoToken
    /\ mailable = {}
    /\ dead = {}

Stored == {c \in Call : row[c] # None}

-----------------------------------------------------------------------------
(* handleDograhWebhook.                                                    *)

(* Mutant of Match: a report without a called number goes to the first     *)
(* business there is.                                                      *)
MatchFirst(c, carried) ==
    IF "calledNumber" \in carried THEN borrower[Dialled[c]]
    ELSE CHOOSE b \in Business : TRUE

(* matchDograhBusiness: the business that has the dialled number now.      *)
Match(c, carried) ==
    IF "calledNumber" \in carried THEN borrower[Dialled[c]] ELSE None

(* Mutant of Upsert: a delivery keeps no column.                           *)
UpsertNoCoalesce(c, b, carried) ==
    IF row[c] = None
    THEN [business |-> b, captured |-> carried, followUp |-> "none"]
    ELSE [row[c] EXCEPT !.business = b, !.captured = carried]

(* upsertDograhCall: insert, or update in place: the link and most columns *)
(* are overwritten, the Kept ones only by a value, the owner's never.  The *)
(* outcome is no Field: toCallOutcome() always has one to write.           *)
Upsert(c, b, carried) ==
    IF row[c] = None
    THEN [business |-> b, captured |-> carried, followUp |-> "none"]
    ELSE [row[c] EXCEPT !.business = b,
                        !.captured = carried \cup (row[c].captured \cap Kept)]

(* Mutant of Created: a call whose e-mail was not answered is new again.   *)
CreatedUntilAnswered(c) ==
    row[c] = None \/ (alert[c] # None /\ alert[c].pc # "answered")

Created(c) == row[c] = None

PlanAlert(c, b) ==
    alert' = IF Created(c) /\ b \in mailable
             THEN [alert EXCEPT ![c] = [to |-> b, pc |-> "planned"]]
             ELSE alert

PlanPush(c, b) ==
    push' = IF Created(c) /\ b # None /\ token # NoToken
            THEN [push EXCEPT ![c] = [to |-> b, token |-> token, pc |-> "planned"]]
            ELSE push

Deliver(c, carried) ==
    LET b == Match(c, carried)
    IN  /\ verifying' = verifying \ {b}
        /\ row' = [row EXCEPT ![c] = Upsert(c, b, carried)]
        /\ PlanAlert(c, b)
        /\ PlanPush(c, b)
        /\ UNCHANGED <<poolVars, token, mailable, dead>>

(* onboardingStep is written, and the write of the call fails: 500.        *)
DeliverFails(c, carried) ==
    /\ verifying' = verifying \ {Match(c, carried)}
    /\ UNCHANGED <<poolVars, row, taskVars, token, mailable, dead>>

-----------------------------------------------------------------------------
(* What runs after the response.                                           *)

(* deliverOwnerEmail: SMTP answers, or is not configured; either is final. *)
AlertAnswered(c) ==
    /\ alert[c] # None /\ alert[c].pc = "planned"
    /\ alert' = [alert EXCEPT ![c].pc = "answered"]
    /\ UNCHANGED <<poolVars, verifying, row, push, token, mailable, dead>>

(* deliverOwnerPush: a token that FCM reports dead clears the settings.    *)
PushAnswered(c) ==
    /\ push[c] # None /\ push[c].pc = "planned"
    /\ push' = [push EXCEPT ![c].pc = "answered"]
    /\ token' = IF push[c].token \in dead THEN NoToken ELSE token
    /\ UNCHANGED <<poolVars, verifying, row, alert, mailable, dead>>

Lost(task) == [c \in Call |->
    IF task[c] # None /\ task[c].pc = "planned"
    THEN [task[c] EXCEPT !.pc = "lost"] ELSE task[c]]

(* The process stops; systemd starts another, which knows only the rows.   *)
Crash ==
    /\ alert' = Lost(alert)
    /\ push' = Lost(push)
    /\ UNCHANGED <<poolVars, verifying, row, token, mailable, dead>>

-----------------------------------------------------------------------------
(* The owners, the pool and FCM.                                           *)

(* PATCH /api/calls/[id] from a session of the business the call is of, or *)
(* with the bearer token, which has none.                                  *)
SetFollowUp(c, f) ==
    /\ row[c] # None
    /\ row' = [row EXCEPT ![c].followUp = f]
    /\ UNCHANGED <<poolVars, verifying, taskVars, token, mailable, dead>>

(* POST /api/settings from a browser of b: it always sends the token its   *)
(* local storage holds, none included, and the alert address if it shows.  *)
SaveSettings(b, t) ==
    /\ t \in {u \in Token : OwnerOf[u] = b} \cup {NoToken}
    /\ token' = t
    /\ mailable' \in {mailable, mailable \cup {b}, mailable \ {b}}
    /\ UNCHANGED <<poolVars, verifying, row, taskVars, dead>>

(* POST /api/onboarding/step: step 4 is reached, or skipped.               *)
OwnerSteps(b) ==
    /\ verifying' = IF b \in verifying THEN verifying \ {b} ELSE verifying \cup {b}
    /\ UNCHANGED <<poolVars, row, taskVars, token, mailable, dead>>

(* The pool lends and takes back numbers as NumberOwnership says it does.  *)
NumberMoves ==
    /\ Pool!Next
    /\ borrowed' = [n \in Number |-> borrowed[n] \cup ({borrower'[n]} \ {None})]
    /\ UNCHANGED <<verifying, row, taskVars, token, mailable, dead>>

Uninstall(t) ==
    /\ dead' = dead \cup {t}
    /\ UNCHANGED <<poolVars, verifying, row, taskVars, token, mailable>>

Next ==
    \/ \E c \in Call, carried \in SUBSET Field :
           Deliver(c, carried) \/ DeliverFails(c, carried)
    \/ \E c \in Call : AlertAnswered(c) \/ PushAnswered(c)
    \/ Crash
    \/ \E c \in Call, f \in FollowUp : SetFollowUp(c, f)
    \/ \E b \in Business, t \in Token \cup {NoToken} : SaveSettings(b, t)
    \/ \E b \in Business : OwnerSteps(b)
    \/ NumberMoves
    \/ \E t \in Token : Uninstall(t)

Spec == Init /\ [][Next]_vars

-----------------------------------------------------------------------------
(* A call is never shown or announced to a business that did not have the  *)
(* number dialled: not by a report without a number, not by a task that    *)
(* ends after the number has gone to somebody else.                        *)
OnlyToBorrowers ==
    \A c \in Call :
        LET had == borrowed[Dialled[c]]
        IN  /\ row[c] # None => row[c].business \in had \cup {None}
            /\ alert[c] # None => alert[c].to \in had
            /\ push[c] # None => push[c].to \in had

SettledOnce(task) ==
    \A c \in Call : task[c] # None =>
        /\ task'[c] # None
        /\ task'[c].to = task[c].to
        /\ task[c].pc # "planned" => task'[c] = task[c]

(* However often Dograh reports a call, and whatever dies meanwhile, its   *)
(* owner gets one e-mail and one push at most, and no other owner a second.*)
NotifiedOnce == [][SettledOnce(alert) /\ SettledOnce(push)]_vars

(* A report delivered again never blanks a COALESCEd column, and never     *)
(* touches what the owner wrote on the call: one of the two writers of the *)
(* row leaves the other's columns alone.                                   *)
RowKept ==
    [][\A c \in Stored :
          /\ row[c].captured \cap Kept \subseteq row'[c].captured
          /\ row'[c].followUp = row[c].followUp \/ row'[c].captured = row[c].captured]_vars
=============================================================================
