-------------------------------- MODULE LeadDesk --------------------------------
(***************************************************************************)
(* Leads and the waitlist: the public forms (StartForm, WaitlistForm) with *)
(* their routes POST /api/leads and POST /api/waitlist, and the operators  *)
(* who work the leads at /admin/leads with a LeadStatusSelect per row, the *)
(* route PATCH /api/admin/leads/[id], its entry in the audit trail, and    *)
(* the admin session each request needs.                                   *)
(*                                                                         *)
(* A handler runs without interruption once it has its body; the process   *)
(* may die in the middle of it.  A browser may hear nothing of a request   *)
(* that the server handles, then or later.                                 *)
(***************************************************************************)
EXTENDS Naturals

CONSTANTS
    Visitor,        \* browsers of prospects, each with an address of its own
    Lead,           \* ids of rows
    Admin,          \* browsers of operators
    Status,
    NewStatus,      \* "new"
    Limit,          \* SUBMISSION_LIMIT
    MaxPicks,       \* bound: statuses picked
    None

VARIABLES
    from,           \* table leads: whose details the row has, None before it
    status,         \* ... and its column status
    joined,         \* table waitlist: whose e-mail addresses it has
    bucket,         \* rate-limit.ts: submissions in the present window
    page,           \* the form each visitor is at
    form,           \* what it shows
    post,           \* its request
    session,        \* browsers whose admin cookie verifies
    select,         \* LeadStatusSelect of each row, None where not rendered
    patch,          \* its request
    late,           \* requests whose browser has given up, still to be handled
    audit,          \* admin_audit_log: the statuses entered for each lead
    was,            \* history: the statuses each lead has had
    picks

publicVars == <<page, bucket, form, post, joined>>
deskVars   == <<session, select, patch, picks>>
vars       == <<publicVars, deskVars, from, status, late, audit, was>>

Kind == {"start", "waitlist"}

TypeOK ==
    /\ from \in [Lead -> Visitor \cup {None}]
    /\ status \in [Lead -> Status]
    /\ joined \subseteq Visitor
    /\ bucket \in [Visitor -> 0 .. Limit]
    /\ page \in [Visitor -> Kind]
    /\ form \in [Visitor -> {"form", "sending", "thanked", "failed"}]
    /\ post \in [Visitor -> {"none", "sent", "ok", "refused"}]
    /\ session \subseteq Admin
    /\ select \in [Admin -> [Lead -> {None} \cup
           [value : Status, previous : Status, busy : BOOLEAN, error : BOOLEAN]]]
    /\ patch \in [Admin -> [Lead -> {None} \cup
           [to : Status, state : {"sent", "ok", "refused"}]]]
    /\ late \subseteq Visitor \cup (Lead \X Status)
    /\ audit \in [Lead -> SUBSET Status]
    /\ was \in [Lead -> SUBSET Status]
    /\ picks \in 0 .. MaxPicks

Init ==
    /\ from = [l \in Lead |-> None]
    /\ status = [l \in Lead |-> NewStatus]
    /\ joined = {}
    /\ bucket = [v \in Visitor |-> 0]
    /\ page \in [Visitor -> Kind]
    /\ form = [v \in Visitor |-> "form"]
    /\ post = [v \in Visitor |-> "none"]
    /\ session = {}
    /\ select = [a \in Admin |-> [l \in Lead |-> None]]
    /\ patch = [a \in Admin |-> [l \in Lead |-> None]]
    /\ late = {}
    /\ audit = [l \in Lead |-> {}]
    /\ was = [l \in Lead |-> {NewStatus}]
    /\ picks = 0

-----------------------------------------------------------------------------
(* The visitor submits, again after a failure.                             *)
Submit(v) ==
    /\ form[v] \in {"form", "failed"}
    /\ form' = [form EXCEPT ![v] = "sending"]
    /\ post' = [post EXCEPT ![v] = "sent"]
    /\ UNCHANGED <<page, bucket, joined, deskVars, from, status, late, audit, was>>

(* createLead(): a row of its own for every submission.                    *)
CreateLead(v) ==
    \E l \in Lead :
        /\ from[l] = None
        /\ from' = [from EXCEPT ![l] = v]
        /\ UNCHANGED joined

(* addWaitlistSignup(): one row per address.                               *)
AddWaitlistSignup(v) ==
    /\ joined' = joined \cup {v}
    /\ UNCHANGED from

(* Only the route of leads has a limit.                                    *)
Passes(v) ==
    /\ page[v] = "start" => bucket[v] < Limit
    /\ bucket' = IF page[v] = "start" THEN [bucket EXCEPT ![v] = @ + 1] ELSE bucket

(* POST /api/leads, after which notifyNewLead() may or may not reach the   *)
(* operator, and POST /api/waitlist.                                       *)
Accepted(v) ==
    /\ Passes(v)
    /\ IF page[v] = "start" THEN CreateLead(v) ELSE AddWaitlistSignup(v)

ServerAccepts(v) ==
    /\ post[v] = "sent"
    /\ Accepted(v)
    /\ post' = [post EXCEPT ![v] = "ok"]
    /\ UNCHANGED <<page, form, deskVars, status, late, audit, was>>

(* Too many from this address: 429.                                        *)
ServerLimits(v) ==
    /\ post[v] = "sent"
    /\ page[v] = "start"
    /\ bucket[v] = Limit
    /\ post' = [post EXCEPT ![v] = "refused"]
    /\ UNCHANGED <<page, bucket, form, joined, deskVars, from, status, late, audit, was>>

(* Not a name, a phone number or an address: 400, one slot of the limit.   *)
ServerRejects(v) ==
    /\ post[v] = "sent"
    /\ Passes(v)
    /\ post' = [post EXCEPT ![v] = "refused"]
    /\ UNCHANGED <<page, form, joined, deskVars, from, status, late, audit, was>>

(* Mutant of FormAfter: any answer is one of success.                      *)
ThanksForAnyAnswer(answer) == "thanked"

FormAfter(answer) == IF answer = "ok" THEN "thanked" ELSE "failed"

AnswerArrives(v) ==
    /\ post[v] \in {"ok", "refused"}
    /\ form' = [form EXCEPT ![v] = FormAfter(post[v])]
    /\ post' = [post EXCEPT ![v] = "none"]
    /\ UNCHANGED <<page, bucket, joined, deskVars, from, status, late, audit, was>>

(* No answer, to a request that is gone or on its way.                     *)
AnswerLost(v) ==
    /\ post[v] # "none"
    /\ form' = [form EXCEPT ![v] = "failed"]
    /\ post' = [post EXCEPT ![v] = "none"]
    /\ late' \in {late} \cup (IF post[v] = "sent" THEN {late \cup {v}} ELSE {})
    /\ UNCHANGED <<page, bucket, joined, deskVars, from, status, audit, was>>

LateSubmission(v) ==
    /\ v \in late
    /\ late' = late \ {v}
    /\ Accepted(v)
    /\ UNCHANGED <<page, form, post, deskVars, status, audit, was>>

(* A new window, or a new process.                                         *)
WindowEnds(v) ==
    /\ bucket[v] # 0
    /\ bucket' = [bucket EXCEPT ![v] = 0]
    /\ UNCHANGED <<page, form, post, joined, deskVars, from, status, late, audit, was>>

-----------------------------------------------------------------------------
(* POST /api/admin/login with the right password: a token for eight hours. *)
SignIn(a) ==
    /\ a \notin session
    /\ session' = session \cup {a}
    /\ select' = [select EXCEPT ![a] = [l \in Lead |-> None]]
    /\ patch' = [patch EXCEPT ![a] = [l \in Lead |-> None]]
    /\ UNCHANGED <<publicVars, picks, from, status, late, audit, was>>

(* The token expires while the page is open.                               *)
SessionExpires(a) ==
    /\ a \in session
    /\ session' = session \ {a}
    /\ UNCHANGED <<publicVars, select, patch, picks, from, status, late, audit, was>>

(* AdminLogoutButton leaves the page, whether or not the request arrived   *)
(* that clears the cookie.                                                 *)
SignOut(a) ==
    /\ select[a] # [l \in Lead |-> None]
    /\ session' \in {session, session \ {a}}
    /\ select' = [select EXCEPT ![a] = [l \in Lead |-> None]]
    /\ patch' = [patch EXCEPT ![a] = [l \in Lead |-> None]]
    /\ UNCHANGED <<publicVars, picks, from, status, late, audit, was>>

(* /admin/leads is rendered, or rendered again by router.refresh(): a row  *)
(* that the page has already keeps its select, whose state is not that of  *)
(* the row any more.                                                       *)
Rendered(a) ==
    [l \in Lead |->
        IF from[l] = None \/ select[a][l] # None THEN select[a][l]
        ELSE [value |-> status[l], previous |-> status[l], busy |-> FALSE,
              error |-> FALSE]]

Render(a) ==
    /\ a \in session
    /\ Rendered(a) # select[a]
    /\ select' = [select EXCEPT ![a] = Rendered(a)]
    /\ UNCHANGED <<publicVars, session, patch, picks, from, status, late, audit, was>>

(* update(): the select moves as soon as a status is picked.               *)
Pick(a, l, s) ==
    /\ select[a][l] # None
    /\ ~select[a][l].busy
    /\ select[a][l].value # s
    /\ picks < MaxPicks
    /\ picks' = picks + 1
    /\ select' = [select EXCEPT ![a][l] =
           [value |-> s, previous |-> @.value, busy |-> TRUE, error |-> FALSE]]
    /\ patch' = [patch EXCEPT ![a][l] = [to |-> s, state |-> "sent"]]
    /\ UNCHANGED <<publicVars, session, from, status, late, audit, was>>

-----------------------------------------------------------------------------
(* setLeadStatus(), then logAdminAction(), which is best effort: it fails  *)
(* without a word, or the process dies before it.                          *)
SetLeadStatus(l, s, whole) ==
    /\ status' = [status EXCEPT ![l] = s]
    /\ was' = [was EXCEPT ![l] = @ \cup {s}]
    /\ audit' = IF whole THEN [audit EXCEPT ![l] = @ \cup {s}] ELSE audit

ServerSets(a, l) ==
    /\ patch[a][l] # None
    /\ patch[a][l].state = "sent"
    /\ a \in session
    /\ \E whole \in BOOLEAN : SetLeadStatus(l, patch[a][l].to, whole)
    /\ patch' = [patch EXCEPT ![a][l].state = "ok"]
    /\ UNCHANGED <<publicVars, session, select, picks, from, late>>

(* requireAdminApi(): 401.                                                 *)
ServerRefuses(a, l) ==
    /\ patch[a][l] # None
    /\ patch[a][l].state = "sent"
    /\ a \notin session
    /\ patch' = [patch EXCEPT ![a][l].state = "refused"]
    /\ UNCHANGED <<publicVars, session, select, picks, from, status, late, audit, was>>

LatePatch(l, s) ==
    /\ <<l, s>> \in late
    /\ late' = late \ {<<l, s>>}
    /\ \E whole \in BOOLEAN : SetLeadStatus(l, s, whole)
    /\ UNCHANGED <<publicVars, deskVars, from>>

(* Mutant of Undone: the select stays where it was put.                    *)
NotUndone(x) == [x EXCEPT !.busy = FALSE, !.error = TRUE]

Undone(x) == [x EXCEPT !.value = x.previous, !.busy = FALSE, !.error = TRUE]

(* An answer of success also refreshes the page.                           *)
PatchArrives(a, l) ==
    /\ patch[a][l] # None
    /\ patch[a][l].state \in {"ok", "refused"}
    /\ patch' = [patch EXCEPT ![a][l] = None]
    /\ select' = IF patch[a][l].state = "ok"
                 THEN [select EXCEPT ![a] = [Rendered(a) EXCEPT ![l].busy = FALSE]]
                 ELSE [select EXCEPT ![a][l] = Undone(@)]
    /\ UNCHANGED <<publicVars, session, picks, from, status, late, audit, was>>

PatchLost(a, l) ==
    /\ patch[a][l] # None
    /\ patch' = [patch EXCEPT ![a][l] = None]
    /\ select' = [select EXCEPT ![a][l] = Undone(@)]
    /\ late' \in {late} \cup
           (IF patch[a][l].state = "sent" /\ a \in session
            THEN {late \cup {<<l, patch[a][l].to>>}} ELSE {})
    /\ UNCHANGED <<publicVars, session, picks, from, status, audit, was>>

Next ==
    \/ \E v \in Visitor :
           \/ Submit(v) \/ ServerAccepts(v) \/ ServerLimits(v) \/ ServerRejects(v)
           \/ AnswerArrives(v) \/ AnswerLost(v) \/ LateSubmission(v)
           \/ WindowEnds(v)
    \/ \E a \in Admin : SignIn(a) \/ SessionExpires(a) \/ SignOut(a) \/ Render(a)
    \/ \E a \in Admin, l \in Lead :
           \/ \E s \in Status : Pick(a, l, s)
           \/ ServerSets(a, l) \/ ServerRefuses(a, l) \/ PatchArrives(a, l)
           \/ PatchLost(a, l)
    \/ \E l \in Lead, s \in Status : LatePatch(l, s)

Spec == Init /\ [][Next]_vars

-----------------------------------------------------------------------------
(* A visitor who reads "Thanks" or "You're on the list" is in the table,   *)
(* whatever was lost, refused or retried on the way.                       *)
ThankedIsStored ==
    \A v \in Visitor : form[v] = "thanked" =>
        IF page[v] = "start" THEN \E l \in Lead : from[l] = v ELSE v \in joined

(* A status that an operator is shown is one that the lead has had: one    *)
(* which was picked, refused or lost, and never stored, is taken back by   *)
(* the select once it is at rest, and the audit trail names no change that *)
(* did not happen, wherever the process died.  (What a select shows need   *)
(* not be the present status, see the README.)                             *)
ShownWasHad ==
    \A l \in Lead :
        /\ audit[l] \subseteq was[l]
        /\ \A a \in Admin :
               (select[a][l] # None /\ ~select[a][l].busy)
                   => select[a][l].value \in was[l]
=============================================================================
