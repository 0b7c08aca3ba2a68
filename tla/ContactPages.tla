------------------------------ MODULE ContactPages ------------------------------
(***************************************************************************)
(* The contacts: the gate before their pages (OnboardingGate and the form  *)
(* it shows), the page that adds one (contacts/new), the list with its     *)
(* edit form and history panel (ContactDashboard), and the routes below    *)
(* /api/contacts and /api/client.                                          *)
(*                                                                         *)
(* One visit of one of the pages, with the session cookie of some          *)
(* business: contacts and profile are the same rows for all of them.       *)
(* Other browsers write to them meanwhile; requests of this one overlap,   *)
(* are answered in any order, and are lost on the way there or back.       *)
(***************************************************************************)
EXTENDS Naturals

CONSTANTS
    Contact,        \* ids, randomUUID()
    Value,          \* what a contact's fields may say
    Watched,        \* one of them, whose way to the list is followed
    Flight,         \* bound: requests of the page in flight at the same time
    MaxWrites,      \* bound: writes to contacts and activity
    None

VARIABLES
    rows,           \* table contacts
    born,           \* ids given out so far
    logs,           \* contacts with a row in activity_logs
    profile,        \* there is a client_profile
    visit,          \* "list", "new" or "left"
    gate,           \* the state of OnboardingGate and its form
    list,           \* contacts
    loading,
    failed,         \* the last request to end, ended without an answer
    form,           \* the mounted ContactForm
    acting,         \* the rows whose "Log Call" waits
    panel,          \* the history panel
    flight,         \* requests in flight
    writes

store == <<rows, born, logs, profile>>
page  == <<visit, gate, list, loading, failed, form, acting, panel>>
vars  == <<store, page, flight, writes>>

Idle  == [what |-> "idle"]
List  == [Contact -> Value \cup {None}]
Empty == [c \in Contact |-> None]
Calm  == [c \in Contact |-> None]

Kind == {"list", "create", "put", "delete", "log", "history", "profile", "save"}

(* A request, as it is on its way, half handled, or answered.              *)
Request ==
    [what : Kind, state : {"sent", "read", "ok", "refused"},
     of : Contact \cup {None}, value : Value \cup {None}, data : List \cup Contact \cup {None}]

Sent(what, c, v) == [what |-> what, state |-> "sent", of |-> c, value |-> v, data |-> None]

TypeOK ==
    /\ rows \in List
    /\ born \subseteq Contact
    /\ logs \subseteq Contact
    /\ profile \in BOOLEAN
    /\ visit \in {"list", "new", "left"}
    /\ gate \in {"loading", "form", "creating", "open"}
    /\ list \in List
    /\ loading \in BOOLEAN
    /\ failed \in BOOLEAN
    /\ form \in [for : Contact \cup {None}, draft : Value, waits : Flight \cup {None}]
                \cup {None}
    /\ acting \in [Contact -> Flight \cup {None}]
    /\ panel \in [of : Contact, busy : BOOLEAN, shows : Contact \cup {None}] \cup {None}
    /\ flight \in [Flight -> Request \cup {Idle}]
    /\ writes \in 0 .. MaxWrites

Init ==
    /\ \E C \in SUBSET Contact :
           /\ rows \in [Contact -> Value \cup {None}]
           /\ \A c \in Contact : rows[c] # None <=> c \in C
           /\ born = C
    /\ logs = {}
    /\ profile \in BOOLEAN
    /\ visit \in {"list", "new"}
    /\ gate = "loading"
    /\ list = Empty
    /\ loading = TRUE
    /\ failed = FALSE
    /\ form = None
    /\ acting = Calm
    /\ panel = None
    /\ \E f \in Flight :
           flight = [g \in Flight |-> IF g = f THEN Sent("profile", None, None) ELSE Idle]
    /\ writes = 0

-----------------------------------------------------------------------------
(* The gate, which opens once, and the page behind it.                     *)

(* What is mounted when the gate opens: the list asks for the contacts     *)
(* with the flight that opened it, the new-contact page has an empty form. *)
Opens(f) ==
    /\ gate' = "open"
    /\ IF visit = "list"
       THEN flight' = [flight EXCEPT ![f] = Sent("list", None, None)] /\ UNCHANGED form
       ELSE /\ flight' = [flight EXCEPT ![f] = Idle]
            /\ \E v \in Value : form' = [for |-> None, draft |-> v, waits |-> None]

(* GET /api/client: a refusal is an answer too, and opens the gate; no     *)
(* profile and no answer look the same.                                    *)
GateAnswered(f) ==
    /\ flight[f].what = "profile"
    /\ flight[f].state \in {"ok", "refused"}
    /\ IF flight[f].state = "ok" /\ flight[f].data = None
       THEN gate' = "form" /\ flight' = [flight EXCEPT ![f] = Idle] /\ UNCHANGED form
       ELSE Opens(f)
    /\ UNCHANGED <<store, visit, list, loading, failed, acting, panel, writes>>

GateLost(f) ==
    /\ flight[f].what = "profile"
    /\ flight' = [flight EXCEPT ![f] = Idle]
    /\ gate' = "form"
    /\ UNCHANGED <<store, visit, list, loading, failed, form, acting, panel, writes>>

SubmitProfile(f) ==
    /\ gate = "form"
    /\ flight[f] = Idle
    /\ gate' = "creating"
    /\ flight' = [flight EXCEPT ![f] = Sent("save", None, None)]
    /\ UNCHANGED <<store, visit, list, loading, failed, form, acting, panel, writes>>

ProfileSaved(f) ==
    /\ flight[f].what = "save"
    /\ flight[f].state = "ok"
    /\ Opens(f)
    /\ UNCHANGED <<store, visit, list, loading, failed, acting, panel, writes>>

ProfileFails(f) ==
    /\ flight[f].what = "save"
    /\ gate' = "form"
    /\ flight' = [flight EXCEPT ![f] = Idle]
    /\ UNCHANGED <<store, visit, list, loading, failed, form, acting, panel, writes>>

-----------------------------------------------------------------------------
(* The forms.                                                              *)

(* No row is rendered while the list loads.                                *)
Shown(c) == gate = "open" /\ visit = "list" /\ ~loading /\ list[c] # None

(* The form is mounted once: a second "Edit" changes the contact it is     *)
(* for and leaves what is in its fields.                                   *)
Edit(c) ==
    /\ Shown(c)
    /\ form' = IF form = None THEN [for |-> c, draft |-> list[c], waits |-> None]
               ELSE [form EXCEPT !.for = c]
    /\ UNCHANGED <<store, visit, gate, list, loading, failed, acting, panel, flight, writes>>

Type(v) ==
    /\ form # None
    /\ form.draft # v
    /\ form' = [form EXCEPT !.draft = v]
    /\ UNCHANGED <<store, visit, gate, list, loading, failed, acting, panel, flight, writes>>

Cancel ==
    /\ form # None
    /\ visit = "list"
    /\ form' = None
    /\ UNCHANGED <<store, visit, gate, list, loading, failed, acting, panel, flight, writes>>

Submit(f) ==
    /\ form # None
    /\ form.waits = None
    /\ flight[f] = Idle
    /\ writes < MaxWrites
    /\ writes' = writes + 1
    /\ form' = [form EXCEPT !.waits = f]
    /\ flight' = [flight EXCEPT ![f] =
           Sent(IF visit = "new" THEN "create" ELSE "put", form.for, form.draft)]
    /\ UNCHANGED <<store, visit, gate, list, loading, failed, acting, panel>>

(* Buttons of a row.                                                       *)
Delete(f, c) ==
    /\ Shown(c)
    /\ flight[f] = Idle
    /\ writes < MaxWrites
    /\ writes' = writes + 1
    /\ flight' = [flight EXCEPT ![f] = Sent("delete", c, None)]
    /\ UNCHANGED <<store, page>>

LogCall(f, c) ==
    /\ Shown(c)
    /\ acting[c] = None
    /\ flight[f] = Idle
    /\ writes < MaxWrites
    /\ writes' = writes + 1
    /\ acting' = [acting EXCEPT ![c] = f]
    /\ flight' = [flight EXCEPT ![f] = Sent("log", c, None)]
    /\ UNCHANGED <<store, visit, gate, list, loading, failed, form, panel>>

ViewHistory(f, c) ==
    /\ Shown(c)
    /\ panel = None
    /\ flight[f] = Idle
    /\ panel' = [of |-> c, busy |-> TRUE, shows |-> None]
    /\ flight' = [flight EXCEPT ![f] = Sent("history", c, None)]
    /\ UNCHANGED <<store, visit, gate, list, loading, failed, form, acting, writes>>

CloseHistory ==
    /\ panel # None
    /\ panel' = None
    /\ UNCHANGED <<store, visit, gate, list, loading, failed, form, acting, flight, writes>>

(* refresh(): the rows disappear until the answer.                         *)
Reloads(f) ==
    /\ flight' = [flight EXCEPT ![f] = Sent("list", None, None)]
    /\ loading' = TRUE
    /\ acting' = Calm

Refresh(f) ==
    /\ gate = "open"
    /\ visit = "list"
    /\ flight[f] = Idle
    /\ Reloads(f)
    /\ UNCHANGED <<store, visit, gate, list, failed, form, panel, writes>>

-----------------------------------------------------------------------------
(* The routes.  Every one but log-call wants the session; log-call wants   *)
(* the token of the deployment, which the browser may not have.            *)

Handled(f, state, data) ==
    flight' = [flight EXCEPT ![f] = [@ EXCEPT !.state = state, !.data = data]]

ServerReads(f) ==
    /\ flight[f].what \in {"list", "history", "profile"}
    /\ flight[f].state = "sent"
    /\ \/ /\ flight[f].what = "list"
          /\ Handled(f, "ok", rows)
       \/ /\ flight[f].what = "history"
          /\ Handled(f, "ok", IF flight[f].of \in logs THEN flight[f].of ELSE None)
       \/ /\ flight[f].what = "profile"
          /\ Handled(f, "ok", IF profile THEN Empty ELSE None)
       \/ Handled(f, "refused", None)
    /\ UNCHANGED <<store, page, writes>>

(* The one row, written over whatever it said.                             *)
SaveClientProfile == profile' = TRUE

SavesProfile(f) ==
    /\ flight[f].what = "save"
    /\ flight[f].state = "sent"
    /\ SaveClientProfile
    /\ Handled(f, "ok", None)
    /\ UNCHANGED <<rows, born, logs, page, writes>>

(* INSERT, under an id never used.                                         *)
CreateContact(v) ==
    \E c \in Contact \ born :
        /\ rows' = [rows EXCEPT ![c] = v]
        /\ born' = born \cup {c}

Creates(f) ==
    /\ flight[f].what = "create"
    /\ flight[f].state = "sent"
    /\ CreateContact(flight[f].value)
    /\ Handled(f, "ok", None)
    /\ UNCHANGED <<logs, profile, page, writes>>

(* Mutant of Found: the route writes whatever it is given.                  *)
FoundAlways(row) == TRUE

(* getContactById() before a write.                                        *)
Found(row) == row # None

UpdateContact(c, v) == rows' = [rows EXCEPT ![c] = IF Found(@) THEN v ELSE @]

(* PUT, in one go once the body is read.                                   *)
PutsContact(f) ==
    LET c == flight[f].of IN
    /\ flight[f].what = "put"
    /\ flight[f].state = "sent"
    /\ UpdateContact(c, flight[f].value)
    /\ Handled(f, IF Found(rows[c]) THEN "ok" ELSE "refused", None)
    /\ UNCHANGED <<born, logs, profile, page, writes>>

(* log-call looks for the contact before it waits for the body.            *)
FindsForLog(f) ==
    /\ flight[f].what = "log"
    /\ flight[f].state = "sent"
    /\ \/ Found(rows[flight[f].of]) /\ Handled(f, "read", None)
       \/ Handled(f, "refused", None)
    /\ UNCHANGED <<store, page, writes>>

(* No foreign key asks whether the contact is still there.                 *)
AddActivityLog(c) == logs' = logs \cup {c}

WritesLog(f) ==
    /\ flight[f].what = "log"
    /\ flight[f].state = "read"
    /\ AddActivityLog(flight[f].of)
    /\ Handled(f, "ok", None)
    /\ UNCHANGED <<rows, born, profile, page, writes>>

DeleteContact(c) == rows' = [rows EXCEPT ![c] = None]

DeletesContact(f) ==
    /\ flight[f].what = "delete"
    /\ flight[f].state = "sent"
    /\ DeleteContact(flight[f].of)
    /\ Handled(f, IF rows[flight[f].of] = None THEN "refused" ELSE "ok", None)
    /\ UNCHANGED <<born, logs, profile, page, writes>>

OtherBrowser(c) ==
    /\ writes < MaxWrites
    /\ writes' = writes + 1
    /\ \/ /\ rows[c] # None
          /\ \E v \in (Value \cup {None}) \ {rows[c]} : rows' = [rows EXCEPT ![c] = v]
          /\ UNCHANGED born
       \/ /\ c \notin born
          /\ born' = born \cup {c}
          /\ \E v \in Value : rows' = [rows EXCEPT ![c] = v]
    /\ UNCHANGED <<logs, profile, page, flight>>

-----------------------------------------------------------------------------
(* The answers.                                                            *)

Free(f) == [c \in Contact |-> IF acting[c] = f THEN None ELSE acting[c]]

Ends(f) == flight' = [flight EXCEPT ![f] = Idle]

ListArrives(f) ==
    /\ flight[f].what = "list"
    /\ flight[f].state \in {"ok", "refused"}
    /\ list' = IF flight[f].state = "ok" THEN flight[f].data ELSE list
    /\ loading' = FALSE
    /\ failed' = (flight[f].state = "refused")
    /\ Ends(f)
    /\ UNCHANGED <<store, visit, gate, form, acting, panel, writes>>

(* Whichever contact the panel is open for.                                *)
HistoryArrives(f) ==
    /\ flight[f].what = "history"
    /\ flight[f].state \in {"ok", "refused"}
    /\ panel' = IF panel = None THEN None
                ELSE [panel EXCEPT !.busy = FALSE, !.shows = flight[f].data]
    /\ Ends(f)
    /\ UNCHANGED <<store, visit, gate, list, loading, failed, form, acting, writes>>

(* The form of the list closes, for whichever contact it is open now.      *)
FormAfter(f, saved) ==
    form' = IF saved THEN None
            ELSE IF form # None /\ form.waits = f THEN [form EXCEPT !.waits = None]
            ELSE form

(* Mutant of Continues: the list is not asked for again.                   *)
ContinuesSilently(f) == Ends(f) /\ UNCHANGED <<loading, acting>>

(* After a change the list is asked for again.                             *)
Continues(f) == Reloads(f)

ChangeArrives(f) ==
    /\ flight[f].what \in {"put", "delete", "log"}
    /\ flight[f].state = "ok"
    /\ FormAfter(f, flight[f].what = "put")
    /\ Continues(f)
    /\ UNCHANGED <<store, visit, gate, list, failed, panel, writes>>

RefusalArrives(f) ==
    /\ flight[f].what \in {"put", "delete", "log"}
    /\ flight[f].state = "refused"
    /\ FormAfter(f, FALSE)
    /\ acting' = Free(f)
    /\ Ends(f)
    /\ UNCHANGED <<store, visit, gate, list, loading, failed, panel, writes>>

CreatedArrives(f) ==
    /\ flight[f].what = "create"
    /\ flight[f].state = "ok"
    /\ visit' = "left"
    /\ FormAfter(f, TRUE)
    /\ Ends(f)
    /\ UNCHANGED <<store, gate, list, loading, failed, acting, panel, writes>>

(* No answer: the form, the row and the list are free again, and what the  *)
(* request did is not known.                                               *)
Lost(f) ==
    /\ flight[f] # Idle
    /\ flight[f].what \notin {"profile", "save"}
    /\ FormAfter(f, FALSE)
    /\ acting' = Free(f)
    /\ loading' = IF flight[f].what = "list" THEN FALSE ELSE loading
    /\ panel' = IF panel # None /\ flight[f].what = "history"
                THEN [panel EXCEPT !.busy = FALSE, !.shows = None] ELSE panel
    /\ failed' = TRUE
    /\ Ends(f)
    /\ UNCHANGED <<store, visit, gate, list, writes>>

Server(f) ==
    \/ ServerReads(f) \/ SavesProfile(f) \/ Creates(f) \/ PutsContact(f)
    \/ FindsForLog(f) \/ WritesLog(f) \/ DeletesContact(f)

Arrives(f) ==
    \/ GateAnswered(f) \/ ProfileSaved(f) \/ ListArrives(f) \/ HistoryArrives(f)
    \/ ChangeArrives(f) \/ RefusalArrives(f) \/ CreatedArrives(f)

Next ==
    \/ \E f \in Flight :
           \/ Server(f) \/ Arrives(f) \/ Lost(f) \/ GateLost(f) \/ ProfileFails(f)
           \/ SubmitProfile(f) \/ Submit(f) \/ Refresh(f)
    \/ \E c \in Contact : Edit(c) \/ OtherBrowser(c)
    \/ \E f \in Flight, c \in Contact : Delete(f, c) \/ LogCall(f, c) \/ ViewHistory(f, c)
    \/ \E v \in Value : Type(v)
    \/ Cancel
    \/ CloseHistory

(* Requests are served, and answers come or fail to.  Nobody has to press  *)
(* "Refresh".                                                              *)
Fairness ==
    \A f \in Flight : WF_vars(Server(f)) /\ WF_vars(Arrives(f) \/ Lost(f))

Spec == Init /\ [][Next]_vars /\ Fairness

-----------------------------------------------------------------------------
DeletedStays == \A c \in born : rows[c] = None => rows'[c] = None

(* A deleted contact stays deleted: an edit whose form was opened before   *)
(* it was deleted, here or in another browser, does not bring it back.     *)
NoResurrection == [][DeletedStays]_vars

Saved(c) ==
    \E f \in Flight :
        /\ flight[f].what = "put"
        /\ flight[f].state = "ok"
        /\ flight[f].of = c
        /\ flight[f].value = Watched

ShownOrPast(c) == list[c] = Watched \/ rows[c] # Watched \/ failed

(* A change that was saved is seen: the list comes to show it, without a   *)
(* press of "Refresh", unless the row is changed again or a request fails. *)
SavedIsShown == \A c \in Contact : Saved(c) ~> ShownOrPast(c)
=============================================================================
