------------------------------- MODULE CallPages -------------------------------
(***************************************************************************)
(* The two pages that list an owner's calls - the dashboard                *)
(* (DashboardClient) and the call log (CallLogs) - with the follow-up      *)
(* controls under an opened call, GET /api/calls and PATCH /api/calls/:id. *)
(*                                                                         *)
(* One visit of one of the pages, in one tab.  Calls come in, and the      *)
(* owner's other devices write to them, meanwhile; requests overlap, are   *)
(* answered in any order, and are lost on the way there or back.           *)
(***************************************************************************)
EXTENDS Naturals

CONSTANTS
    Call,
    Notes,          \* what an owner may have written about a call
    NoNotes,        \* ... and nothing
    Filters,        \* bound: the filters tried
    Flight,         \* bound: requests of the page in flight at the same time
    MaxWrites,      \* bound: changes of follow-ups
    MaxTurns,       \* bound: presses before the answer to the last one
    None

VARIABLES
    rows,           \* the calls of the business, as stored
    session,        \* the browser has the session cookie of the business
    kind,           \* "dashboard" or "log"
    list,           \* calls
    loading,
    error,          \* of the dashboard, with its "Try again"
    filter,         \* followUpFilter
    open,           \* expanded
    controls,       \* the mounted FollowUpControls
    flight,         \* requests in flight
    writes,         \* changes of follow-ups so far
    turns           \* changes of the filter, "Try again" while loading

view == <<list, loading, error, filter, open, controls>>
vars == <<rows, session, kind, view, flight, writes, turns>>

Status == {"none", "needed", "resolved"}
Row    == [status : Status, notes : Notes]
List   == [Call -> Row \cup {None}]
Empty  == [c \in Call |-> None]
Update == [field : {"status"}, value : Status] \cup [field : {"notes"}, value : Notes]

Idle == [what |-> "idle"]

(* The list an effect asked for counts until the next effect run.  One     *)
(* that load() of the call log asked for counts always.                    *)
ListRequest ==
    [what : {"asks"}, effect : BOOLEAN, filter : Status \cup {"any"}]
    \cup [what : {"listed"}, effect : BOOLEAN, data : List \cup {None}]

PatchRequest ==
    [what : {"patches"}, call : Call, update : Update]
    \cup [what : {"patched"}, call : Call, row : Row \cup {None}]

Controls == [call : Call, draft : Notes, waits : Flight \cup {None}]

TypeOK ==
    /\ rows \in List
    /\ session \in BOOLEAN
    /\ kind \in {"dashboard", "log"}
    /\ list \in List
    /\ loading \in BOOLEAN
    /\ error \in BOOLEAN
    /\ filter \in Status \cup {"any"}
    /\ open \in Call \cup {None}
    /\ controls \in Controls \cup {None}
    /\ flight \in [Flight -> {Idle} \cup ListRequest \cup PatchRequest]
    /\ writes \in 0 .. MaxWrites
    /\ turns \in 0 .. MaxTurns

Asks(f, effect, fil) == [what |-> "asks", effect |-> effect, filter |-> fil]

(* The page is mounted: its effect asks for the list.                      *)
Init ==
    /\ rows \in [Call -> [status : Status, notes : {NoNotes}] \cup {None}]
    /\ session = TRUE
    /\ kind \in {"dashboard", "log"}
    /\ list = Empty
    /\ loading = TRUE
    /\ error = FALSE
    /\ filter = "any"
    /\ open = None
    /\ controls = None
    /\ \E f \in Flight :
           flight = [g \in Flight |-> IF g = f THEN Asks(f, TRUE, "any") ELSE Idle]
    /\ writes = 0
    /\ turns = 0

-----------------------------------------------------------------------------
(* Rendering.                                                              *)

(* The row of an opened call is on the page: the dashboard filters what it *)
(* has, the call log shows no rows while it loads.                         *)
Visible(l, busy, fil, c) ==
    /\ c # None
    /\ l[c] # None
    /\ IF kind = "dashboard" THEN fil \in {"any", l[c].status} ELSE ~busy

(* Controls live as long as their row is rendered; new ones start from the *)
(* notes the page has.                                                     *)
Render(l, busy, fil, c, known) ==
    /\ list' = l
    /\ loading' = busy
    /\ filter' = fil
    /\ open' = c
    /\ controls' =
           IF ~Visible(l, busy, fil, c) THEN None
           ELSE IF known # None /\ known.call = c THEN known
           ELSE [call |-> c, draft |-> l[c].notes, waits |-> None]

Expand(c) ==
    /\ Visible(list, loading, filter, c)
    /\ Render(list, loading, filter, IF open = c THEN None ELSE c, controls)
    /\ UNCHANGED <<rows, session, kind, error, flight, writes, turns>>

Type(n) ==
    /\ controls # None
    /\ controls' = [controls EXCEPT !.draft = n]
    /\ UNCHANGED <<rows, session, kind, list, loading, error, filter, open, flight, writes, turns>>

-----------------------------------------------------------------------------
(* The list.                                                               *)

(* A new effect run: the one before is cancelled, its answer dropped.      *)
Rerun(f, fil) ==
    flight' = [g \in Flight |->
        IF g = f THEN Asks(f, TRUE, fil)
        ELSE IF flight[g].what \in {"asks", "listed"} /\ flight[g].effect THEN Idle
        ELSE flight[g]]

(* Mutant of AskedFilter: load() keeps the filter of the first rendering.   *)
AskedFilterFirst == "any"

(* callUrl().                                                              *)
AskedFilter == IF kind = "log" THEN filter ELSE "any"

(* Refresh, which the dashboard disables while it loads, and its "Try      *)
(* again", which it does not.                                              *)
Refresh(f) ==
    /\ flight[f] = Idle
    /\ \/ /\ kind = "dashboard"
          /\ IF loading THEN error /\ turns < MaxTurns /\ turns' = turns + 1
             ELSE UNCHANGED turns
          /\ Rerun(f, "any")
       \/ /\ kind = "log"
          /\ flight' = [flight EXCEPT ![f] = Asks(f, FALSE, AskedFilter)]
          /\ UNCHANGED turns
    /\ Render(list, TRUE, filter, open, controls)
    /\ UNCHANGED <<rows, session, kind, error, writes>>

(* Another filter: the dashboard filters what it has, the log asks again.  *)
SetFilter(f, fil) ==
    /\ fil # filter
    /\ turns < MaxTurns
    /\ turns' = turns + 1
    /\ IF kind = "dashboard"
       THEN UNCHANGED flight
       ELSE flight[f] = Idle /\ Rerun(f, fil)
    /\ Render(list, loading, fil, open, controls)
    /\ UNCHANGED <<rows, session, kind, error, writes>>

(* GET /api/calls: the calls of the session's business, filtered.          *)
ServerLists(f) ==
    /\ flight[f].what = "asks"
    /\ flight' = [flight EXCEPT ![f] =
           [what |-> "listed", effect |-> @.effect,
            data |-> IF ~session THEN None
                     ELSE [c \in Call |->
                         IF rows[c] # None /\ @.filter \in {"any", rows[c].status}
                         THEN rows[c] ELSE None]]]
    /\ UNCHANGED <<rows, session, kind, view, writes, turns>>

(* Mutant of Settled: only a list ends the wait.                            *)
SettledByList(data) == data # None

(* .finally(): whatever the answer was.                                    *)
Settled(data) == TRUE

(* A refusal is an error on the dashboard, which keeps its calls, and an   *)
(* empty call log.                                                         *)
Takes(data) ==
    /\ Render(IF data # None THEN data ELSE IF kind = "dashboard" THEN list ELSE Empty,
              IF Settled(data) THEN FALSE ELSE loading, filter, open, controls)
    /\ error' = (kind = "dashboard" /\ data = None)

ListArrives(f) ==
    /\ flight[f].what = "listed"
    /\ Takes(flight[f].data)
    /\ flight' = [flight EXCEPT ![f] = Idle]
    /\ UNCHANGED <<rows, session, kind, writes, turns>>

ListLost(f) ==
    /\ flight[f].what \in {"asks", "listed"}
    /\ Takes(None)
    /\ flight' = [flight EXCEPT ![f] = Idle]
    /\ UNCHANGED <<rows, session, kind, writes, turns>>

-----------------------------------------------------------------------------
(* The follow-up of a call.                                                *)

(* A button that is not the status the page shows, or "Save notes" with    *)
(* notes that are not the ones it shows.                                   *)
Click(f, u) ==
    /\ controls # None
    /\ controls.waits = None
    /\ flight[f] = Idle
    /\ writes < MaxWrites
    /\ writes' = writes + 1
    /\ u.field = "status" => u.value # list[controls.call].status
    /\ u.field = "notes" => u.value = controls.draft /\ u.value # list[controls.call].notes
    /\ flight' = [flight EXCEPT ![f] =
           [what |-> "patches", call |-> controls.call, update |-> u]]
    /\ controls' = [controls EXCEPT !.waits = f]
    /\ UNCHANGED <<rows, session, kind, list, loading, error, filter, open, turns>>

(* Mutant of Patch: notes go to the column of the status.                   *)
PatchStatus(row, shown, u) == [row EXCEPT !.status = u.value]

(* Mutant of Patch: the page sends both fields, as it shows them.           *)
PatchBoth(row, shown, u) ==
    IF shown = None THEN [row EXCEPT ![u.field] = u.value]
    ELSE [shown EXCEPT ![u.field] = u.value]

(* The field that is not sent stays as it is stored.                       *)
Patch(row, shown, u) == [row EXCEPT ![u.field] = u.value]

(* PATCH /api/calls/:id, for a session only.                               *)
ServerPatches(f) ==
    LET c == flight[f].call
    IN  /\ flight[f].what = "patches"
        /\ \/ /\ session
              /\ rows' = [rows EXCEPT ![c] = Patch(@, list[c], flight[f].update)]
              /\ flight' = [flight EXCEPT ![f] =
                     [what |-> "patched", call |-> c, row |-> rows'[c]]]
           \/ /\ ~session
              /\ flight' = [flight EXCEPT ![f] =
                     [what |-> "patched", call |-> c, row |-> None]]
              /\ UNCHANGED rows
    /\ UNCHANGED <<session, kind, view, writes, turns>>

(* onUpdated replaces the call in the list, wherever it is now; the        *)
(* controls that sent it are free again, if they still are there.          *)
Answered(f, c, row) ==
    Render([list EXCEPT ![c] = IF @ # None /\ row # None THEN row ELSE @],
           loading, filter, open,
           IF controls # None /\ controls.waits = f
           THEN [controls EXCEPT !.waits = None] ELSE controls)

PatchArrives(f) ==
    /\ flight[f].what = "patched"
    /\ Answered(f, flight[f].call, flight[f].row)
    /\ flight' = [flight EXCEPT ![f] = Idle]
    /\ UNCHANGED <<rows, session, kind, error, writes, turns>>

PatchLost(f) ==
    /\ flight[f].what \in {"patches", "patched"}
    /\ Answered(f, flight[f].call, None)
    /\ flight' = [flight EXCEPT ![f] = Idle]
    /\ UNCHANGED <<rows, session, kind, error, writes, turns>>

-----------------------------------------------------------------------------
(* What happens elsewhere.                                                 *)

CallArrives(c) ==
    /\ rows[c] = None
    /\ rows' = [rows EXCEPT ![c] = [status |-> "none", notes |-> NoNotes]]
    /\ UNCHANGED <<session, kind, view, flight, writes, turns>>

OtherDevice(c, u) ==
    /\ rows[c] # None
    /\ writes < MaxWrites
    /\ writes' = writes + 1
    /\ rows' = [rows EXCEPT ![c] = Patch(@, None, u)]
    /\ UNCHANGED <<session, kind, view, flight, turns>>

SessionEnds ==
    /\ session
    /\ session' = FALSE
    /\ UNCHANGED <<rows, kind, view, flight, writes, turns>>

Next ==
    \/ \E c \in Call : Expand(c) \/ CallArrives(c)
    \/ \E n \in Notes : Type(n)
    \/ \E f \in Flight :
           \/ Refresh(f) \/ ServerLists(f) \/ ListArrives(f) \/ ListLost(f)
           \/ ServerPatches(f) \/ PatchArrives(f) \/ PatchLost(f)
    \/ \E f \in Flight, fil \in Filters : SetFilter(f, fil)
    \/ \E f \in Flight, u \in Update : Click(f, u)
    \/ \E c \in Call, u \in Update : OtherDevice(c, u)
    \/ SessionEnds

(* The owner presses "Refresh" again and again; requests are served, and   *)
(* not every one is lost.                                                  *)
Fairness ==
    /\ WF_vars(\E f \in Flight : Refresh(f))
    /\ \A f \in Flight :
           /\ SF_vars(ServerLists(f))
           /\ SF_vars(ListArrives(f))
           /\ WF_vars(PatchArrives(f) \/ PatchLost(f))

Spec == Init /\ [][Next]_vars /\ Fairness

-----------------------------------------------------------------------------
ChangesOneThing ==
    \A c \in Call :
        rows[c] # None /\ rows'[c] # rows[c] =>
            rows'[c].status = rows[c].status \/ rows'[c].notes = rows[c].notes

(* One click changes one thing: a step that changes the follow-up status   *)
(* of a call leaves its notes alone and the other way round, so that       *)
(* neither device undoes what the other wrote in between.                  *)
OneThingAtATime == [][ChangesOneThing]_vars

Stored ==
    [c \in Call |->
        IF rows[c] # None /\ (kind = "log" => filter \in {"any", rows[c].status})
        THEN rows[c] ELSE None]

UpToDate == list = Stored /\ ~loading

(* Whatever overlapped, was cancelled, lost or answered late: an owner who *)
(* keeps refreshing sees the calls as they are stored, through the filter  *)
(* the page shows, and never is left at "Loading".                         *)
RefreshConverges == []<>(~session \/ UpToDate)
=============================================================================
