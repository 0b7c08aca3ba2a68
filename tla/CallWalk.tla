-------------------------------- MODULE CallWalk --------------------------------
(***************************************************************************)
(* The operator's list of all calls (/admin/calls): adminListCalls() of    *)
(* src/lib/admin-db.ts reads one page of it, newest first, and the page's  *)
(* links lead to the next and to the previous one.  Calls arrive, and are  *)
(* linked to a business or unlinked by a redelivery, while the operator    *)
(* walks.                                                                  *)
(*                                                                         *)
(* callStartedAt is the time of the INSERT and never changes, so calls are *)
(* the numbers 1 .. total in the order of their arrival.                   *)
(***************************************************************************)
EXTENDS Naturals, FiniteSets

CONSTANTS
    PageSize,       \* 20 in the code
    MaxCalls,       \* bound: calls
    None

VARIABLES
    total,          \* table calls: 1 .. total
    unlinked,       \* those whose businessId is NULL
    view,           \* the rendered page, None before the first one
    seen,           \* calls shown since the walk began at page 1
    begun           \* calls stored when it began

vars == <<total, unlinked, view, seen, begun>>

Filter == {"all", "unlinked"}

TypeOK ==
    /\ total \in 0 .. MaxCalls
    /\ unlinked \subseteq 1 .. total
    /\ view \in {None} \cup
           [filter : Filter, calls : SUBSET (1 .. total), page : 1 .. MaxCalls + 1,
            pageCount : 1 .. MaxCalls + 1, of : 0 .. MaxCalls]
    /\ seen \subseteq 1 .. total
    /\ begun \in 0 .. total

Init ==
    /\ total = 0
    /\ unlinked = {}
    /\ view = None
    /\ seen = {}
    /\ begun = 0

-----------------------------------------------------------------------------
Rows(f) == IF f = "all" THEN 1 .. total ELSE unlinked

(* Mutants of PageCount: no page when there is nothing; full pages only.   *)
PagesOrNone(n) == (n + PageSize - 1) \div PageSize

FullPages(n) == IF n < PageSize THEN 1 ELSE n \div PageSize

(* Ceiling, and one page when there is nothing.                            *)
PageCount(n) == IF n = 0 THEN 1 ELSE (n + PageSize - 1) \div PageSize

Clamp(p, count) == IF p < 1 THEN 1 ELSE IF p > count THEN count ELSE p

Offset(p) == (p - 1) * PageSize

(* ORDER BY callStartedAt DESC: how many rows come before c.               *)
Before(c, rows) == Cardinality({d \in rows : d > c})

Matching(f) == Cardinality(Rows(f))

(* LIMIT and OFFSET.                                                       *)
Page(f, p) ==
    {c \in Rows(f) : /\ Before(c, Rows(f)) >= Offset(p)
                     /\ Before(c, Rows(f)) < Offset(p) + PageSize}

(* adminListCalls({ page: p, unlinkedOnly }).                              *)
ListCalls(f, p) ==
    LET count == PageCount(Matching(f))
        page  == Clamp(p, count)
    IN  [filter |-> f, calls |-> Page(f, page), page |-> page,
         pageCount |-> count, of |-> Matching(f)]

-----------------------------------------------------------------------------
(* A tab, or the address of the page: the walk begins.                     *)
Open(f) ==
    /\ view' = ListCalls(f, 1)
    /\ seen' = view'.calls
    /\ begun' = total
    /\ UNCHANGED <<total, unlinked>>

Turn(p) ==
    /\ view' = ListCalls(view.filter, p)
    /\ seen' = seen \cup view'.calls
    /\ UNCHANGED <<total, unlinked, begun>>

(* The link is there when the page was rendered with more to come.         *)
NextPage ==
    /\ view # None
    /\ view.page < view.pageCount
    /\ Turn(view.page + 1)

PreviousPage ==
    /\ view # None
    /\ view.page > 1
    /\ Turn(view.page - 1)

(* The Dograh webhook stores a call.                                       *)
CallArrives ==
    /\ total < MaxCalls
    /\ total' = total + 1
    /\ unlinked' \in {unlinked, unlinked \cup {total + 1}}
    /\ UNCHANGED <<view, seen, begun>>

(* A redelivery after its number changed hands.                            *)
CallRelinked(c) ==
    /\ c <= total
    /\ unlinked' = IF c \in unlinked THEN unlinked \ {c} ELSE unlinked \cup {c}
    /\ UNCHANGED <<total, view, seen, begun>>

Next ==
    \/ \E f \in Filter : Open(f)
    \/ NextPage \/ PreviousPage
    \/ CallArrives
    \/ \E c \in 1 .. MaxCalls : CallRelinked(c)

Spec == Init /\ [][Next]_vars

-----------------------------------------------------------------------------
(* A page is empty only when nothing matched its filter: the link to a     *)
(* page that is gone meanwhile leads to the last one ("can never render an *)
(* empty table", admin-db.ts:141).                                         *)
PageNeverEmpty == view # None => (view.calls = {} <=> view.of = 0)

(* The operator who turned the pages of all calls to the last one has been *)
(* shown every call that was stored when the walk began, whatever arrived  *)
(* meanwhile: page numbers count from the newest call, so an arrival moves *)
(* calls to a page still to come, never to one already read.  No page he   *)
(* was shown on the way was empty.                                         *)
WalkMissesNothing ==
    /\ PageNeverEmpty
    /\ (view # None /\ view.filter = "all" /\ view.page = view.pageCount)
           => 1 .. begun \subseteq seen
=============================================================================
