------------------------------- MODULE OwnerPages -------------------------------
(***************************************************************************)
(* The pages of a signed-in owner that keep a list in the browser: a visit *)
(* shows the calls or the contacts.  What other visits and other devices   *)
(* do is in the rows a page starts with and in the steps each module takes *)
(* for them; the two share no row.                                         *)
(***************************************************************************)
EXTENDS Naturals

CONSTANTS
    Call, Notes, NoNotes, Filters, MaxTurns,    \* of CallPages
    Contact, Value, Watched,                    \* of ContactPages
    Flight, MaxWrites,
    Nil             \* None of both, and what a page holds that is not visited

VARIABLES
    page,           \* "calls" or "contacts"
    cRows, cSession, cKind, cList, cLoading, cError, cFilter, cOpen,
    cControls, cFlight, cWrites, cTurns,
    kRows, kBorn, kLogs, kProfile, kVisit, kGate, kList, kLoading, kFailed,
    kForm, kActing, kPanel, kFlight, kWrites

callVars == <<cRows, cSession, cKind, cList, cLoading, cError, cFilter, cOpen,
    cControls, cFlight, cWrites, cTurns>>

contactVars == <<kRows, kBorn, kLogs, kProfile, kVisit, kGate, kList, kLoading, kFailed,
    kForm, kActing, kPanel, kFlight, kWrites>>

pageVars == <<page, callVars, contactVars>>

Calls == INSTANCE CallPages WITH
    rows <- cRows, session <- cSession, kind <- cKind, list <- cList,
    loading <- cLoading, error <- cError, filter <- cFilter, open <- cOpen,
    controls <- cControls, flight <- cFlight, writes <- cWrites, turns <- cTurns,
    None <- Nil

Contacts == INSTANCE ContactPages WITH
    rows <- kRows, born <- kBorn, logs <- kLogs, profile <- kProfile, visit <- kVisit,
    gate <- kGate, list <- kList, loading <- kLoading, failed <- kFailed,
    form <- kForm, acting <- kActing, panel <- kPanel, flight <- kFlight,
    writes <- kWrites, None <- Nil

ASSUME OwnerPagesAssumption ==
    /\ NoNotes \in Notes
    /\ Filters \subseteq {"any", "none", "needed", "resolved"}
    /\ Watched \in Value
    /\ Nil \notin Calls!Row \cup Contact \cup Value
    /\ MaxWrites \in Nat
    /\ MaxTurns \in Nat

-----------------------------------------------------------------------------
(* The pages that are not the visited one are not mounted.                 *)
NoCalls ==
    /\ cRows = Nil /\ cSession = Nil /\ cKind = Nil /\ cList = Nil
    /\ cLoading = Nil /\ cError = Nil /\ cFilter = Nil /\ cOpen = Nil
    /\ cControls = Nil /\ cFlight = Nil /\ cWrites = Nil /\ cTurns = Nil

NoContacts ==
    /\ kRows = Nil /\ kBorn = Nil /\ kLogs = Nil /\ kProfile = Nil
    /\ kVisit = Nil /\ kGate = Nil /\ kList = Nil /\ kLoading = Nil
    /\ kFailed = Nil /\ kForm = Nil /\ kActing = Nil /\ kPanel = Nil
    /\ kFlight = Nil /\ kWrites = Nil

PagesInit ==
    \/ page = "calls" /\ Calls!Init /\ NoContacts
    \/ page = "contacts" /\ Contacts!Init /\ NoCalls

(* A step of one page leaves the others as they are.                       *)
OnCalls(A)    == page = "calls" /\ A /\ UNCHANGED <<page, contactVars>>
OnContacts(A) == page = "contacts" /\ A /\ UNCHANGED <<page, callVars>>

PagesNext == OnCalls(Calls!Next) \/ OnContacts(Contacts!Next)

(* The fairness of CallPages and of ContactPages.                          *)
Fairness ==
    /\ WF_pageVars(OnCalls(\E f \in Flight : Calls!Refresh(f)))
    /\ \A f \in Flight :
           /\ SF_pageVars(OnCalls(Calls!ServerLists(f)))
           /\ SF_pageVars(OnCalls(Calls!ListArrives(f)))
           /\ WF_pageVars(OnCalls(Calls!PatchArrives(f) \/ Calls!PatchLost(f)))
           /\ WF_pageVars(OnContacts(Contacts!Server(f)))
           /\ WF_pageVars(OnContacts(Contacts!Arrives(f) \/ Contacts!Lost(f)))

PagesSpec == PagesInit /\ [][PagesNext]_pageVars /\ Fairness

-----------------------------------------------------------------------------
(* The variables of the visited page have their types.                     *)
PagesTypeOK ==
    /\ page \in {"calls", "contacts"}
    /\ page = "calls" => Calls!TypeOK
    /\ page = "contacts" => Contacts!TypeOK

(* CallPages: a click on the follow-up status leaves the notes alone, and  *)
(* the other way round.                                                    *)
OneThingAtATime == [][page = "calls" => Calls!ChangesOneThing]_pageVars

(* CallPages: an owner who keeps refreshing sees the calls as stored.      *)
RefreshConverges == []<>(page = "calls" => ~cSession \/ Calls!UpToDate)

(* ContactPages: an edit does not bring a deleted contact back.            *)
NoResurrection == [][page = "contacts" => Contacts!DeletedStays]_pageVars

(* ContactPages: a saved change comes to be shown by itself.               *)
SavedIsShown ==
    \A c \in Contact :
        (page = "contacts" /\ Contacts!Saved(c))
            ~> (page = "contacts" => Contacts!ShownOrPast(c))
=============================================================================
