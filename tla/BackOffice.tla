-------------------------------- MODULE BackOffice --------------------------------
(***************************************************************************)
(* What surrounds the calls: the owner's settings page, the operator's     *)
(* leads and list of calls, and the deployment of the code all of them     *)
(* run.  A behaviour is one of a single part; the rows of the parts are    *)
(* disjoint and none waits for another, so what holds of each alone holds  *)
(* of all.  While another part moves, the deployment rests where it        *)
(* began, on a commit that serves, and the pages are not mounted.          *)
(***************************************************************************)
EXTENDS Deployment

CONSTANTS
    Text, Bad, Empty, Token, Flight, MaxSaves,              \* of SettingsPage
    Visitor, Lead, Admin, Status, NewStatus, Limit, MaxPicks,   \* of LeadDesk
    PageSize, MaxCalls                                      \* of CallWalk

ASSUME BackOfficeAssumption ==
    /\ {Bad, Empty} \subseteq Text
    /\ Bad # Empty
    /\ NewStatus \in Status
    /\ None \notin Visitor \cup
           [value : Status, previous : Status, busy : BOOLEAN, error : BOOLEAN]
    /\ {Limit, PageSize} \subseteq Nat \ {0}
    /\ {MaxSaves, MaxPicks, MaxCalls} \subseteq Nat

VARIABLES
    part,           \* which one moves
    sRow, sShared, sDraft, sMine, sInfo, sLoaded, sTyped, sNotice, sFlight, sSaves,
    lFrom, lStatus, lJoined, lBucket, lPage, lForm, lPost, lSession, lSelect, lPatch,
    lLate, lAudit, lWas, lPicks,
    wTotal, wUnlinked, wView, wSeen, wBegun

settingsVars == <<sRow, sShared, sDraft, sMine, sInfo, sLoaded, sTyped, sNotice,
    sFlight, sSaves>>

leadVars == <<lFrom, lStatus, lJoined, lBucket, lPage, lForm, lPost, lSession, lSelect,
    lPatch, lLate, lAudit, lWas, lPicks>>

walkVars == <<wTotal, wUnlinked, wView, wSeen, wBegun>>

officeVars == <<part, vars, settingsVars, leadVars, walkVars>>

Settings == INSTANCE SettingsPage WITH
    row <- sRow, shared <- sShared, draft <- sDraft, mine <- sMine, info <- sInfo,
    loaded <- sLoaded, typed <- sTyped, notice <- sNotice, flight <- sFlight,
    saves <- sSaves

Leads == INSTANCE LeadDesk WITH
    from <- lFrom, status <- lStatus, joined <- lJoined, bucket <- lBucket,
    page <- lPage, form <- lForm, post <- lPost, session <- lSession,
    select <- lSelect, patch <- lPatch, late <- lLate, audit <- lAudit, was <- lWas,
    picks <- lPicks

Walk == INSTANCE CallWalk WITH
    total <- wTotal, unlinked <- wUnlinked, view <- wView, seen <- wSeen,
    begun <- wBegun

-----------------------------------------------------------------------------
NoSettings ==
    /\ sRow = None /\ sShared = None /\ sDraft = None /\ sMine = None
    /\ sInfo = None /\ sLoaded = None /\ sTyped = None /\ sNotice = None
    /\ sFlight = None /\ sSaves = None

NoLeads ==
    /\ lFrom = None /\ lStatus = None /\ lJoined = None /\ lBucket = None
    /\ lPage = None /\ lForm = None /\ lPost = None /\ lSession = None
    /\ lSelect = None /\ lPatch = None /\ lLate = None /\ lAudit = None
    /\ lWas = None /\ lPicks = None

NoWalk ==
    /\ wTotal = None /\ wUnlinked = None /\ wView = None /\ wSeen = None
    /\ wBegun = None

AtRest == head = CHOOSE c \in Boots : TRUE

OfficeInit ==
    /\ Init
    /\ \/ part = "deployment" /\ NoSettings /\ NoLeads /\ NoWalk
       \/ part = "settings" /\ AtRest /\ Settings!Init /\ NoLeads /\ NoWalk
       \/ part = "leads" /\ AtRest /\ NoSettings /\ Leads!Init /\ NoWalk
       \/ part = "calls" /\ AtRest /\ NoSettings /\ NoLeads /\ Walk!Init

(* A step of one part leaves the others as they are.                       *)
OnDeployment(A) ==
    part = "deployment" /\ A /\ UNCHANGED <<part, settingsVars, leadVars, walkVars>>
OnSettings(A) == part = "settings" /\ A /\ UNCHANGED <<part, vars, leadVars, walkVars>>
OnLeads(A)    == part = "leads" /\ A /\ UNCHANGED <<part, vars, settingsVars, walkVars>>
OnCalls(A)    == part = "calls" /\ A /\ UNCHANGED <<part, vars, settingsVars, leadVars>>

OfficeNext ==
    \/ OnDeployment(Next)
    \/ OnSettings(Settings!Next)
    \/ OnLeads(Leads!Next)
    \/ OnCalls(Walk!Next)

OfficeSpec == OfficeInit /\ [][OfficeNext]_officeVars

-----------------------------------------------------------------------------
(* The variables of the mounted part have their types; for Deployment see  *)
(* its own TypeOK.                                                         *)
OfficeTypeOK ==
    /\ TypeOK
    /\ part = "settings" => Settings!TypeOK
    /\ part = "leads" => Leads!TypeOK
    /\ part = "calls" => Walk!TypeOK

(* SettingsPage: a save by an owner who typed nothing undoes nothing that  *)
(* the page was shown.                                                     *)
CleanSaveKeeps == [][part = "settings" => Settings!KeepsWhatItShows]_officeVars

(* LeadDesk: who is thanked is in the table.                               *)
ThankedIsStored == part = "leads" => Leads!ThankedIsStored

(* LeadDesk: selects at rest and the audit trail show statuses that the    *)
(* lead has had.                                                           *)
ShownWasHad == part = "leads" => Leads!ShownWasHad

(* CallWalk: who turned every page was shown every call of the beginning,  *)
(* and no empty page.                                                      *)
WalkMissesNothing == part = "calls" => Walk!WalkMissesNothing
=============================================================================
