---------------------------- MODULE OwnerProofs ----------------------------
(***************************************************************************)
(* Proofs about what an owner does in the browser: the pages (OwnerPages,  *)
(* for any calls, contacts, requests in flight and filters), then the      *)
(* setup (Onboarding), which share no name.                                *)
(*                                                                         *)
(* What a page shows, what a list on its way carries and what a change on  *)
(* its way is about is stored (ShownIsStored): without that the routes     *)
(* would be asked to change rows there are not.  Before the gate of the    *)
(* contacts one request at a time asks for the profile or saves it         *)
(* (OneAtTheGate), so the gate opens once, and no form is mounted on a     *)
(* page that was left.                                                     *)
(***************************************************************************)
EXTENDS OwnerPages, Onboarding, TLAPS

-----------------------------------------------------------------------------
(* The invariant of the calls.                                             *)

ShownIsStored ==
    /\ \A c \in Call : cList[c] # Nil => cRows[c] # Nil
    /\ cControls # Nil => cList[cControls.call] # Nil
    /\ \A f \in Flight :
           /\ cFlight[f].what = "listed" /\ cFlight[f].data # Nil
              => \A c \in Call : cFlight[f].data[c] # Nil => cRows[c] # Nil
           /\ cFlight[f].what \in {"patches", "patched"}
              => cRows[cFlight[f].call] # Nil

CallsInv == Calls!TypeOK /\ ShownIsStored

-----------------------------------------------------------------------------
(* The invariant of the contacts.                                          *)

(* What a request is about, and what its answer carries.                   *)
Carries(q) ==
    /\ q.what \in {"put", "delete", "log", "history"} => q.of \in Contact
    /\ q.what \in {"create", "put"} => q.value \in Value
    /\ q.what = "list" /\ q.state = "ok" => q.data \in Contacts!List
    /\ q.what = "history" => q.data \in Contact \cup {Nil}

(* One request asks for the profile or saves it, and contacts are made     *)
(* behind the gate.                                                        *)
OneAtTheGate ==
    /\ \A f \in Flight :
           /\ kFlight[f].what = "profile" => kGate = "loading"
           /\ kFlight[f].what = "save" => kGate = "creating"
           /\ kFlight[f].what = "create" => kGate = "open"
    /\ \A f, g \in Flight :
           {kFlight[f].what, kFlight[g].what} \subseteq {"profile", "save"} => f = g

(* A form is mounted behind the gate, on a page that was not left, and on  *)
(* the list for a contact.                                                 *)
FormBehindGate ==
    /\ kForm # Nil \/ kVisit = "left" => kGate = "open"
    /\ kForm # Nil => kVisit # "left" /\ (kVisit = "list" => kForm.for \in Contact)

EachCarries == \A f \in Flight : kFlight[f].what # "idle" => Carries(kFlight[f])

ContactsInv ==
    /\ Contacts!TypeOK
    /\ OneAtTheGate
    /\ FormBehindGate
    /\ EachCarries

PagesInv ==
    /\ page \in {"calls", "contacts"}
    /\ page = "calls" => CallsInv
    /\ page = "contacts" => ContactsInv

-----------------------------------------------------------------------------
(* The calls: rendering.                                                   *)

(* What the rendering of a page makes of a list and the controls it has.   *)
LEMMA Rendered ==
    ASSUME NEW l \in Calls!List, NEW busy \in BOOLEAN,
           NEW fil \in Calls!Status \cup {"any"}, NEW c \in Call \cup {Nil},
           NEW known \in Calls!Controls \cup {Nil},
           Calls!Render(l, busy, fil, c, known)
    PROVE  /\ cList' = l
           /\ cLoading' \in BOOLEAN
           /\ cFilter' \in Calls!Status \cup {"any"}
           /\ cOpen' \in Call \cup {Nil}
           /\ cControls' \in Calls!Controls \cup {Nil}
           /\ cControls' # Nil => l[cControls'.call] # Nil
<1>1. CASE ~Calls!Visible(l, busy, fil, c)
  BY <1>1 DEF Calls!Render
<1>2. CASE Calls!Visible(l, busy, fil, c)
  <2>1. c \in Call /\ l[c] # Nil /\ l[c].notes \in Notes
    BY <1>2 DEF Calls!Visible, Calls!List, Calls!Row
  <2>2. CASE known # Nil /\ known.call = c
    BY <1>2, <2>1, <2>2 DEF Calls!Render
  <2>3. CASE ~(known # Nil /\ known.call = c)
    <3>1. cControls' = [call |-> c, draft |-> l[c].notes, waits |-> Nil]
      BY <1>2, <2>3 DEF Calls!Render
    <3>2. QED BY <2>1, <3>1 DEF Calls!Render, Calls!Controls
  <2>4. QED BY <2>2, <2>3
<1>3. QED BY <1>1, <1>2

(* A page that is rendered with a list of stored calls, while requests are *)
(* dropped, and at most one is added, which is about a stored call.        *)
LEMMA RenderKeeps ==
    ASSUME CallsInv,
           NEW l \in Calls!List, NEW busy \in BOOLEAN,
           NEW fil \in Calls!Status \cup {"any"}, NEW c \in Call \cup {Nil},
           NEW known \in Calls!Controls \cup {Nil},
           Calls!Render(l, busy, fil, c, known),
           \A d \in Call : l[d] # Nil => cRows[d] # Nil,
           UNCHANGED <<cRows, cSession, cKind, cWrites>>,
           cError' \in BOOLEAN, cTurns' \in 0 .. MaxTurns,
           cFlight' \in [Flight -> {Calls!Idle} \cup Calls!ListRequest \cup Calls!PatchRequest],
           \A f \in Flight :
               cFlight'[f] = cFlight[f] \/ cFlight'[f].what \in {"idle", "asks"}
    PROVE  CallsInv'
<1>1. /\ cList' = l
      /\ cLoading' \in BOOLEAN
      /\ cFilter' \in Calls!Status \cup {"any"}
      /\ cOpen' \in Call \cup {Nil}
      /\ cControls' \in Calls!Controls \cup {Nil}
      /\ cControls' # Nil => l[cControls'.call] # Nil
  BY Rendered
<1>2. Calls!TypeOK'
  BY <1>1 DEF CallsInv, Calls!TypeOK
<1>3. ShownIsStored'
  <2>1. \A f \in Flight :
            /\ cFlight'[f].what = "listed" /\ cFlight'[f].data # Nil
               => \A d \in Call : cFlight'[f].data[d] # Nil => cRows'[d] # Nil
            /\ cFlight'[f].what \in {"patches", "patched"}
               => cRows'[cFlight'[f].call] # Nil
    BY DEF CallsInv, ShownIsStored
  <2>2. QED BY <1>1, <2>1 DEF ShownIsStored
<1>4. QED BY <1>2, <1>3 DEF CallsInv

(* What the types say of the page that is there.                           *)
LEMMA PageTyped ==
    ASSUME CallsInv
    PROVE  /\ cList \in Calls!List /\ cRows \in Calls!List
           /\ cLoading \in BOOLEAN /\ cError \in BOOLEAN
           /\ cFilter \in Calls!Status \cup {"any"}
           /\ cOpen \in Call \cup {Nil}
           /\ cControls \in Calls!Controls \cup {Nil}
           /\ cTurns \in 0 .. MaxTurns
           /\ cFlight \in [Flight -> {Calls!Idle} \cup Calls!ListRequest \cup Calls!PatchRequest]
           /\ \A c \in Call : cList[c] # Nil => cRows[c] # Nil
BY DEF CallsInv, Calls!TypeOK, ShownIsStored

LEMMA ExpandKeeps ==
    ASSUME CallsInv, NEW c \in Call, Calls!Expand(c)
    PROVE  CallsInv'
<1> DEFINE to == IF cOpen = c THEN Nil ELSE c
<1>1. to \in Call \cup {Nil}
  OBVIOUS
<1>2. /\ Calls!Render(cList, cLoading, cFilter, to, cControls)
      /\ UNCHANGED <<cRows, cSession, cKind, cError, cFlight, cWrites, cTurns>>
  BY DEF Calls!Expand
<1> HIDE DEF to
<1>3. QED BY <1>1, <1>2, PageTyped, RenderKeeps

LEMMA TypeKeeps ==
    ASSUME CallsInv, NEW n \in Notes, Calls!Type(n)
    PROVE  CallsInv'
<1>1. /\ cControls' \in Calls!Controls
      /\ cControls'.call = cControls.call
  BY DEF Calls!Type, CallsInv, Calls!TypeOK, Calls!Controls
<1>2. UNCHANGED <<cRows, cSession, cKind, cList, cLoading, cError, cFilter, cOpen, cFlight,
                  cWrites, cTurns>> /\ cControls # Nil
  BY DEF Calls!Type
<1>3. Calls!TypeOK'
  BY <1>1, <1>2 DEF CallsInv, Calls!TypeOK
<1>4. ShownIsStored'
  BY <1>1, <1>2 DEF CallsInv, ShownIsStored
<1>5. QED BY <1>3, <1>4 DEF CallsInv

(* A list that is asked for.                                               *)
LEMMA AskedTyped ==
    ASSUME NEW f, NEW effect \in BOOLEAN, NEW fil \in Calls!Status \cup {"any"}
    PROVE  /\ Calls!Asks(f, effect, fil) \in Calls!ListRequest
           /\ Calls!Asks(f, effect, fil).what = "asks"
BY DEF Calls!Asks, Calls!ListRequest

LEMMA RerunTyped ==
    ASSUME CallsInv, NEW f \in Flight, NEW fil \in Calls!Status \cup {"any"},
           Calls!Rerun(f, fil)
    PROVE  /\ cFlight' \in [Flight -> {Calls!Idle} \cup Calls!ListRequest \cup Calls!PatchRequest]
           /\ \A g \in Flight :
                  cFlight'[g] = cFlight[g] \/ cFlight'[g].what \in {"idle", "asks"}
BY AskedTyped, PageTyped DEF Calls!Rerun, Calls!Idle

LEMMA RefreshKeeps ==
    ASSUME CallsInv, NEW f \in Flight, Calls!Refresh(f)
    PROVE  CallsInv'
<1>1. /\ Calls!Render(cList, TRUE, cFilter, cOpen, cControls)
      /\ UNCHANGED <<cRows, cSession, cKind, cError, cWrites>>
  BY DEF Calls!Refresh
<1>2. cTurns' \in 0 .. MaxTurns
  <2>1. UNCHANGED cTurns \/ (cTurns < MaxTurns /\ cTurns' = cTurns + 1)
    BY DEF Calls!Refresh
  <2>2. QED BY <2>1, PageTyped, OwnerPagesAssumption
<1>3. /\ cFlight' \in [Flight -> {Calls!Idle} \cup Calls!ListRequest \cup Calls!PatchRequest]
      /\ \A g \in Flight :
             cFlight'[g] = cFlight[g] \/ cFlight'[g].what \in {"idle", "asks"}
  <2>1. CASE Calls!Rerun(f, "any")
    BY <2>1, RerunTyped
  <2>2. CASE cFlight' = [cFlight EXCEPT ![f] = Calls!Asks(f, FALSE, Calls!AskedFilter)]
    <3>1. Calls!AskedFilter \in Calls!Status \cup {"any"}
      BY PageTyped DEF Calls!AskedFilter
    <3>2. QED BY <2>2, <3>1, AskedTyped, PageTyped
  <2>3. QED BY <2>1, <2>2 DEF Calls!Refresh
<1>4. QED BY <1>1, <1>2, <1>3, PageTyped, RenderKeeps

LEMMA SetFilterKeeps ==
    ASSUME CallsInv, NEW f \in Flight, NEW fil \in Filters, Calls!SetFilter(f, fil)
    PROVE  CallsInv'
<1>1. /\ Calls!Render(cList, cLoading, fil, cOpen, cControls)
      /\ UNCHANGED <<cRows, cSession, cKind, cError, cWrites>>
      /\ UNCHANGED cFlight \/ Calls!Rerun(f, fil)
  BY DEF Calls!SetFilter
<1>2. fil \in Calls!Status \cup {"any"}
  BY OwnerPagesAssumption DEF Calls!Status
<1>3. cTurns' \in 0 .. MaxTurns
  BY PageTyped, OwnerPagesAssumption DEF Calls!SetFilter
<1>4. /\ cFlight' \in [Flight -> {Calls!Idle} \cup Calls!ListRequest \cup Calls!PatchRequest]
      /\ \A g \in Flight :
             cFlight'[g] = cFlight[g] \/ cFlight'[g].what \in {"idle", "asks"}
  BY <1>1, <1>2, RerunTyped, PageTyped
<1>5. QED BY <1>1, <1>2, <1>3, <1>4, PageTyped, RenderKeeps

-----------------------------------------------------------------------------
(* The calls: the answers.                                                 *)

(* Requests by what they are.                                              *)
LEMMA RequestsTyped ==
    ASSUME CallsInv, NEW f \in Flight
    PROVE  /\ cFlight[f].what = "asks"
              => cFlight[f] \in [what : {"asks"}, effect : BOOLEAN,
                                 filter : Calls!Status \cup {"any"}]
           /\ cFlight[f].what = "listed"
              => cFlight[f] \in [what : {"listed"}, effect : BOOLEAN,
                                 data : Calls!List \cup {Nil}]
           /\ cFlight[f].what = "patches"
              => cFlight[f] \in [what : {"patches"}, call : Call, update : Calls!Update]
           /\ cFlight[f].what = "patched"
              => cFlight[f] \in [what : {"patched"}, call : Call, row : Calls!Row \cup {Nil}]
BY DEF CallsInv, Calls!TypeOK, Calls!ListRequest, Calls!PatchRequest, Calls!Idle

LEMMA TakesKeeps ==
    ASSUME CallsInv, NEW f \in Flight, NEW data \in Calls!List \cup {Nil},
           data # Nil => \A c \in Call : data[c] # Nil => cRows[c] # Nil,
           Calls!Takes(data),
           cFlight' = [cFlight EXCEPT ![f] = Calls!Idle],
           UNCHANGED <<cRows, cSession, cKind, cWrites, cTurns>>
    PROVE  CallsInv'
<1> DEFINE l == IF data # Nil THEN data
                ELSE IF cKind = "dashboard" THEN cList ELSE Calls!Empty
           busy == IF Calls!Settled(data) THEN FALSE ELSE cLoading
<1>1. l \in Calls!List /\ \A c \in Call : l[c] # Nil => cRows[c] # Nil
  BY PageTyped DEF Calls!Empty, Calls!List
<1>2. busy \in BOOLEAN
  BY PageTyped
<1>3. Calls!Render(l, busy, cFilter, cOpen, cControls) /\ cError' \in BOOLEAN
  BY DEF Calls!Takes
<1>4. /\ cFlight' \in [Flight -> {Calls!Idle} \cup Calls!ListRequest \cup Calls!PatchRequest]
      /\ \A g \in Flight :
             cFlight'[g] = cFlight[g] \/ cFlight'[g].what \in {"idle", "asks"}
  BY PageTyped DEF Calls!Idle
<1> HIDE DEF l, busy
<1>5. QED BY <1>1, <1>2, <1>3, <1>4, PageTyped, RenderKeeps

LEMMA ListEndsKeeps ==
    ASSUME CallsInv, NEW f \in Flight, Calls!ListArrives(f) \/ Calls!ListLost(f)
    PROVE  CallsInv'
<1>1. CASE Calls!ListArrives(f)
  <2>1. /\ cFlight[f].what = "listed"
        /\ Calls!Takes(cFlight[f].data)
        /\ cFlight' = [cFlight EXCEPT ![f] = Calls!Idle]
        /\ UNCHANGED <<cRows, cSession, cKind, cWrites, cTurns>>
    BY <1>1 DEF Calls!ListArrives
  <2>2. /\ cFlight[f].data \in Calls!List \cup {Nil}
        /\ cFlight[f].data # Nil
           => \A c \in Call : cFlight[f].data[c] # Nil => cRows[c] # Nil
    BY <2>1, RequestsTyped DEF CallsInv, ShownIsStored
  <2>3. QED BY <2>1, <2>2, TakesKeeps
<1>2. CASE Calls!ListLost(f)
  BY <1>2, TakesKeeps DEF Calls!ListLost
<1>3. QED BY <1>1, <1>2

LEMMA AnsweredKeeps ==
    ASSUME CallsInv, NEW f \in Flight, NEW c \in Call, NEW row \in Calls!Row \cup {Nil},
           Calls!Answered(f, c, row),
           cFlight' = [cFlight EXCEPT ![f] = Calls!Idle],
           UNCHANGED <<cRows, cSession, cKind, cError, cWrites, cTurns>>
    PROVE  CallsInv'
<1> DEFINE l == [cList EXCEPT ![c] = IF @ # Nil /\ row # Nil THEN row ELSE @]
           known == IF cControls # Nil /\ cControls.waits = f
                    THEN [cControls EXCEPT !.waits = Nil] ELSE cControls
<1>1. l \in Calls!List /\ \A d \in Call : l[d] # Nil => cRows[d] # Nil
  BY PageTyped DEF Calls!List
<1>2. known \in Calls!Controls \cup {Nil}
  BY PageTyped DEF Calls!Controls
<1>3. Calls!Render(l, cLoading, cFilter, cOpen, known)
  BY DEF Calls!Answered
<1>4. /\ cFlight' \in [Flight -> {Calls!Idle} \cup Calls!ListRequest \cup Calls!PatchRequest]
      /\ \A g \in Flight :
             cFlight'[g] = cFlight[g] \/ cFlight'[g].what \in {"idle", "asks"}
  BY PageTyped DEF Calls!Idle
<1> HIDE DEF l, known
<1>5. QED BY <1>1, <1>2, <1>3, <1>4, PageTyped, RenderKeeps

LEMMA PatchEndsKeeps ==
    ASSUME CallsInv, NEW f \in Flight, Calls!PatchArrives(f) \/ Calls!PatchLost(f)
    PROVE  CallsInv'
<1>1. CASE Calls!PatchArrives(f)
  <2>1. cFlight[f].call \in Call /\ cFlight[f].row \in Calls!Row \cup {Nil}
    BY <1>1, RequestsTyped DEF Calls!PatchArrives
  <2>2. QED BY <1>1, <2>1, AnsweredKeeps DEF Calls!PatchArrives
<1>2. CASE Calls!PatchLost(f)
  <2>1. cFlight[f].call \in Call
    BY <1>2, RequestsTyped DEF Calls!PatchLost
  <2>2. QED BY <1>2, <2>1, AnsweredKeeps DEF Calls!PatchLost
<1>3. QED BY <1>1, <1>2

-----------------------------------------------------------------------------
(* The calls: the routes, and what happens elsewhere.                      *)

(* A step that leaves the page alone: a request of f becomes q, and rows   *)
(* are written, of which none disappears.                                  *)
LEMMA StoreKeeps ==
    ASSUME CallsInv, NEW f \in Flight,
           UNCHANGED <<cKind, cList, cLoading, cError, cFilter, cOpen, cControls, cTurns>>,
           cSession' \in BOOLEAN, cWrites' \in 0 .. MaxWrites,
           cRows' \in Calls!List,
           \A c \in Call : cRows[c] # Nil => cRows'[c] # Nil,
           NEW q \in {Calls!Idle} \cup Calls!ListRequest \cup Calls!PatchRequest,
           cFlight' = [cFlight EXCEPT ![f] = q],
           q.what = "listed" /\ q.data # Nil
               => \A c \in Call : q.data[c] # Nil => cRows'[c] # Nil,
           q.what \in {"patches", "patched"} => q.call \in Call /\ cRows'[q.call] # Nil
    PROVE  CallsInv'
<1>1. Calls!TypeOK'
  BY DEF CallsInv, Calls!TypeOK
<1>2. ShownIsStored'
  <2>1. /\ \A c \in Call : cList'[c] # Nil => cRows'[c] # Nil
        /\ cControls' # Nil => cList'[cControls'.call] # Nil
    BY DEF CallsInv, ShownIsStored
  <2>2. ASSUME NEW g \in Flight
        PROVE  /\ cFlight'[g].what = "listed" /\ cFlight'[g].data # Nil
                  => \A c \in Call : cFlight'[g].data[c] # Nil => cRows'[c] # Nil
               /\ cFlight'[g].what \in {"patches", "patched"}
                  => cRows'[cFlight'[g].call] # Nil
    <3>1. CASE g = f
      BY <3>1, PageTyped
    <3>2. CASE g # f
      <4>1. cFlight'[g] = cFlight[g]
        BY <3>2, PageTyped
      <4>2. cFlight[g].what \in {"patches", "patched"} => cFlight[g].call \in Call
        BY RequestsTyped
      <4>3. QED BY <4>1, <4>2 DEF CallsInv, ShownIsStored
    <3>3. QED BY <3>1, <3>2
  <2>3. QED BY <2>1, <2>2 DEF ShownIsStored
<1>3. QED BY <1>1, <1>2 DEF CallsInv

LEMMA ServerListsKeeps ==
    ASSUME CallsInv, NEW f \in Flight, Calls!ServerLists(f)
    PROVE  CallsInv'
<1> DEFINE all == [c \in Call |->
               IF cRows[c] # Nil /\ cFlight[f].filter \in {"any", cRows[c].status}
               THEN cRows[c] ELSE Nil]
           q == [what |-> "listed", effect |-> cFlight[f].effect,
                 data |-> IF ~cSession THEN Nil ELSE all]
<1>1. all \in Calls!List /\ \A c \in Call : all[c] # Nil => cRows[c] # Nil
  BY PageTyped DEF Calls!List
<1>2. cFlight[f].effect \in BOOLEAN
  BY RequestsTyped DEF Calls!ServerLists
<1> HIDE DEF all
<1>3. /\ q \in Calls!ListRequest
      /\ q.what = "listed"
      /\ q.data # Nil => \A c \in Call : q.data[c] # Nil => cRows[c] # Nil
  BY <1>1, <1>2 DEF Calls!ListRequest
<1>4. cFlight' = [cFlight EXCEPT ![f] = q]
  BY DEF Calls!ServerLists, all
<1> HIDE DEF q
<1>5. UNCHANGED <<cRows, cSession, cKind, cList, cLoading, cError, cFilter, cOpen, cControls,
                  cWrites, cTurns>>
  BY DEF Calls!ServerLists, Calls!view
<1>6. cSession' \in BOOLEAN /\ cWrites' \in 0 .. MaxWrites
  BY <1>5 DEF CallsInv, Calls!TypeOK
<1>7. QED BY <1>3, <1>4, <1>5, <1>6, PageTyped, StoreKeeps

(* A field that is written leaves a row a row.                             *)
LEMMA PatchTyped ==
    ASSUME NEW row \in Calls!Row, NEW shown, NEW u \in Calls!Update
    PROVE  Calls!Patch(row, shown, u) \in Calls!Row
BY DEF Calls!Patch, Calls!Row, Calls!Update, Calls!Status

LEMMA ServerPatchesKeeps ==
    ASSUME CallsInv, NEW f \in Flight, Calls!ServerPatches(f)
    PROVE  CallsInv'
<1> DEFINE c == cFlight[f].call
           u == cFlight[f].update
<1>1. c \in Call /\ u \in Calls!Update /\ cRows[c] \in Calls!Row
  BY RequestsTyped, PageTyped DEF Calls!ServerPatches, CallsInv, ShownIsStored, Calls!List
<1>2. Calls!Patch(cRows[c], cList[c], u) \in Calls!Row
  BY <1>1, PatchTyped
<1>3. UNCHANGED <<cSession, cKind, cList, cLoading, cError, cFilter, cOpen, cControls,
                  cWrites, cTurns>>
  BY DEF Calls!ServerPatches, Calls!view
<1>4. cSession' \in BOOLEAN /\ cWrites' \in 0 .. MaxWrites
  BY <1>3 DEF CallsInv, Calls!TypeOK
<1>5. CASE cSession
  <2> DEFINE row == Calls!Patch(cRows[c], cList[c], u)
             q == [what |-> "patched", call |-> c, row |-> row]
  <2>1. row \in Calls!Row /\ row # Nil
    BY <1>2, OwnerPagesAssumption
  <2>2. cRows' = [cRows EXCEPT ![c] = row] /\ cFlight' = [cFlight EXCEPT ![f] = q]
    BY <1>1, <1>5, PageTyped DEF Calls!ServerPatches, Calls!List
  <2> HIDE DEF row
  <2>3. /\ cRows' \in Calls!List
        /\ \A d \in Call : cRows[d] # Nil => cRows'[d] # Nil
        /\ cRows'[c] # Nil
    BY <1>1, <2>1, <2>2, PageTyped DEF Calls!List
  <2>4. q \in Calls!PatchRequest /\ q.what = "patched" /\ q.call = c
    BY <1>1, <2>1 DEF Calls!PatchRequest
  <2> HIDE DEF q, c
  <2>5. QED BY <1>1, <1>3, <1>4, <2>2, <2>3, <2>4, StoreKeeps
<1>6. CASE ~cSession
  <2> DEFINE q == [what |-> "patched", call |-> c, row |-> Nil]
  <2>1. UNCHANGED cRows /\ cFlight' = [cFlight EXCEPT ![f] = q]
    BY <1>6 DEF Calls!ServerPatches
  <2>2. q \in Calls!PatchRequest /\ q.what = "patched" /\ q.call = c
    BY <1>1 DEF Calls!PatchRequest
  <2>3. cRows[c] # Nil
    BY RequestsTyped DEF Calls!ServerPatches, CallsInv, ShownIsStored
  <2> HIDE DEF q, c
  <2>4. QED BY <1>1, <1>3, <1>4, <2>1, <2>2, <2>3, PageTyped, StoreKeeps
<1>7. QED BY <1>5, <1>6

LEMMA ClickKeeps ==
    ASSUME CallsInv, NEW f \in Flight, NEW u \in Calls!Update, Calls!Click(f, u)
    PROVE  CallsInv'
<1> DEFINE q == [what |-> "patches", call |-> cControls.call, update |-> u]
<1>1. cControls \in Calls!Controls /\ cControls # Nil /\ cControls.call \in Call
  BY PageTyped DEF Calls!Click, Calls!Controls
<1>2. q \in Calls!PatchRequest /\ q.what = "patches" /\ q.call = cControls.call
  BY <1>1 DEF Calls!PatchRequest
<1>3. /\ cControls' = [cControls EXCEPT !.waits = f]
      /\ cFlight' = [cFlight EXCEPT ![f] = q]
      /\ UNCHANGED <<cRows, cSession, cKind, cList, cLoading, cError, cFilter, cOpen, cTurns>>
  BY DEF Calls!Click
<1>4. cWrites' \in 0 .. MaxWrites
  <2>1. cWrites < MaxWrites /\ cWrites' = cWrites + 1
    BY DEF Calls!Click
  <2>2. QED BY <2>1, OwnerPagesAssumption DEF CallsInv, Calls!TypeOK
<1>5. cControls' \in Calls!Controls /\ cControls'.call = cControls.call
  BY <1>1, <1>3 DEF Calls!Controls
<1> HIDE DEF q
<1>6. Calls!TypeOK'
  BY <1>2, <1>3, <1>4, <1>5 DEF CallsInv, Calls!TypeOK
<1>7. ShownIsStored'
  <2>1. cList[cControls.call] # Nil /\ cRows[cControls.call] # Nil
    BY <1>1 DEF CallsInv, ShownIsStored
  <2>2. ASSUME NEW g \in Flight
        PROVE  /\ cFlight'[g].what = "listed" /\ cFlight'[g].data # Nil
                  => \A c \in Call : cFlight'[g].data[c] # Nil => cRows'[c] # Nil
               /\ cFlight'[g].what \in {"patches", "patched"}
                  => cRows'[cFlight'[g].call] # Nil
    <3>1. CASE g = f
      BY <1>2, <1>3, <2>1, <3>1, PageTyped
    <3>2. CASE g # f
      BY <1>3, <3>2, PageTyped DEF CallsInv, ShownIsStored
    <3>3. QED BY <3>1, <3>2
  <2>3. QED BY <1>3, <1>5, <2>1, <2>2 DEF CallsInv, ShownIsStored
<1>8. QED BY <1>6, <1>7 DEF CallsInv

(* What others do writes or adds a row, or ends the session.               *)
LEMMA ElsewhereKeeps ==
    ASSUME CallsInv,
           \/ \E c \in Call : Calls!CallArrives(c)
           \/ \E c \in Call, u \in Calls!Update : Calls!OtherDevice(c, u)
           \/ Calls!SessionEnds
    PROVE  CallsInv'
<1>1. ASSUME UNCHANGED <<cKind, cList, cLoading, cError, cFilter, cOpen, cControls, cTurns,
                         cFlight>>,
             cSession' \in BOOLEAN, cWrites' \in 0 .. MaxWrites, cRows' \in Calls!List,
             \A c \in Call : cRows[c] # Nil => cRows'[c] # Nil
      PROVE  CallsInv'
  <2>1. Calls!TypeOK'
    BY <1>1 DEF CallsInv, Calls!TypeOK
  <2>2. \A f \in Flight :
            cFlight[f].what \in {"patches", "patched"} => cFlight[f].call \in Call
    BY RequestsTyped
  <2>3. ShownIsStored'
    BY <1>1, <2>2 DEF CallsInv, ShownIsStored
  <2>4. QED BY <2>1, <2>3 DEF CallsInv
<1>2. ASSUME NEW c \in Call, Calls!CallArrives(c)
      PROVE  CallsInv'
  <2> DEFINE row == [status |-> "none", notes |-> NoNotes]
  <2>1. row \in Calls!Row /\ row # Nil
    BY OwnerPagesAssumption DEF Calls!Row, Calls!Status
  <2>2. /\ cRows' = [cRows EXCEPT ![c] = row]
        /\ UNCHANGED <<cSession, cKind, cList, cLoading, cError, cFilter, cOpen, cControls,
                       cTurns, cFlight, cWrites>>
    BY <1>2 DEF Calls!CallArrives, Calls!view
  <2> HIDE DEF row
  <2>3. cRows' \in Calls!List /\ \A d \in Call : cRows[d] # Nil => cRows'[d] # Nil
    BY <2>1, <2>2, PageTyped DEF Calls!List
  <2>4. QED BY <1>1, <2>2, <2>3 DEF CallsInv, Calls!TypeOK
<1>3. ASSUME NEW c \in Call, NEW u \in Calls!Update, Calls!OtherDevice(c, u)
      PROVE  CallsInv'
  <2> DEFINE row == Calls!Patch(cRows[c], Nil, u)
  <2>1. row \in Calls!Row /\ row # Nil
    <3>1. cRows[c] \in Calls!Row
      BY <1>3, PageTyped DEF Calls!OtherDevice, Calls!List
    <3>2. QED BY <3>1, PatchTyped, OwnerPagesAssumption
  <2>2. /\ cRows' = [cRows EXCEPT ![c] = row]
        /\ cWrites < MaxWrites /\ cWrites' = cWrites + 1
        /\ UNCHANGED <<cSession, cKind, cList, cLoading, cError, cFilter, cOpen, cControls,
                       cTurns, cFlight>>
    BY <1>3, PageTyped DEF Calls!OtherDevice, Calls!view, Calls!List
  <2> HIDE DEF row
  <2>3. cRows' \in Calls!List /\ \A d \in Call : cRows[d] # Nil => cRows'[d] # Nil
    BY <2>1, <2>2, PageTyped DEF Calls!List
  <2>4. cWrites' \in 0 .. MaxWrites
    BY <2>2, OwnerPagesAssumption DEF CallsInv, Calls!TypeOK
  <2>5. QED BY <1>1, <2>2, <2>3, <2>4 DEF CallsInv, Calls!TypeOK
<1>4. CASE Calls!SessionEnds
  BY <1>1, <1>4 DEF Calls!SessionEnds, Calls!view, CallsInv, Calls!TypeOK
<1>5. QED BY <1>2, <1>3, <1>4

LEMMA CallsInit == Calls!Init => CallsInv
<1> SUFFICES ASSUME Calls!Init PROVE CallsInv
  OBVIOUS
<1>1. /\ cRows \in Calls!List
      /\ cList = Calls!Empty /\ cList \in Calls!List
      /\ cControls = Nil
      /\ "any" \in Calls!Status \cup {"any"}
  BY OwnerPagesAssumption DEF Calls!Init, Calls!List, Calls!Row, Calls!Empty
<1>2. /\ cFlight \in [Flight -> {Calls!Idle} \cup Calls!ListRequest \cup Calls!PatchRequest]
      /\ \A f \in Flight : cFlight[f].what \in {"idle", "asks"}
  <2>1. PICK f \in Flight :
            cFlight = [g \in Flight |-> IF g = f THEN Calls!Asks(f, TRUE, "any")
                                        ELSE Calls!Idle]
    BY DEF Calls!Init
  <2>2. QED BY <2>1, <1>1, AskedTyped DEF Calls!Idle
<1>3. Calls!TypeOK
  <2>1. 0 \in 0 .. MaxWrites /\ 0 \in 0 .. MaxTurns
    BY OwnerPagesAssumption
  <2>2. /\ cSession = TRUE /\ cKind \in {"dashboard", "log"} /\ cLoading = TRUE
        /\ cError = FALSE /\ cFilter = "any" /\ cOpen = Nil
        /\ cWrites = 0 /\ cTurns = 0
    BY DEF Calls!Init
  <2>3. QED BY <1>1, <1>2, <2>1, <2>2 DEF Calls!TypeOK
<1>4. ShownIsStored
  BY <1>1, <1>2 DEF ShownIsStored, Calls!Empty
<1>5. QED BY <1>3, <1>4 DEF CallsInv

LEMMA CallsNext == CallsInv /\ Calls!Next => CallsInv'
<1> SUFFICES ASSUME CallsInv, Calls!Next PROVE CallsInv'
  OBVIOUS
<1>1. ASSUME NEW f \in Flight,
             \/ Calls!Refresh(f) \/ Calls!ServerLists(f) \/ Calls!ListArrives(f)
             \/ Calls!ListLost(f) \/ Calls!ServerPatches(f) \/ Calls!PatchArrives(f)
             \/ Calls!PatchLost(f)
      PROVE  CallsInv'
  BY <1>1, RefreshKeeps, ServerListsKeeps, ListEndsKeeps, ServerPatchesKeeps, PatchEndsKeeps
<1>2. QED BY <1>1, ExpandKeeps, TypeKeeps, SetFilterKeeps, ClickKeeps, ElsewhereKeeps
          DEF Calls!Next

-----------------------------------------------------------------------------
(* The contacts: requests and the gate.                                    *)

LEMMA ContactsTyped ==
    ASSUME ContactsInv
    PROVE  /\ kFlight \in [Flight -> Contacts!Request \cup {Contacts!Idle}]
           /\ \A f \in Flight : kFlight[f] # Contacts!Idle =>
                  kFlight[f] \in Contacts!Request /\ kFlight[f].what \in Contacts!Kind
           /\ \A f \in Flight : kFlight[f].what # "idle" <=> kFlight[f] # Contacts!Idle
BY DEF ContactsInv, Contacts!TypeOK, Contacts!Request, Contacts!Idle, Contacts!Kind

(* A request is sent as it is typed.                                       *)
LEMMA SentTyped ==
    ASSUME NEW what \in Contacts!Kind, NEW c \in Contact \cup {Nil},
           NEW v \in Value \cup {Nil}
    PROVE  /\ Contacts!Sent(what, c, v) \in Contacts!Request
           /\ Contacts!Sent(what, c, v).what = what
           /\ Contacts!Sent(what, c, v).state = "sent"
           /\ Contacts!Sent(what, c, v).of = c
           /\ Contacts!Sent(what, c, v).value = v
           /\ Contacts!Sent(what, c, v).data = Nil
BY DEF Contacts!Sent, Contacts!Request

(* The request of f becomes q.  The gate moves only before it is open, and *)
(* while no other request is at it.                                        *)
LEMMA FlightKeeps ==
    ASSUME ContactsInv, NEW f \in Flight,
           NEW q \in Contacts!Request \cup {Contacts!Idle},
           kFlight' = [kFlight EXCEPT ![f] = q],
           q.what # "idle" => Carries(q),
           q.what = "profile" => kGate' = "loading",
           q.what = "save" => kGate' = "creating",
           q.what = "create" => kGate' = "open",
           \/ kGate' = kGate /\ q.what \notin {"profile", "save"}
           \/ kGate' = kGate /\ q.what = kFlight[f].what
           \/ /\ kGate # "open"
              /\ \A g \in Flight \ {f} : kFlight[g].what \notin {"profile", "save"}
    PROVE  /\ kFlight' \in [Flight -> Contacts!Request \cup {Contacts!Idle}]
           /\ OneAtTheGate'
           /\ EachCarries'
<1>1. /\ kFlight' \in [Flight -> Contacts!Request \cup {Contacts!Idle}]
      /\ kFlight'[f] = q
      /\ \A g \in Flight \ {f} : kFlight'[g] = kFlight[g]
  BY ContactsTyped
<1>2. EachCarries'
  <2>1. ASSUME NEW g \in Flight, kFlight'[g].what # "idle" PROVE Carries(kFlight'[g])
    BY <1>1, <2>1 DEF ContactsInv, EachCarries
  <2>2. QED BY <2>1 DEF EachCarries, Carries
<1>3. OneAtTheGate'
  <2>1. ASSUME NEW g \in Flight
        PROVE  /\ kFlight'[g].what = "profile" => kGate' = "loading"
               /\ kFlight'[g].what = "save" => kGate' = "creating"
               /\ kFlight'[g].what = "create" => kGate' = "open"
    BY <1>1 DEF ContactsInv, OneAtTheGate
  <2>2. ASSUME NEW g \in Flight, NEW h \in Flight,
               {kFlight'[g].what, kFlight'[h].what} \subseteq {"profile", "save"}
        PROVE  g = h
    BY <1>1, <2>2 DEF ContactsInv, OneAtTheGate
  <2>3. QED BY <2>1, <2>2 DEF OneAtTheGate
<1>4. QED BY <1>1, <1>2, <1>3

(* Who is at the gate is there alone, and the gate is not open.            *)
LEMMA AloneAtTheGate ==
    ASSUME ContactsInv, NEW f \in Flight, kFlight[f].what \in {"profile", "save"}
    PROVE  /\ kGate # "open" /\ kForm = Nil /\ kVisit \in {"list", "new"}
           /\ \A g \in Flight \ {f} : kFlight[g].what \notin {"profile", "save"}
BY DEF ContactsInv, OneAtTheGate, FormBehindGate, Contacts!TypeOK

LEMMA OpensKeeps ==
    ASSUME ContactsInv, NEW f \in Flight, kFlight[f].what \in {"profile", "save"},
           Contacts!Opens(f),
           UNCHANGED <<kRows, kBorn, kLogs, kProfile, kVisit, kList, kLoading, kFailed,
                       kActing, kPanel, kWrites>>
    PROVE  ContactsInv'
<1> DEFINE q == IF kVisit = "list" THEN Contacts!Sent("list", Nil, Nil) ELSE Contacts!Idle
<1>1. q \in Contacts!Request \cup {Contacts!Idle} /\ q.what \in {"list", "idle"}
      /\ (q.what # "idle" => Carries(q))
  BY SentTyped DEF Contacts!Idle, Carries, Contacts!Kind
<1>2. kFlight' = [kFlight EXCEPT ![f] = q] /\ kGate' = "open"
  BY DEF Contacts!Opens
<1> HIDE DEF q
<1>3. kFlight' \in [Flight -> Contacts!Request \cup {Contacts!Idle}] /\ OneAtTheGate' /\ EachCarries'
  BY <1>1, <1>2, AloneAtTheGate, FlightKeeps
<1>4. \/ kVisit = "list" /\ kForm' = Nil
      \/ /\ kVisit = "new"
         /\ \E v \in Value : kForm' = [for |-> Nil, draft |-> v, waits |-> Nil]
  BY AloneAtTheGate DEF Contacts!Opens
<1>5. Contacts!TypeOK'
  BY <1>2, <1>3, <1>4 DEF ContactsInv, Contacts!TypeOK
<1>6. FormBehindGate'
  BY <1>2, <1>4 DEF FormBehindGate
<1>7. QED BY <1>3, <1>5, <1>6 DEF ContactsInv

(* The request at the gate ends and leaves its form there.                 *)
LEMMA BackAtTheForm ==
    ASSUME ContactsInv, NEW f \in Flight, kFlight[f].what \in {"profile", "save"},
           kGate' = "form",
           kFlight' = [kFlight EXCEPT ![f] = Contacts!Idle],
           UNCHANGED <<kRows, kBorn, kLogs, kProfile, kVisit, kList, kLoading, kFailed,
                       kForm, kActing, kPanel, kWrites>>
    PROVE  ContactsInv'
<1>1. kFlight' \in [Flight -> Contacts!Request \cup {Contacts!Idle}] /\ OneAtTheGate' /\ EachCarries'
  <2>1. Contacts!Idle.what = "idle"
    BY DEF Contacts!Idle
  <2>2. QED BY <2>1, AloneAtTheGate, FlightKeeps
<1>2. Contacts!TypeOK'
  BY <1>1 DEF ContactsInv, Contacts!TypeOK
<1>3. FormBehindGate'
  BY AloneAtTheGate DEF FormBehindGate
<1>4. QED BY <1>1, <1>2, <1>3 DEF ContactsInv

LEMMA GateKeeps ==
    ASSUME ContactsInv, NEW f \in Flight,
           \/ Contacts!GateAnswered(f) \/ Contacts!GateLost(f)
           \/ Contacts!ProfileSaved(f) \/ Contacts!ProfileFails(f)
    PROVE  ContactsInv'
<1>1. CASE Contacts!GateAnswered(f)
  BY <1>1, OpensKeeps, BackAtTheForm DEF Contacts!GateAnswered, Contacts!store
<1>2. CASE Contacts!GateLost(f)
  BY <1>2, BackAtTheForm DEF Contacts!GateLost, Contacts!store
<1>3. CASE Contacts!ProfileSaved(f)
  BY <1>3, OpensKeeps DEF Contacts!ProfileSaved, Contacts!store
<1>4. CASE Contacts!ProfileFails(f)
  BY <1>4, BackAtTheForm DEF Contacts!ProfileFails, Contacts!store
<1>5. QED BY <1>1, <1>2, <1>3, <1>4

LEMMA SubmitProfileKeeps ==
    ASSUME ContactsInv, NEW f \in Flight, Contacts!SubmitProfile(f)
    PROVE  ContactsInv'
<1> DEFINE q == Contacts!Sent("save", Nil, Nil)
<1>1. q \in Contacts!Request /\ q.what = "save" /\ Carries(q)
  BY SentTyped DEF Carries, Contacts!Kind
<1>2. /\ kGate = "form" /\ kGate' = "creating"
      /\ kFlight' = [kFlight EXCEPT ![f] = q]
      /\ UNCHANGED <<kRows, kBorn, kLogs, kProfile, kVisit, kList, kLoading, kFailed,
                     kForm, kActing, kPanel, kWrites>>
  BY DEF Contacts!SubmitProfile, Contacts!store
<1>3. \A g \in Flight : kFlight[g].what \notin {"profile", "save"}
  BY <1>2 DEF ContactsInv, OneAtTheGate
<1> HIDE DEF q
<1>4. kFlight' \in [Flight -> Contacts!Request \cup {Contacts!Idle}] /\ OneAtTheGate' /\ EachCarries'
  BY <1>1, <1>2, <1>3, FlightKeeps
<1>5. Contacts!TypeOK'
  BY <1>2, <1>4 DEF ContactsInv, Contacts!TypeOK
<1>6. FormBehindGate'
  BY <1>2 DEF ContactsInv, FormBehindGate
<1>7. QED BY <1>4, <1>5, <1>6 DEF ContactsInv

-----------------------------------------------------------------------------
(* The contacts: forms and buttons.                                        *)

(* A step that sends nothing and leaves the gate alone.                    *)
LEMMA NothingSent ==
    ASSUME ContactsInv, UNCHANGED <<kFlight, kGate>>
    PROVE  /\ kFlight' \in [Flight -> Contacts!Request \cup {Contacts!Idle}]
           /\ OneAtTheGate' /\ EachCarries'
BY ContactsTyped DEF ContactsInv, OneAtTheGate, EachCarries, Carries

(* What is sent from a page behind the gate, or nothing.                   *)
LEMMA SentFromPage ==
    ASSUME ContactsInv, NEW f \in Flight, NEW what \in Contacts!Kind \ {"profile", "save"},
           NEW c \in Contact \cup {Nil}, NEW v \in Value \cup {Nil},
           what \in {"put", "delete", "log", "history"} => c \in Contact,
           what \in {"create", "put"} => v \in Value,
           what = "create" => kGate = "open",
           kGate' = kGate,
           kFlight' = [kFlight EXCEPT ![f] = Contacts!Sent(what, c, v)]
    PROVE  /\ kFlight' \in [Flight -> Contacts!Request \cup {Contacts!Idle}]
           /\ OneAtTheGate' /\ EachCarries'
<1> DEFINE q == Contacts!Sent(what, c, v)
<1>1. q \in Contacts!Request /\ q.what = what /\ Carries(q)
  BY SentTyped DEF Carries
<1> HIDE DEF q
<1>2. kFlight' = [kFlight EXCEPT ![f] = q]
  BY DEF q
<1>3. QED BY <1>1, <1>2, FlightKeeps

LEMMA RequestEnds ==
    ASSUME ContactsInv, NEW f \in Flight, Contacts!Ends(f), kGate' = kGate
    PROVE  /\ kFlight' \in [Flight -> Contacts!Request \cup {Contacts!Idle}]
           /\ OneAtTheGate' /\ EachCarries'
<1>1. Contacts!Idle.what = "idle"
  BY DEF Contacts!Idle
<1>2. QED BY <1>1, FlightKeeps DEF Contacts!Ends

LEMMA WritesTyped ==
    ASSUME ContactsInv, kWrites < MaxWrites, kWrites' = kWrites + 1
    PROVE  kWrites' \in 0 .. MaxWrites
BY OwnerPagesAssumption DEF ContactsInv, Contacts!TypeOK

LEMMA FormsKeep ==
    ASSUME ContactsInv,
           \/ \E c \in Contact : Contacts!Edit(c)
           \/ \E v \in Value : Contacts!Type(v)
           \/ Contacts!Cancel
           \/ Contacts!CloseHistory
    PROVE  ContactsInv'
<1>1. /\ UNCHANGED <<kRows, kBorn, kLogs, kProfile, kVisit, kGate, kList, kLoading, kFailed,
                     kActing, kFlight, kWrites>>
      /\ kPanel' \in {kPanel, Nil}
  BY DEF Contacts!Edit, Contacts!Type, Contacts!Cancel, Contacts!CloseHistory, Contacts!store
<1> DEFINE FormKept ==
        /\ kForm' \in [for : Contact \cup {Nil}, draft : Value, waits : Flight \cup {Nil}]
                       \cup {Nil}
        /\ FormBehindGate'
<1>2. FormKept
  <2>1. ASSUME NEW c \in Contact, Contacts!Edit(c)
        PROVE  FormKept
    <3>1. kGate = "open" /\ kVisit = "list" /\ kList[c] \in Value
      BY <2>1 DEF Contacts!Edit, Contacts!Shown, ContactsInv, Contacts!TypeOK, Contacts!List
    <3>2. /\ kForm' \in [for : Contact \cup {Nil}, draft : Value, waits : Flight \cup {Nil}]
          /\ kForm'.for = c
      BY <2>1, <3>1 DEF Contacts!Edit, ContactsInv, Contacts!TypeOK
    <3>3. QED BY <1>1, <3>1, <3>2 DEF FormBehindGate
  <2>2. ASSUME NEW v \in Value, Contacts!Type(v)
        PROVE  FormKept
    <3>1. /\ kForm' \in [for : Contact \cup {Nil}, draft : Value, waits : Flight \cup {Nil}]
          /\ kForm'.for = kForm.for /\ kForm # Nil
      BY <2>2 DEF Contacts!Type, ContactsInv, Contacts!TypeOK
    <3>2. QED BY <1>1, <3>1 DEF ContactsInv, FormBehindGate
  <2>3. CASE Contacts!Cancel
    BY <1>1, <2>3 DEF Contacts!Cancel, ContactsInv, FormBehindGate
  <2>4. CASE Contacts!CloseHistory
    BY <1>1, <2>4 DEF Contacts!CloseHistory, ContactsInv, FormBehindGate, Contacts!TypeOK
  <2>5. QED BY <2>1, <2>2, <2>3, <2>4
<1>3. Contacts!TypeOK'
  BY <1>1, <1>2 DEF ContactsInv, Contacts!TypeOK
<1>4. QED BY <1>1, <1>2, <1>3, NothingSent DEF ContactsInv

LEMMA SubmitKeeps ==
    ASSUME ContactsInv, NEW f \in Flight, Contacts!Submit(f)
    PROVE  ContactsInv'
<1> DEFINE what == IF kVisit = "new" THEN "create" ELSE "put"
<1>1. /\ kForm \in [for : Contact \cup {Nil}, draft : Value, waits : Flight \cup {Nil}]
      /\ kGate = "open" /\ kForm # Nil
      /\ kVisit # "new" => kForm.for \in Contact
  BY DEF Contacts!Submit, ContactsInv, FormBehindGate, Contacts!TypeOK
<1>2. /\ kForm' = [kForm EXCEPT !.waits = f]
      /\ kFlight' = [kFlight EXCEPT ![f] = Contacts!Sent(what, kForm.for, kForm.draft)]
      /\ kWrites < MaxWrites /\ kWrites' = kWrites + 1
      /\ UNCHANGED <<kRows, kBorn, kLogs, kProfile, kVisit, kGate, kList, kLoading, kFailed,
                     kActing, kPanel>>
  BY DEF Contacts!Submit, Contacts!store
<1>3. what \in Contacts!Kind \ {"profile", "save"} /\ what \in {"create", "put"}
      /\ (what = "put" => kVisit # "new")
  BY DEF Contacts!Kind
<1> HIDE DEF what
<1>4. /\ kFlight' \in [Flight -> Contacts!Request \cup {Contacts!Idle}]
      /\ OneAtTheGate' /\ EachCarries'
  BY <1>1, <1>2, <1>3, SentFromPage
<1>5. kForm' \in [for : Contact \cup {Nil}, draft : Value, waits : Flight \cup {Nil}]
      /\ kForm'.for = kForm.for
  BY <1>1, <1>2
<1>6. Contacts!TypeOK'
  BY <1>2, <1>4, <1>5, WritesTyped DEF ContactsInv, Contacts!TypeOK
<1>7. FormBehindGate'
  BY <1>1, <1>2, <1>5 DEF ContactsInv, FormBehindGate
<1>8. QED BY <1>4, <1>6, <1>7 DEF ContactsInv

LEMMA ButtonsKeep ==
    ASSUME ContactsInv, NEW f \in Flight,
           \/ \E c \in Contact :
                  Contacts!Delete(f, c) \/ Contacts!LogCall(f, c) \/ Contacts!ViewHistory(f, c)
           \/ Contacts!Refresh(f)
    PROVE  ContactsInv'
<1> DEFINE Queued ==
        /\ kFlight' \in [Flight -> Contacts!Request \cup {Contacts!Idle}]
        /\ OneAtTheGate' /\ EachCarries'
<1>1. Queued
  <2>1. ASSUME NEW c \in Contact, NEW what \in {"delete", "log", "history"},
               kFlight' = [kFlight EXCEPT ![f] = Contacts!Sent(what, c, Nil)],
               kGate' = kGate
        PROVE  Queued
    BY <2>1, SentFromPage DEF Contacts!Kind
  <2>2. CASE kFlight' = [kFlight EXCEPT ![f] = Contacts!Sent("list", Nil, Nil)]
             /\ kGate' = kGate
    BY <2>2, SentFromPage DEF Contacts!Kind
  <2>3. QED BY <2>1, <2>2 DEF Contacts!Delete, Contacts!LogCall, Contacts!ViewHistory,
                              Contacts!Refresh, Contacts!Reloads, Contacts!page
<1>2. UNCHANGED <<kRows, kBorn, kLogs, kProfile, kVisit, kGate, kList, kFailed, kForm>>
  BY DEF Contacts!Delete, Contacts!LogCall, Contacts!ViewHistory, Contacts!Refresh,
         Contacts!store, Contacts!page
<1>3. kLoading' \in BOOLEAN
  BY DEF Contacts!Delete, Contacts!LogCall, Contacts!ViewHistory, Contacts!Refresh,
         Contacts!Reloads, Contacts!page, ContactsInv, Contacts!TypeOK
<1>4. kActing' \in [Contact -> Flight \cup {Nil}]
  BY DEF Contacts!Delete, Contacts!LogCall, Contacts!ViewHistory, Contacts!Refresh,
         Contacts!Reloads, Contacts!Calm, Contacts!page, ContactsInv, Contacts!TypeOK
<1>5. kPanel' \in [of : Contact, busy : BOOLEAN, shows : Contact \cup {Nil}] \cup {Nil}
  <2>1. \/ kPanel' = kPanel
        \/ \E c \in Contact : kPanel' = [of |-> c, busy |-> TRUE, shows |-> Nil]
    BY DEF Contacts!Delete, Contacts!LogCall, Contacts!ViewHistory, Contacts!Refresh,
           Contacts!page
  <2>2. kPanel \in [of : Contact, busy : BOOLEAN, shows : Contact \cup {Nil}] \cup {Nil}
    BY DEF ContactsInv, Contacts!TypeOK
  <2>3. ASSUME NEW c \in Contact
        PROVE  [of |-> c, busy |-> TRUE, shows |-> Nil]
               \in [of : Contact, busy : BOOLEAN, shows : Contact \cup {Nil}]
    OBVIOUS
  <2>4. QED BY <2>1, <2>2, <2>3
<1>6. kWrites' \in 0 .. MaxWrites
  <2>1. UNCHANGED kWrites \/ (kWrites < MaxWrites /\ kWrites' = kWrites + 1)
    BY DEF Contacts!Delete, Contacts!LogCall, Contacts!ViewHistory, Contacts!Refresh
  <2>2. QED BY <2>1, WritesTyped DEF ContactsInv, Contacts!TypeOK
<1>7. Contacts!TypeOK'
  BY <1>1, <1>2, <1>3, <1>4, <1>5, <1>6 DEF ContactsInv, Contacts!TypeOK
<1>8. FormBehindGate'
  BY <1>2 DEF ContactsInv, FormBehindGate
<1>9. QED BY <1>1, <1>7, <1>8 DEF ContactsInv

-----------------------------------------------------------------------------
(* The contacts: the routes.                                               *)

(* A request is handled further, with what its answer may carry.           *)
LEMMA HandledKeeps ==
    ASSUME ContactsInv, NEW f \in Flight, kFlight[f].what \in Contacts!Kind,
           NEW state \in {"read", "ok", "refused"},
           NEW data \in Contacts!List \cup Contact \cup {Nil},
           kFlight[f].what = "list" /\ state = "ok" => data \in Contacts!List,
           kFlight[f].what = "history" => data \in Contact \cup {Nil},
           Contacts!Handled(f, state, data),
           kRows' \in Contacts!List, kBorn' \subseteq Contact, kLogs' \subseteq Contact,
           kProfile' \in BOOLEAN,
           UNCHANGED <<Contacts!page, kWrites>>
    PROVE  ContactsInv'
<1> DEFINE q == [kFlight[f] EXCEPT !.state = state, !.data = data]
<1>1. kFlight[f] \in Contacts!Request /\ Carries(kFlight[f])
  BY ContactsTyped DEF ContactsInv, EachCarries, Contacts!Idle, Contacts!Kind
<1>2. /\ q \in Contacts!Request
      /\ q.what = kFlight[f].what /\ q.of = kFlight[f].of /\ q.value = kFlight[f].value
      /\ q.state = state /\ q.data = data
  BY <1>1 DEF Contacts!Request
<1>3. Carries(q)
  BY <1>1, <1>2 DEF Carries
<1>4. kFlight' = [kFlight EXCEPT ![f] = q]
  BY ContactsTyped DEF Contacts!Handled
<1> HIDE DEF q
<1>5. UNCHANGED <<kVisit, kGate, kList, kLoading, kFailed, kForm, kActing, kPanel, kWrites>>
  BY DEF Contacts!page
<1>6. /\ q.what = "profile" => kGate = "loading"
      /\ q.what = "save" => kGate = "creating"
      /\ q.what = "create" => kGate = "open"
  BY <1>2 DEF ContactsInv, OneAtTheGate
<1>7. /\ kFlight' \in [Flight -> Contacts!Request \cup {Contacts!Idle}]
      /\ OneAtTheGate' /\ EachCarries'
  BY <1>2, <1>3, <1>4, <1>5, <1>6, FlightKeeps
<1>8. Contacts!TypeOK'
  BY <1>5, <1>7 DEF ContactsInv, Contacts!TypeOK
<1>9. FormBehindGate'
  BY <1>5 DEF ContactsInv, FormBehindGate
<1>10. QED BY <1>7, <1>8, <1>9 DEF ContactsInv

(* What the store is typed as, and the page is left alone.                 *)
LEMMA StoreTyped ==
    ASSUME ContactsInv
    PROVE  /\ kRows \in Contacts!List /\ kBorn \subseteq Contact /\ kLogs \subseteq Contact
           /\ kProfile \in BOOLEAN
BY DEF ContactsInv, Contacts!TypeOK

LEMMA ServerReadsKeeps ==
    ASSUME ContactsInv, NEW f \in Flight, Contacts!ServerReads(f)
    PROVE  ContactsInv'
<1>1. /\ kFlight[f].what \in {"list", "history", "profile"}
      /\ kFlight[f].what \in Contacts!Kind
      /\ UNCHANGED <<kRows, kBorn, kLogs, kProfile, Contacts!page, kWrites>>
  BY DEF Contacts!ServerReads, Contacts!Kind, Contacts!store
<1>2. CASE kFlight[f].what = "list" /\ Contacts!Handled(f, "ok", kRows)
  BY <1>1, <1>2, StoreTyped, HandledKeeps
<1>3. CASE /\ kFlight[f].what = "history"
           /\ Contacts!Handled(f, "ok", IF kFlight[f].of \in kLogs THEN kFlight[f].of ELSE Nil)
  <2> DEFINE data == IF kFlight[f].of \in kLogs THEN kFlight[f].of ELSE Nil
  <2>1. data \in Contact \cup {Nil}
    BY StoreTyped
  <2>2. Contacts!Handled(f, "ok", data)
    BY <1>3
  <2> HIDE DEF data
  <2>3. QED BY <1>1, <1>3, <2>1, <2>2, StoreTyped, HandledKeeps
<1>4. CASE /\ kFlight[f].what = "profile"
           /\ Contacts!Handled(f, "ok", IF kProfile THEN Contacts!Empty ELSE Nil)
  <2> DEFINE data == IF kProfile THEN Contacts!Empty ELSE Nil
  <2>1. data \in Contacts!List \cup {Nil}
    BY DEF Contacts!Empty, Contacts!List
  <2>2. Contacts!Handled(f, "ok", data)
    BY <1>4
  <2> HIDE DEF data
  <2>3. QED BY <1>1, <1>4, <2>1, <2>2, StoreTyped, HandledKeeps
<1>5. CASE Contacts!Handled(f, "refused", Nil)
  BY <1>1, <1>5, StoreTyped, HandledKeeps
<1>6. QED BY <1>2, <1>3, <1>4, <1>5 DEF Contacts!ServerReads

LEMMA ServerWritesKeeps ==
    ASSUME ContactsInv, NEW f \in Flight,
           \/ Contacts!SavesProfile(f) \/ Contacts!Creates(f) \/ Contacts!PutsContact(f)
           \/ Contacts!FindsForLog(f) \/ Contacts!WritesLog(f) \/ Contacts!DeletesContact(f)
    PROVE  ContactsInv'
<1>1. kFlight[f].what \in Contacts!Kind \ {"list", "history", "profile"}
  BY DEF Contacts!SavesProfile, Contacts!Creates, Contacts!PutsContact, Contacts!FindsForLog,
         Contacts!WritesLog, Contacts!DeletesContact, Contacts!Kind
<1>2. Carries(kFlight[f])
  BY <1>1 DEF ContactsInv, EachCarries, Contacts!Kind
<1>3. ASSUME NEW state \in {"read", "ok", "refused"}, Contacts!Handled(f, state, Nil),
             kRows' \in Contacts!List, kBorn' \subseteq Contact, kLogs' \subseteq Contact,
             kProfile' \in BOOLEAN, UNCHANGED <<Contacts!page, kWrites>>
      PROVE  ContactsInv'
  BY <1>1, <1>3, HandledKeeps
<1>4. CASE Contacts!SavesProfile(f)
  BY <1>3, <1>4, StoreTyped DEF Contacts!SavesProfile, Contacts!SaveClientProfile
<1>5. CASE Contacts!Creates(f)
  <2>1. kFlight[f].value \in Value
    BY <1>2, <1>5 DEF Contacts!Creates, Carries
  <2>2. PICK c \in Contact \ kBorn :
            kRows' = [kRows EXCEPT ![c] = kFlight[f].value] /\ kBorn' = kBorn \cup {c}
    BY <1>5 DEF Contacts!Creates, Contacts!CreateContact
  <2>3. kRows' \in Contacts!List /\ kBorn' \subseteq Contact
    BY <2>1, <2>2, StoreTyped DEF Contacts!List
  <2>4. QED BY <1>3, <1>5, <2>3, StoreTyped DEF Contacts!Creates
<1>6. CASE Contacts!PutsContact(f)
  <2>1. kFlight[f].value \in Value /\ kFlight[f].of \in Contact
    BY <1>2, <1>6 DEF Contacts!PutsContact, Carries
  <2>2. kRows' \in Contacts!List
    BY <1>6, <2>1, StoreTyped
       DEF Contacts!PutsContact, Contacts!UpdateContact, Contacts!List
  <2>3. QED BY <1>3, <1>6, <2>2, StoreTyped DEF Contacts!PutsContact
<1>7. CASE Contacts!FindsForLog(f)
  BY <1>3, <1>7, StoreTyped DEF Contacts!FindsForLog, Contacts!store
<1>8. CASE Contacts!WritesLog(f)
  <2>1. kFlight[f].of \in Contact
    BY <1>2, <1>8 DEF Contacts!WritesLog, Carries
  <2>2. QED BY <1>3, <1>8, <2>1, StoreTyped DEF Contacts!WritesLog, Contacts!AddActivityLog
<1>9. CASE Contacts!DeletesContact(f)
  <2>1. kRows' \in Contacts!List
    BY <1>9, StoreTyped DEF Contacts!DeletesContact, Contacts!DeleteContact, Contacts!List
  <2>2. QED BY <1>3, <1>9, <2>1, StoreTyped DEF Contacts!DeletesContact
<1>10. QED BY <1>4, <1>5, <1>6, <1>7, <1>8, <1>9

LEMMA OtherBrowserKeeps ==
    ASSUME ContactsInv, NEW c \in Contact, Contacts!OtherBrowser(c)
    PROVE  ContactsInv'
<1>1. /\ UNCHANGED <<kLogs, kProfile, kVisit, kGate, kList, kLoading, kFailed, kForm,
                     kActing, kPanel, kFlight>>
      /\ kBorn' \in {kBorn, kBorn \cup {c}}
      /\ kWrites < MaxWrites /\ kWrites' = kWrites + 1
  BY DEF Contacts!OtherBrowser, Contacts!page
<1>2. kRows' \in Contacts!List
  <2>1. \E v \in Value \cup {Nil} : kRows' = [kRows EXCEPT ![c] = v]
    BY DEF Contacts!OtherBrowser
  <2>2. QED BY <2>1, StoreTyped DEF Contacts!List
<1>3. kWrites' \in 0 .. MaxWrites /\ kBorn' \subseteq Contact
  BY <1>1, WritesTyped, StoreTyped
<1>4. Contacts!TypeOK'
  BY <1>1, <1>2, <1>3 DEF ContactsInv, Contacts!TypeOK
<1>5. FormBehindGate'
  BY <1>1 DEF ContactsInv, FormBehindGate
<1>6. QED BY <1>1, <1>4, <1>5, NothingSent DEF ContactsInv

-----------------------------------------------------------------------------
(* The contacts: the answers.                                              *)

(* What an answer leaves of the form is still a form behind the gate.      *)
LEMMA FormAfterTyped ==
    ASSUME ContactsInv, NEW f \in Flight, NEW saved \in BOOLEAN,
           Contacts!FormAfter(f, saved), kGate' = kGate,
           kVisit' = kVisit \/ (saved /\ kGate = "open")
    PROVE  /\ kForm' \in [for : Contact \cup {Nil}, draft : Value, waits : Flight \cup {Nil}]
                         \cup {Nil}
           /\ FormBehindGate'
<1>1. kForm \in [for : Contact \cup {Nil}, draft : Value, waits : Flight \cup {Nil}]
                \cup {Nil}
  BY DEF ContactsInv, Contacts!TypeOK
<1>2. CASE saved
  BY <1>2 DEF Contacts!FormAfter, ContactsInv, FormBehindGate
<1>3. CASE ~saved /\ kForm # Nil /\ kForm.waits = f
  <2>1. kForm' = [kForm EXCEPT !.waits = Nil]
    BY <1>3 DEF Contacts!FormAfter
  <2>2. /\ kForm' \in [for : Contact \cup {Nil}, draft : Value, waits : Flight \cup {Nil}]
        /\ kForm'.for = kForm.for
    BY <1>1, <1>3, <2>1
  <2>3. QED BY <1>3, <2>2 DEF ContactsInv, FormBehindGate
<1>4. CASE ~saved /\ ~(kForm # Nil /\ kForm.waits = f)
  BY <1>1, <1>4 DEF Contacts!FormAfter, ContactsInv, FormBehindGate
<1>5. QED BY <1>2, <1>3, <1>4

LEMMA ListArrivesKeeps ==
    ASSUME ContactsInv, NEW f \in Flight, Contacts!ListArrives(f)
    PROVE  ContactsInv'
<1>1. /\ UNCHANGED <<kRows, kBorn, kLogs, kProfile, kVisit, kGate, kForm, kActing, kPanel,
                     kWrites>>
      /\ kLoading' = FALSE /\ kFailed' \in BOOLEAN
      /\ Contacts!Ends(f)
  BY DEF Contacts!ListArrives, Contacts!store
<1>2. kList' \in Contacts!List
  <2>1. kFlight[f].what = "list" /\ (kFlight[f].state = "ok" => kFlight[f].data \in Contacts!List)
    BY DEF Contacts!ListArrives, ContactsInv, EachCarries, Carries
  <2>2. kList \in Contacts!List
    BY DEF ContactsInv, Contacts!TypeOK
  <2>3. QED BY <2>1, <2>2 DEF Contacts!ListArrives
<1>3. /\ kFlight' \in [Flight -> Contacts!Request \cup {Contacts!Idle}]
      /\ OneAtTheGate' /\ EachCarries'
  BY <1>1, RequestEnds
<1>4. Contacts!TypeOK'
  BY <1>1, <1>2, <1>3 DEF ContactsInv, Contacts!TypeOK
<1>5. FormBehindGate'
  BY <1>1 DEF ContactsInv, FormBehindGate
<1>6. QED BY <1>3, <1>4, <1>5 DEF ContactsInv

LEMMA HistoryArrivesKeeps ==
    ASSUME ContactsInv, NEW f \in Flight, Contacts!HistoryArrives(f)
    PROVE  ContactsInv'
<1>1. /\ UNCHANGED <<kRows, kBorn, kLogs, kProfile, kVisit, kGate, kList, kLoading, kFailed,
                     kForm, kActing, kWrites>>
      /\ Contacts!Ends(f)
  BY DEF Contacts!HistoryArrives, Contacts!store
<1>2. kPanel' \in [of : Contact, busy : BOOLEAN, shows : Contact \cup {Nil}] \cup {Nil}
  <2>1. kFlight[f].data \in Contact \cup {Nil}
    BY DEF Contacts!HistoryArrives, ContactsInv, EachCarries, Carries
  <2>2. kPanel \in [of : Contact, busy : BOOLEAN, shows : Contact \cup {Nil}] \cup {Nil}
    BY DEF ContactsInv, Contacts!TypeOK
  <2>3. kPanel' = IF kPanel = Nil THEN Nil
                  ELSE [kPanel EXCEPT !.busy = FALSE, !.shows = kFlight[f].data]
    BY DEF Contacts!HistoryArrives
  <2>4. QED BY <2>1, <2>2, <2>3
<1>3. /\ kFlight' \in [Flight -> Contacts!Request \cup {Contacts!Idle}]
      /\ OneAtTheGate' /\ EachCarries'
  BY <1>1, RequestEnds
<1>4. Contacts!TypeOK'
  BY <1>1, <1>2, <1>3 DEF ContactsInv, Contacts!TypeOK
<1>5. FormBehindGate'
  BY <1>1 DEF ContactsInv, FormBehindGate
<1>6. QED BY <1>3, <1>4, <1>5 DEF ContactsInv

LEMMA FreeTyped ==
    ASSUME ContactsInv, NEW f \in Flight
    PROVE  /\ Contacts!Free(f) \in [Contact -> Flight \cup {Nil}]
           /\ Contacts!Calm \in [Contact -> Flight \cup {Nil}]
BY DEF Contacts!Free, Contacts!Calm, ContactsInv, Contacts!TypeOK

LEMMA ChangeArrivesKeeps ==
    ASSUME ContactsInv, NEW f \in Flight, Contacts!ChangeArrives(f)
    PROVE  ContactsInv'
<1>1. /\ UNCHANGED <<kRows, kBorn, kLogs, kProfile, kVisit, kGate, kList, kFailed, kPanel,
                     kWrites>>
      /\ kLoading' = TRUE
      /\ kActing' = Contacts!Calm
      /\ kFlight' = [kFlight EXCEPT ![f] = Contacts!Sent("list", Nil, Nil)]
      /\ Contacts!FormAfter(f, kFlight[f].what = "put")
  BY DEF Contacts!ChangeArrives, Contacts!Continues, Contacts!Reloads, Contacts!store
<1>2. /\ kFlight' \in [Flight -> Contacts!Request \cup {Contacts!Idle}]
      /\ OneAtTheGate' /\ EachCarries'
  BY <1>1, SentFromPage DEF Contacts!Kind
<1>3. /\ kForm' \in [for : Contact \cup {Nil}, draft : Value, waits : Flight \cup {Nil}]
                    \cup {Nil}
      /\ FormBehindGate'
  <2> DEFINE saved == kFlight[f].what = "put"
  <2>1. saved \in BOOLEAN /\ Contacts!FormAfter(f, saved)
    BY <1>1
  <2> HIDE DEF saved
  <2>2. QED BY <1>1, <2>1, FormAfterTyped
<1>4. Contacts!TypeOK'
  BY <1>1, <1>2, <1>3, FreeTyped DEF ContactsInv, Contacts!TypeOK
<1>5. QED BY <1>2, <1>3, <1>4 DEF ContactsInv

LEMMA RefusalArrivesKeeps ==
    ASSUME ContactsInv, NEW f \in Flight, Contacts!RefusalArrives(f)
    PROVE  ContactsInv'
<1>1. /\ UNCHANGED <<kRows, kBorn, kLogs, kProfile, kVisit, kGate, kList, kLoading, kFailed,
                     kPanel, kWrites>>
      /\ kActing' = Contacts!Free(f)
      /\ Contacts!Ends(f)
      /\ Contacts!FormAfter(f, FALSE)
  BY DEF Contacts!RefusalArrives, Contacts!store
<1>2. /\ kFlight' \in [Flight -> Contacts!Request \cup {Contacts!Idle}]
      /\ OneAtTheGate' /\ EachCarries'
  BY <1>1, RequestEnds
<1>3. /\ kForm' \in [for : Contact \cup {Nil}, draft : Value, waits : Flight \cup {Nil}]
                    \cup {Nil}
      /\ FormBehindGate'
  BY <1>1, FormAfterTyped
<1>4. Contacts!TypeOK'
  BY <1>1, <1>2, <1>3, FreeTyped DEF ContactsInv, Contacts!TypeOK
<1>5. QED BY <1>2, <1>3, <1>4 DEF ContactsInv

LEMMA CreatedArrivesKeeps ==
    ASSUME ContactsInv, NEW f \in Flight, Contacts!CreatedArrives(f)
    PROVE  ContactsInv'
<1>1. /\ UNCHANGED <<kRows, kBorn, kLogs, kProfile, kGate, kList, kLoading, kFailed, kActing,
                     kPanel, kWrites>>
      /\ kVisit' = "left"
      /\ Contacts!Ends(f)
      /\ Contacts!FormAfter(f, TRUE)
  BY DEF Contacts!CreatedArrives, Contacts!store
<1>2. kGate = "open"
  BY DEF Contacts!CreatedArrives, ContactsInv, OneAtTheGate
<1>3. /\ kFlight' \in [Flight -> Contacts!Request \cup {Contacts!Idle}]
      /\ OneAtTheGate' /\ EachCarries'
  BY <1>1, RequestEnds
<1>4. kForm' = Nil
  BY <1>1 DEF Contacts!FormAfter
<1>5. Contacts!TypeOK'
  BY <1>1, <1>3, <1>4 DEF ContactsInv, Contacts!TypeOK
<1>6. FormBehindGate'
  BY <1>1, <1>2, <1>4 DEF FormBehindGate
<1>7. QED BY <1>3, <1>5, <1>6 DEF ContactsInv

LEMMA LostKeeps ==
    ASSUME ContactsInv, NEW f \in Flight, Contacts!Lost(f)
    PROVE  ContactsInv'
<1>1. /\ UNCHANGED <<kRows, kBorn, kLogs, kProfile, kVisit, kGate, kList, kWrites>>
      /\ kActing' = Contacts!Free(f)
      /\ kFailed' = TRUE
      /\ kLoading' \in {FALSE, kLoading}
      /\ Contacts!Ends(f)
      /\ Contacts!FormAfter(f, FALSE)
  BY DEF Contacts!Lost, Contacts!store
<1>2. kPanel' \in [of : Contact, busy : BOOLEAN, shows : Contact \cup {Nil}] \cup {Nil}
  <2>1. kPanel \in [of : Contact, busy : BOOLEAN, shows : Contact \cup {Nil}] \cup {Nil}
    BY DEF ContactsInv, Contacts!TypeOK
  <2>2. kPanel' \in {kPanel} \/ (kPanel # Nil /\
            kPanel' = [kPanel EXCEPT !.busy = FALSE, !.shows = Nil])
    BY DEF Contacts!Lost
  <2>3. QED BY <2>1, <2>2
<1>3. /\ kFlight' \in [Flight -> Contacts!Request \cup {Contacts!Idle}]
      /\ OneAtTheGate' /\ EachCarries'
  BY <1>1, RequestEnds
<1>4. /\ kForm' \in [for : Contact \cup {Nil}, draft : Value, waits : Flight \cup {Nil}]
                    \cup {Nil}
      /\ FormBehindGate'
  BY <1>1, FormAfterTyped
<1>5. Contacts!TypeOK'
  BY <1>1, <1>2, <1>3, <1>4, FreeTyped DEF ContactsInv, Contacts!TypeOK
<1>6. QED BY <1>3, <1>4, <1>5 DEF ContactsInv

LEMMA ContactsInit == Contacts!Init => ContactsInv
<1> SUFFICES ASSUME Contacts!Init PROVE ContactsInv
  OBVIOUS
<1>1. PICK f \in Flight :
          kFlight = [g \in Flight |-> IF g = f THEN Contacts!Sent("profile", Nil, Nil)
                                      ELSE Contacts!Idle]
  BY DEF Contacts!Init
<1>2. /\ kFlight \in [Flight -> Contacts!Request \cup {Contacts!Idle}]
      /\ kFlight[f].what = "profile" /\ Carries(kFlight[f])
      /\ \A g \in Flight \ {f} : kFlight[g].what = "idle"
  BY <1>1, SentTyped DEF Contacts!Idle, Carries, Contacts!Kind
<1>3. kGate = "loading" /\ kForm = Nil /\ kVisit \in {"list", "new"}
  BY DEF Contacts!Init
<1>4. OneAtTheGate
  <2>1. \A g \in Flight : kFlight[g].what \in {"profile", "save"} => g = f
    BY <1>2
  <2>2. \A g \in Flight : kFlight[g].what \in {"profile", "idle"}
    BY <1>2
  <2>3. QED BY <1>3, <2>1, <2>2 DEF OneAtTheGate
<1>5. EachCarries
  BY <1>2 DEF EachCarries
<1>6. FormBehindGate
  BY <1>3 DEF FormBehindGate
<1>7. Contacts!TypeOK
  <2>1. 0 \in 0 .. MaxWrites
    BY OwnerPagesAssumption
  <2>2. /\ kRows \in Contacts!List /\ kBorn \subseteq Contact /\ kLogs = {}
        /\ kProfile \in BOOLEAN /\ kList = Contacts!Empty /\ kLoading = TRUE
        /\ kFailed = FALSE /\ kActing = Contacts!Calm /\ kPanel = Nil /\ kWrites = 0
    BY DEF Contacts!Init, Contacts!List
  <2>3. kList \in Contacts!List /\ kActing \in [Contact -> Flight \cup {Nil}]
    BY <2>2 DEF Contacts!Empty, Contacts!Calm, Contacts!List
  <2>4. QED BY <1>2, <1>3, <2>1, <2>2, <2>3 DEF Contacts!TypeOK
<1>8. QED BY <1>4, <1>5, <1>6, <1>7 DEF ContactsInv

LEMMA ContactsNext == ContactsInv /\ Contacts!Next => ContactsInv'
<1> SUFFICES ASSUME ContactsInv, Contacts!Next PROVE ContactsInv'
  OBVIOUS
<1>1. ASSUME NEW f \in Flight, Contacts!Server(f) PROVE ContactsInv'
  BY <1>1, ServerReadsKeeps, ServerWritesKeeps DEF Contacts!Server
<1>2. ASSUME NEW f \in Flight, Contacts!Arrives(f) PROVE ContactsInv'
  BY <1>2, GateKeeps, ListArrivesKeeps, HistoryArrivesKeeps, ChangeArrivesKeeps,
     RefusalArrivesKeeps, CreatedArrivesKeeps
     DEF Contacts!Arrives
<1>3. QED BY <1>1, <1>2, LostKeeps, GateKeeps, SubmitProfileKeeps, SubmitKeeps, ButtonsKeep,
             FormsKeep, OtherBrowserKeeps
          DEF Contacts!Next

-----------------------------------------------------------------------------
(* The pages together.                                                     *)

LEMMA PagesInitInv == PagesInit => PagesInv
BY CallsInit, ContactsInit DEF PagesInit, PagesInv

(* What nobody visits stays as it is.                                      *)
LEMMA CallsStay ==
    ASSUME CallsInv, UNCHANGED callVars
    PROVE  CallsInv'
<1>1. UNCHANGED <<cRows, cSession, cKind, cList, cLoading, cError, cFilter, cOpen, cControls,
                  cFlight, cWrites, cTurns>>
  BY DEF callVars
<1>2. Calls!TypeOK'
  BY <1>1 DEF CallsInv, Calls!TypeOK
<1>3. ShownIsStored'
  BY <1>1 DEF CallsInv, ShownIsStored
<1>4. QED BY <1>2, <1>3 DEF CallsInv

LEMMA ContactsStay ==
    ASSUME ContactsInv, UNCHANGED contactVars
    PROVE  ContactsInv'
<1>1. UNCHANGED <<kRows, kBorn, kLogs, kProfile, kVisit, kGate, kList, kLoading, kFailed,
                  kForm, kActing, kPanel, kFlight, kWrites>>
  BY DEF contactVars
<1>2. Contacts!TypeOK'
  BY <1>1 DEF ContactsInv, Contacts!TypeOK
<1>3. FormBehindGate'
  BY <1>1 DEF ContactsInv, FormBehindGate
<1>4. QED BY <1>1, <1>2, <1>3, NothingSent DEF ContactsInv

LEMMA PagesNextInv == PagesInv /\ [PagesNext]_pageVars => PagesInv'
<1> SUFFICES ASSUME PagesInv, [PagesNext]_pageVars PROVE PagesInv'
  OBVIOUS
<1>1. CASE OnCalls(Calls!Next)
  BY <1>1, CallsNext DEF OnCalls, PagesInv
<1>2. CASE OnContacts(Contacts!Next)
  BY <1>2, ContactsNext DEF OnContacts, PagesInv
<1>3. CASE UNCHANGED pageVars
  BY <1>3, CallsStay, ContactsStay DEF pageVars, PagesInv
<1>4. QED BY <1>1, <1>2, <1>3 DEF PagesNext

LEMMA PagesInvariance == PagesSpec => []PagesInv
BY PagesInitInv, PagesNextInv, PTL DEF PagesSpec

(* Every reachable state of either page is well typed: in particular no    *)
(* form waits, and no row is written, for a contact or a call there is not.*)
THEOREM PageTypes == PagesSpec => []PagesTypeOK
<1>1. PagesInv => PagesTypeOK
  BY DEF PagesInv, PagesTypeOK, CallsInv, ContactsInv
<1>2. QED BY <1>1, PagesInvariance, PTL

(* A change of a call changes its status or its notes and not both: it     *)
(* writes the field that was clicked over the row as it is stored by then. *)
THEOREM ClicksChangeOneThing == PagesSpec => OneThingAtATime
<1>1. PagesInv /\ [PagesNext]_pageVars => [page = "calls" => Calls!ChangesOneThing]_pageVars
  <2> SUFFICES ASSUME PagesInv, PagesNext, page = "calls" PROVE Calls!ChangesOneThing
    BY DEF pageVars
  <2>1. CallsInv /\ Calls!Next
    BY DEF PagesInv, PagesNext, OnCalls, OnContacts
  <2>2. ASSUME NEW c \in Call, NEW u \in Calls!Update, cRows[c] # Nil, NEW shown,
               cRows' = [cRows EXCEPT ![c] = Calls!Patch(@, shown, u)]
        PROVE  Calls!ChangesOneThing
    <3>1. cRows[c] \in Calls!Row
      BY <2>1, <2>2, PageTyped DEF Calls!List
    <3>2. LET new == Calls!Patch(cRows[c], shown, u)
          IN  new.status = cRows[c].status \/ new.notes = cRows[c].notes
      BY <3>1 DEF Calls!Patch, Calls!Update, Calls!Row
    <3>3. QED BY <2>1, <2>2, <3>2, PageTyped DEF Calls!ChangesOneThing, Calls!List
  <2>3. ASSUME UNCHANGED cRows \/ \E c \in Call : Calls!CallArrives(c)
        PROVE  Calls!ChangesOneThing
    BY <2>1, <2>3, PageTyped DEF Calls!ChangesOneThing, Calls!CallArrives, Calls!List
  <2>4. ASSUME NEW f \in Flight, Calls!ServerPatches(f)
        PROVE  Calls!ChangesOneThing
    <3>1. /\ cFlight[f].call \in Call /\ cFlight[f].update \in Calls!Update
          /\ cRows[cFlight[f].call] # Nil
      BY <2>1, <2>4, RequestsTyped DEF Calls!ServerPatches, CallsInv, ShownIsStored
    <3>2. QED BY <2>2, <2>3, <2>4, <3>1 DEF Calls!ServerPatches
  <2>5. ASSUME NEW c \in Call, NEW u \in Calls!Update, Calls!OtherDevice(c, u)
        PROVE  Calls!ChangesOneThing
    BY <2>2, <2>5 DEF Calls!OtherDevice
  <2>6. QED BY <2>1, <2>3, <2>4, <2>5
            DEF Calls!Next, Calls!Expand, Calls!Type, Calls!Refresh, Calls!ServerLists,
                Calls!ListArrives, Calls!ListLost, Calls!PatchArrives, Calls!PatchLost,
                Calls!SetFilter, Calls!Click, Calls!SessionEnds
<1>2. QED BY <1>1, PagesInvariance, PTL DEF PagesSpec, OneThingAtATime

(* A contact that was deleted stays deleted, whatever forms were open and  *)
(* whatever requests were on their way by then.                            *)
THEOREM DeletedContactsStay == PagesSpec => NoResurrection
<1>1. PagesInv /\ [PagesNext]_pageVars => [page = "contacts" => Contacts!DeletedStays]_pageVars
  <2> SUFFICES ASSUME PagesInv, PagesNext, page = "contacts" PROVE Contacts!DeletedStays
    BY DEF pageVars
  <2>1. ContactsInv /\ Contacts!Next
    BY DEF PagesInv, PagesNext, OnCalls, OnContacts
  <2>2. ASSUME NEW c, NEW v, kRows' = [kRows EXCEPT ![c] = v],
               c \notin kBorn \/ kRows[c] # Nil \/ v = Nil
        PROVE  Contacts!DeletedStays
    BY <2>1, <2>2, StoreTyped DEF Contacts!DeletedStays, Contacts!List
  <2>3. ASSUME UNCHANGED kRows PROVE Contacts!DeletedStays
    BY <2>3 DEF Contacts!DeletedStays
  <2>4. ASSUME NEW f \in Flight, Contacts!Creates(f) PROVE Contacts!DeletedStays
    BY <2>2, <2>4 DEF Contacts!Creates, Contacts!CreateContact
  <2>5. ASSUME NEW f \in Flight, Contacts!PutsContact(f) PROVE Contacts!DeletedStays
    <3> DEFINE c == kFlight[f].of
    <3>1. CASE kRows[c] # Nil
      BY <2>2, <2>5, <3>1
         DEF Contacts!PutsContact, Contacts!UpdateContact, Contacts!Found
    <3>2. CASE kRows[c] = Nil
      BY <2>1, <2>5, <3>2, StoreTyped
         DEF Contacts!PutsContact, Contacts!UpdateContact, Contacts!Found,
             Contacts!DeletedStays, Contacts!List
    <3>3. QED BY <3>1, <3>2
  <2>6. ASSUME NEW f \in Flight, Contacts!DeletesContact(f) PROVE Contacts!DeletedStays
    BY <2>2, <2>6 DEF Contacts!DeletesContact, Contacts!DeleteContact
  <2>7. ASSUME NEW c \in Contact, Contacts!OtherBrowser(c) PROVE Contacts!DeletedStays
    BY <2>2, <2>7 DEF Contacts!OtherBrowser
  <2>8. ASSUME NEW f \in Flight, Contacts!Server(f) PROVE Contacts!DeletedStays
    BY <2>3, <2>4, <2>5, <2>6, <2>8
       DEF Contacts!Server, Contacts!ServerReads, Contacts!SavesProfile, Contacts!FindsForLog,
           Contacts!WritesLog, Contacts!store
  <2>9. ASSUME NEW f \in Flight,
               \/ Contacts!Arrives(f) \/ Contacts!Lost(f) \/ Contacts!GateLost(f)
               \/ Contacts!ProfileFails(f) \/ Contacts!SubmitProfile(f)
               \/ Contacts!Submit(f) \/ Contacts!Refresh(f)
        PROVE  UNCHANGED kRows
    BY <2>9 DEF Contacts!Arrives, Contacts!Lost, Contacts!GateLost, Contacts!ProfileFails,
           Contacts!SubmitProfile, Contacts!Submit, Contacts!Refresh, Contacts!GateAnswered,
           Contacts!ProfileSaved, Contacts!ListArrives, Contacts!HistoryArrives,
           Contacts!ChangeArrives, Contacts!RefusalArrives, Contacts!CreatedArrives,
           Contacts!store
  <2>10. QED BY <2>1, <2>3, <2>7, <2>8, <2>9
             DEF Contacts!Next, Contacts!Edit, Contacts!Type, Contacts!Cancel,
                 Contacts!CloseHistory, Contacts!Delete, Contacts!LogCall,
                 Contacts!ViewHistory, Contacts!store
<1>2. QED BY <1>1, PagesInvariance, PTL DEF PagesSpec, NoResurrection

-----------------------------------------------------------------------------
(* The setup, for any number of businesses, numbers and requests.  A step  *)
(* written late is harmless to HadNumber because the request that writes   *)
(* it has seen its business get a number, which the invariant records      *)
(* (WaitingHad).                                                           *)
BorrowersHad == \A n \in Number : borrower[n] # None => borrower[n] \in had

WaitingHad ==
    \A r \in Request : waiting[r] # None =>
        /\ waiting[r] \in had
        /\ step[waiting[r]] \in Step \ {"1"}

SetupInv == TypeOK /\ HadNumber /\ BorrowersHad /\ WaitingHad

LEMMA SetupInit == Init => SetupInv
BY OnboardingAssumption
   DEF Init, SetupInv, TypeOK, HadNumber, BorrowersHad, WaitingHad, Step

(* A draw lends one number, to a business that is then on record.          *)
LEMMA DrawLends ==
    ASSUME SetupInv, NEW b \in Business, Draw(b)
    PROVE  /\ borrower' \in [Number -> Business \cup {None}]
           /\ had' = had \cup {b}
           /\ \A n \in Number : borrower'[n] # None => borrower'[n] \in had'
BY DEF Draw, Free, Pool!Lend, SetupInv, TypeOK, BorrowersHad

(* One business moves to a step it may be at; nobody waits more than before*)
LEMMA MoveKeeps ==
    ASSUME SetupInv, NEW b \in Business, NEW s \in Step,
           step' = [step EXCEPT ![b] = s],
           s \in {"3", "4", "done"} => b \in had',
           step[b] \in Step \ {"1"} => s # "1",
           had \subseteq had', had' \subseteq Business, listed' \subseteq Number,
           borrower' \in [Number -> Business \cup {None}],
           \A n \in Number : borrower'[n] # None => borrower'[n] \in had',
           waiting' \in [Request -> Business \cup {None}],
           \A r \in Request : waiting'[r] \in {waiting[r], None}
    PROVE  SetupInv'
<1>1. TypeOK'
  BY DEF SetupInv, TypeOK
<1>2. HadNumber'
  BY DEF SetupInv, TypeOK, HadNumber
<1>3. BorrowersHad'
  BY DEF BorrowersHad
<1>4. WaitingHad'
  BY DEF SetupInv, TypeOK, WaitingHad
<1>5. QED BY <1>1, <1>2, <1>3, <1>4 DEF SetupInv

(* Nobody moves; a number may change hands and a request may start waiting.*)
LEMMA StayKeeps ==
    ASSUME SetupInv, UNCHANGED step,
           had \subseteq had', had' \subseteq Business, listed' \subseteq Number,
           borrower' \in [Number -> Business \cup {None}],
           \A n \in Number : borrower'[n] # None => borrower'[n] \in had',
           waiting' \in [Request -> Business \cup {None}],
           \A r \in Request : waiting'[r] # None =>
               waiting'[r] \in had' /\ step[waiting'[r]] \in Step \ {"1"}
    PROVE  SetupInv'
BY DEF SetupInv, TypeOK, HadNumber, BorrowersHad, WaitingHad

LEMMA StartKeeps ==
    ASSUME SetupInv, NEW b \in Business, Start(b)
    PROVE  SetupInv'
<1>1. /\ step[b] \in Step
      /\ AfterStart(step[b]) \in Step \ {"1"}
      /\ AfterStart(step[b]) \in {"3", "4", "done"} => step[b] \in {"3", "4", "done"}
  BY DEF Start, AfterStart, SetupInv, TypeOK, Step
<1>2. /\ step' = [step EXCEPT ![b] = AfterStart(step[b])]
      /\ UNCHANGED <<listed, waiting>>
  BY DEF Start
<1>3. /\ borrower' \in [Number -> Business \cup {None}]
      /\ had \subseteq had' /\ had' \subseteq Business
      /\ \A n \in Number : borrower'[n] # None => borrower'[n] \in had'
  <2>1. CASE Draw(b)
    BY <2>1, DrawLends DEF SetupInv, TypeOK
  <2>2. CASE UNCHANGED <<borrower, had>>
    BY <2>2 DEF SetupInv, TypeOK, BorrowersHad
  <2>3. QED BY <2>1, <2>2 DEF Start
<1>4. AfterStart(step[b]) \in {"3", "4", "done"} => b \in had'
  BY <1>1, <1>3 DEF SetupInv, HadNumber
<1>5. QED BY <1>1, <1>2, <1>3, <1>4, MoveKeeps DEF SetupInv, TypeOK

LEMMA StepAskedKeeps ==
    ASSUME SetupInv, NEW r \in Request, NEW b \in Business, NEW next \in Asked,
           StepAsked(r, b, next)
    PROVE  SetupInv'
<1>1. /\ next \in Step \ {"1"} /\ step[b] \in Step \ {"1"}
      /\ next # "3" => step[b] \in {"3", "4"}
      /\ listed' = listed
  BY DEF StepAsked, Allowed, Step
<1>2. CASE ~NeedsNumber(b, next) /\ StepWritten(b, next) /\ UNCHANGED <<borrower, had>>
  <2>1. b \in had
    <3>1. CASE next = "3"
      BY <1>2, <3>1, OnboardingAssumption DEF NeedsNumber, HasNumber, SetupInv, BorrowersHad
    <3>2. CASE next # "3"
      BY <1>1, <3>2 DEF SetupInv, HadNumber
    <3>3. QED BY <3>1, <3>2
  <2>2. QED BY <1>1, <1>2, <2>1, MoveKeeps DEF StepWritten, SetupInv, TypeOK, BorrowersHad
<1>3. CASE Draw(b) /\ StepWritten(b, next)
  <2>1. /\ step' = [step EXCEPT ![b] = next]
        /\ UNCHANGED waiting
    BY <1>3 DEF StepWritten
  <2>2. /\ borrower' \in [Number -> Business \cup {None}]
        /\ b \in had' /\ had \subseteq had' /\ had' \subseteq Business
        /\ \A n \in Number : borrower'[n] # None => borrower'[n] \in had'
    BY <1>3, DrawLends DEF SetupInv, TypeOK
  <2>3. QED BY <1>1, <2>1, <2>2, MoveKeeps DEF SetupInv, TypeOK
<1>4. CASE Draw(b) /\ waiting' = [waiting EXCEPT ![r] = b] /\ UNCHANGED step
  <2>1. \A q \in Request : waiting'[q] # None =>
            waiting'[q] \in had' /\ step[waiting'[q]] \in Step \ {"1"}
    BY <1>1, <1>4, DrawLends DEF SetupInv, TypeOK, WaitingHad
  <2>2. QED BY <1>1, <1>4, <2>1, DrawLends, StayKeeps DEF SetupInv, TypeOK
<1>5. QED BY <1>2, <1>3, <1>4 DEF StepAsked

LEMMA AlertAnsweredKeeps ==
    ASSUME SetupInv, NEW r \in Request, AlertAnswered(r)
    PROVE  SetupInv'
<1>1. waiting[r] \in Business /\ waiting[r] \in had
  BY DEF AlertAnswered, SetupInv, TypeOK, WaitingHad
<1>2. /\ step' = [step EXCEPT ![waiting[r]] = "3"]
      /\ waiting' = [waiting EXCEPT ![r] = None]
      /\ UNCHANGED <<borrower, had, listed>>
  BY DEF AlertAnswered
<1>3. "3" \in Step
  BY DEF Step
<1>4. QED BY <1>1, <1>2, <1>3, MoveKeeps DEF SetupInv, TypeOK, BorrowersHad

(* A row that appears: its business had no step, so nothing waits for it.  *)
LEMMA RowAppears ==
    ASSUME SetupInv, NEW b \in Business, SignUp(b) \/ \E n \in Number : AdminCreates(b, n)
    PROVE  SetupInv'
<1>1. CASE SignUp(b)
  <2>1. QED BY <1>1, OnboardingAssumption, MoveKeeps
            DEF SignUp, SetupInv, TypeOK, BorrowersHad, Step
<1>2. ASSUME NEW n \in Number, AdminCreates(b, n)
      PROVE  SetupInv'
  <2>1. QED BY <1>2, OnboardingAssumption, MoveKeeps
            DEF AdminCreates, Pool!Lend, SetupInv, TypeOK, BorrowersHad, Step
<1>3. QED BY <1>1, <1>2

LEMMA FirstCallKeeps ==
    ASSUME SetupInv, NEW b \in Business, FirstCall(b)
    PROVE  SetupInv'
<1>1. b \in had
  BY DEF FirstCall, SetupInv, HadNumber
<1>2. "done" \in Step
  BY DEF Step
<1>3. QED BY <1>1, <1>2, MoveKeeps DEF FirstCall, SetupInv, TypeOK, BorrowersHad

(* What moves no business.                                                 *)
LEMMA OthersKeep ==
    ASSUME SetupInv,
           \/ \E b \in Business : Granted(b)
           \/ \E n \in Number : Release(n) \/ Restock(n)
           \/ Crash
           \/ UNCHANGED vars
    PROVE  SetupInv'
<1>1. ASSUME NEW b \in Business, Granted(b) PROVE SetupInv'
  BY <1>1, DrawLends, StayKeeps DEF Granted, SetupInv, TypeOK, WaitingHad
<1>2. ASSUME NEW n \in Number, Release(n) PROVE SetupInv'
  BY <1>2, StayKeeps DEF Release, Pool!GiveBack, SetupInv, TypeOK, WaitingHad, BorrowersHad
<1>3. ASSUME NEW n \in Number, Restock(n) PROVE SetupInv'
  BY <1>3, StayKeeps DEF Restock, SetupInv, TypeOK, WaitingHad, BorrowersHad
<1>4. CASE Crash
  BY <1>4, StayKeeps DEF Crash, SetupInv, TypeOK, BorrowersHad
<1>5. CASE UNCHANGED vars
  BY <1>5, StayKeeps DEF vars, SetupInv, TypeOK, WaitingHad, BorrowersHad
<1>6. QED BY <1>1, <1>2, <1>3, <1>4, <1>5

LEMMA SetupNext == SetupInv /\ [Next]_vars => SetupInv'
<1> SUFFICES ASSUME SetupInv, [Next]_vars PROVE SetupInv'
  OBVIOUS
<1>1. ASSUME NEW b \in Business, SignUp(b) \/ Start(b) \/ FirstCall(b) PROVE SetupInv'
  BY <1>1, RowAppears, StartKeeps, FirstCallKeeps
<1>2. ASSUME NEW b \in Business, NEW n \in Number, AdminCreates(b, n) PROVE SetupInv'
  BY <1>2, RowAppears
<1>3. ASSUME NEW r \in Request, NEW b \in Business, NEW next \in Asked,
             StepAsked(r, b, next)
      PROVE  SetupInv'
  BY <1>3, StepAskedKeeps
<1>4. ASSUME NEW r \in Request, AlertAnswered(r) PROVE SetupInv'
  BY <1>4, AlertAnsweredKeeps
<1>5. QED BY <1>1, <1>2, <1>3, <1>4, OthersKeep DEF Next

LEMMA SetupInvariance == Spec => []SetupInv
BY SetupInit, SetupNext, PTL DEF Spec

(* Every reachable state is well typed: no request writes a step that the  *)
(* setup page does not know.                                               *)
THEOREM SetupTypes == Spec => []TypeOK
<1>1. SetupInv => TypeOK
  BY DEF SetupInv
<1>2. QED BY <1>1, SetupInvariance, PTL

(* The forwarding step and what follows it are reached only by businesses  *)
(* that have had a number.                                                 *)
THEOREM NumberFirst == Spec => []HadNumber
<1>1. SetupInv => HadNumber
  BY DEF SetupInv
<1>2. QED BY <1>1, SetupInvariance, PTL

(* Nobody is sent back to the forms before a number.                       *)
THEOREM ForwardPastForms == Spec => NeverRestarts
<1> DEFINE Forward ==
      \A b \in Business :
          /\ step[b] \in Step \ {"1"} => step'[b] \in Step \ {"1"}
          /\ step[b] \in {"3", "4", "done"} => step'[b] \in {"3", "4", "done"}
<1>1. ASSUME SetupInv, [Next]_vars PROVE [Forward]_vars
  <2>1. CASE UNCHANGED step
    BY <2>1
  <2>2. ASSUME NEW b \in Business, NEW s, step' = [step EXCEPT ![b] = s],
               step[b] \in Step \ {"1"} => s \in Step \ {"1"},
               step[b] \in {"3", "4", "done"} => s \in {"3", "4", "done"}
        PROVE  Forward
    BY <1>1, <2>2 DEF SetupInv, TypeOK
  <2>3. ASSUME NEW b \in Business, SignUp(b) PROVE Forward
    BY <2>3, <2>2, OnboardingAssumption DEF SignUp, Step
  <2>4. ASSUME NEW b \in Business, Start(b) PROVE Forward
    <3>1. /\ step[b] \in Step \ {"1"} => AfterStart(step[b]) \in Step \ {"1"}
          /\ step[b] \in {"3", "4", "done"} => AfterStart(step[b]) \in {"3", "4", "done"}
      BY DEF AfterStart, Step
    <3>2. QED BY <2>4, <3>1, <2>2 DEF Start
  <2>5. ASSUME NEW b \in Business, FirstCall(b) PROVE Forward
    BY <2>5, <2>2 DEF FirstCall, Step
  <2>6. ASSUME NEW b \in Business, NEW n \in Number, AdminCreates(b, n) PROVE Forward
    BY <2>6, <2>2, OnboardingAssumption DEF AdminCreates, Step
  <2>7. ASSUME NEW r \in Request, NEW b \in Business, NEW next \in Asked,
               StepAsked(r, b, next)
        PROVE  Forward
    <3>1. /\ next \in Step \ {"1"}
          /\ step[b] \in {"3", "4", "done"} => next \in {"3", "4", "done"}
      BY <2>7 DEF StepAsked, Allowed, Step
    <3>2. UNCHANGED step \/ step' = [step EXCEPT ![b] = next]
      BY <2>7 DEF StepAsked, StepWritten
    <3>3. QED BY <3>1, <3>2, <2>1, <2>2
  <2>8. ASSUME NEW r \in Request, AlertAnswered(r) PROVE Forward
    <3>1. waiting[r] \in Business
      BY <1>1, <2>8 DEF AlertAnswered, SetupInv, TypeOK
    <3>2. QED BY <2>8, <3>1, <2>2 DEF AlertAnswered, Step
  <2>9. ASSUME NEW b \in Business, Granted(b) PROVE UNCHANGED step
    BY <2>9 DEF Granted
  <2>10. ASSUME NEW n \in Number, Release(n) \/ Restock(n) PROVE UNCHANGED step
    BY <2>10 DEF Release, Restock
  <2>11. CASE Crash \/ UNCHANGED vars
    BY <2>11, <2>1 DEF Crash, vars
  <2>12. QED BY <1>1, <2>1, <2>3, <2>4, <2>5, <2>6, <2>7, <2>8, <2>9, <2>10, <2>11 DEF Next
<1>2. QED BY <1>1, SetupInvariance, PTL DEF Spec, NeverRestarts
=============================================================================
