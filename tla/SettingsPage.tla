------------------------------ MODULE SettingsPage ------------------------------
(***************************************************************************)
(* The settings page (SettingsPanel): the draft it keeps in localStorage,  *)
(* what it reads from GET /api/settings, what its "Save" writes with       *)
(* saveClientSettings() and POST /api/settings, and the one row of table   *)
(* settings that all businesses share.                                     *)
(*                                                                         *)
(* One visit of the page by a signed-in owner.  The draft may be from an   *)
(* earlier visit or from another business of the same browser; other       *)
(* devices of the owner save meanwhile; requests overlap, are answered in  *)
(* any order, are lost, or die with the server between two writes.         *)
(***************************************************************************)
EXTENDS Naturals

CONSTANTS
    Text,           \* what a field may say
    Bad,            \* ... that is no e-mail address
    Empty,          \* ... and the empty string
    Token,          \* FCM tokens
    Flight,         \* bound: requests in flight at the same time
    MaxSaves,       \* bound: saves, here and elsewhere
    None

VARIABLES
    row,            \* the owner's row in businesses
    shared,         \* settings.fcmToken
    draft,          \* localStorage: callflow_business_info
    mine,           \* localStorage: callflow_fcm_token
    info,           \* the fields on the page
    loaded,         \* what /api/settings said when it answered
    typed,          \* the owner typed since
    notice,         \* what the page says of the last save that ended
    flight,         \* requests in flight
    saves

vars == <<row, shared, draft, mine, info, loaded, typed, notice, flight, saves>>

Field == {"email", "address"}
Info  == [email : Text, address : Text \ {Bad}]
Idle  == [what |-> "idle"]

Get  == [what : {"get"}, answer : Info \cup {None}]
Save == [what : {"save"}, info : Info, token : Token \cup {None}, clean : BOOLEAN,
         state : {"sent", "token", "email", "ok", "refused"}, gone : BOOLEAN]

TypeOK ==
    /\ row \in [email : Text \ {Bad}, address : Text \ {Bad}]
    /\ shared \in Token \cup {None}
    /\ draft \in Info
    /\ mine \in Token \cup {None}
    /\ info \in Info
    /\ loaded \in Info \cup {None}
    /\ typed \in BOOLEAN
    /\ notice \in {"none", "saved", "failed"}
    /\ flight \in [Flight -> {Idle} \cup Get \cup Save]
    /\ saves \in 0 .. MaxSaves

(* The page is mounted and asks for the settings.                          *)
Init ==
    /\ row \in [email : Text \ {Bad}, address : Text \ {Bad}]
    /\ shared \in Token \cup {None}
    /\ draft \in Info
    /\ mine \in Token \cup {None}
    /\ info = draft
    /\ loaded = None
    /\ typed = FALSE
    /\ notice = "none"
    /\ \E f \in Flight :
           flight = [g \in Flight |->
               IF g = f THEN [what |-> "get", answer |-> None] ELSE Idle]
    /\ saves = 0

-----------------------------------------------------------------------------
(* GET /api/settings.                                                      *)
ServerReads(f) ==
    /\ flight[f].what = "get"
    /\ flight[f].answer = None
    /\ flight' = [flight EXCEPT ![f].answer = row]
    /\ UNCHANGED <<row, shared, draft, mine, info, loaded, typed, notice, saves>>

(* Mutant of WithServer: the draft wins.                                    *)
WithDraft(current, server) ==
    [x \in Field |-> IF current[x] # Empty THEN current[x] ELSE server[x]]

(* The server's value wins over what the page has, where there is one.     *)
WithServer(current, server) ==
    [x \in Field |-> IF server[x] # Empty THEN server[x] ELSE current[x]]

SettingsArrive(f) ==
    /\ flight[f].what = "get"
    /\ flight[f].answer # None
    /\ info' = WithServer(info, flight[f].answer)
    /\ loaded' = flight[f].answer
    /\ typed' = FALSE
    /\ flight' = [flight EXCEPT ![f] = Idle]
    /\ UNCHANGED <<row, shared, draft, mine, notice, saves>>

(* Refused, or no answer: the draft stays.                                 *)
SettingsFail(f) ==
    /\ flight[f].what = "get"
    /\ flight' = [flight EXCEPT ![f] = Idle]
    /\ UNCHANGED <<row, shared, draft, mine, info, loaded, typed, notice, saves>>

Type(x, v) ==
    /\ info[x] # v
    /\ x = "address" => v # Bad
    /\ info' = [info EXCEPT ![x] = v]
    /\ typed' = TRUE
    /\ UNCHANGED <<row, shared, draft, mine, loaded, notice, flight, saves>>

-----------------------------------------------------------------------------
(* save(): the draft first, then saveClientSettings() with the token that  *)
(* this browser has, if it has one.  The page says nothing while it waits, *)
(* and the button stays enabled.                                           *)
PressSave(f) ==
    /\ flight[f] = Idle
    /\ saves < MaxSaves
    /\ saves' = saves + 1
    /\ draft' = info
    /\ flight' = [flight EXCEPT ![f] =
           [what |-> "save", info |-> info, token |-> mine,
            clean |-> loaded # None /\ ~typed, state |-> "sent", gone |-> FALSE]]
    /\ UNCHANGED <<row, shared, mine, info, loaded, typed, notice>>

(* The answer, if anyone waits for it.                                     *)
Responds(f, answer) ==
    flight' = [flight EXCEPT ![f] = IF @.gone THEN Idle ELSE [@ EXCEPT !.state = answer]]

(* POST /api/settings writes the shared row, then the e-mail, unless it is *)
(* refused, then the address, each in a statement of its own.              *)
SavesToken(f) ==
    /\ flight[f].what = "save"
    /\ flight[f].state = "sent"
    /\ shared' = flight[f].token
    /\ flight' = [flight EXCEPT ![f].state = "token"]
    /\ UNCHANGED <<row, draft, mine, info, loaded, typed, notice, saves>>

SavesEmail(f) ==
    /\ flight[f].what = "save"
    /\ flight[f].state = "token"
    /\ flight[f].info["email"] # Bad
    /\ row' = [row EXCEPT !.email = flight[f].info["email"]]
    /\ flight' = [flight EXCEPT ![f].state = "email"]
    /\ UNCHANGED <<shared, draft, mine, info, loaded, typed, notice, saves>>

RefusesEmail(f) ==
    /\ flight[f].what = "save"
    /\ flight[f].state = "token"
    /\ flight[f].info["email"] = Bad
    /\ Responds(f, "refused")
    /\ UNCHANGED <<row, shared, draft, mine, info, loaded, typed, notice, saves>>

SavesAddress(f) ==
    /\ flight[f].what = "save"
    /\ flight[f].state = "email"
    /\ row' = [row EXCEPT !.address = flight[f].info["address"]]
    /\ Responds(f, "ok")
    /\ UNCHANGED <<shared, draft, mine, info, loaded, typed, notice, saves>>

SaveArrives(f) ==
    /\ flight[f].what = "save"
    /\ flight[f].state \in {"ok", "refused"}
    /\ notice' = IF flight[f].state = "ok" THEN "saved" ELSE "failed"
    /\ flight' = [flight EXCEPT ![f] = Idle]
    /\ UNCHANGED <<row, shared, draft, mine, info, loaded, typed, saves>>

(* Lost on its way there or back, or with the server; or the page has      *)
(* given up, and the server handles it still.                              *)
SaveFails(f) ==
    /\ flight[f].what = "save"
    /\ ~flight[f].gone
    /\ notice' = "failed"
    /\ \/ flight' = [flight EXCEPT ![f] = Idle]
       \/ /\ flight[f].state \in {"sent", "token", "email"}
          /\ flight' = [flight EXCEPT ![f].gone = TRUE]
    /\ UNCHANGED <<row, shared, draft, mine, info, loaded, typed, saves>>

(* Another device of this owner, or another owner: they share the token.   *)
OtherDevice ==
    /\ saves < MaxSaves
    /\ saves' = saves + 1
    /\ \E x \in Field, v \in Text \ {Bad} : row' = [row EXCEPT ![x] = v]
    /\ shared' \in Token \cup {None}
    /\ UNCHANGED <<draft, mine, info, loaded, typed, notice, flight>>

Next ==
    \/ \E f \in Flight :
           \/ ServerReads(f) \/ SettingsArrive(f) \/ SettingsFail(f) \/ PressSave(f)
           \/ SavesToken(f) \/ SavesEmail(f) \/ RefusesEmail(f) \/ SavesAddress(f)
           \/ SaveArrives(f) \/ SaveFails(f)
    \/ \E x \in Field, v \in Text : Type(x, v)
    \/ OtherDevice

Spec == Init /\ [][Next]_vars

-----------------------------------------------------------------------------
KeepsWhatItShows ==
    \A f \in Flight, x \in Field :
        (/\ flight[f].what = "save"
         /\ flight[f].clean
         /\ flight'[f] # flight[f]
         /\ loaded[x] # Empty
         /\ row[x] = loaded[x]) => row'[x] = loaded[x]

(* A save by an owner who was shown what is stored and typed nothing does  *)
(* not undo it: where the page was told a value and that value is still    *)
(* stored, the save leaves it, whatever draft the browser had kept.        *)
CleanSaveKeeps == [][KeepsWhatItShows]_vars
=============================================================================
