----------------------------- MODULE OwnerAccess -----------------------------
(***************************************************************************)
(* How owners get into their accounts: src/lib/business-password.ts, the   *)
(* one-time login links of src/lib/admin-customers.ts, the routes under    *)
(* src/app/api/auth and src/app/owner-login, and the fixed-window limiter  *)
(* of src/lib/rate-limit.ts that stands before each of them.               *)
(*                                                                         *)
(* None of these handlers waits on the network once it has its body, so    *)
(* each is one action; what may get lost is the answer, with the cookie it *)
(* carries.  A request the limiter refuses changes nothing and is not an   *)
(* action.  Windows are counted in quarters of an hour.  A device is a     *)
(* browser with an address of its own.                                     *)
(***************************************************************************)
EXTENDS Naturals

CONSTANTS
    Business,
    Email,
    Password,
    Link,           \* one-time login links; a closed one is minted again
    Device,
    Limit,          \* requests per window, by route
    Window,         \* quarters of an hour, by route
    Oldest,         \* the longest window of the routes of a key
    None

Route == {"login", "open", "setup", "change"}
Key   == {"owner-login", "setup-password", "owner-change-password"}

KeyOf == [login |-> "owner-login", open |-> "owner-login",
          setup |-> "setup-password", change |-> "owner-change-password"]

ASSUME AccessAssumption ==
    /\ Limit \in [Route -> Nat \ {0}]
    /\ Window \in [Route -> Nat \ {0}]
    /\ Oldest \in [Key -> Nat]
    /\ \A r \in Route : Window[r] <= Oldest[KeyOf[r]]
    /\ None \notin Business \cup Email \cup Password

VARIABLES
    email,          \* column billingEmail, None while there is no row
    password,       \* column passwordHash
    later,          \* column updatedAt: <<a, b>> when a was written after b
    setup,          \* columns setupTokenHash, Expiry and UsedAt
    link,           \* table owner_login_tokens
    handed,         \* links whose URL the owner has got
    ripe,           \* <<l, d>>: d could have opened l since it was minted
    session,        \* the session cookie of each device
    bucket,         \* rate-limit.ts: the map buckets
    tries,          \* history: logins counted in the present window
    opened, chosen  \* history: how often a link has opened a session, and
                    \* a setup link has stored a password

rowVars     == <<email, password, later, setup, chosen>>
linkVars    == <<link, handed, opened>>
limiterVars == <<bucket, tries, ripe>>
vars        == <<rowVars, linkVars, session, limiterVars>>

SetupState == {"none", "open", "expired", "used"}
LinkState  == {"none", "open", "expired", "used"}

Rows == {b \in Business : email[b] # None}

TypeOK ==
    /\ email \in [Business -> Email \cup {None}]
    /\ password \in [Business -> Password \cup {None}]
    /\ later \subseteq Business \X Business
    /\ setup \in [Business -> SetupState]
    /\ link \in [Link -> [business : Business \cup {None}, state : LinkState]]
    /\ \A l \in Link : link[l].state = "none" \/ link[l].business \in Rows
    /\ handed \subseteq Link
    /\ ripe \subseteq Link \X Device
    /\ session \in [Device -> Rows \cup {None}]
    /\ bucket \in [Device -> [Key -> [count : Nat, age : Nat]]]
    /\ \A d \in Device, k \in Key : bucket[d][k].age <= Oldest[k]
    /\ tries \in [Device -> Nat]
    /\ opened \in [Link -> Nat]
    /\ chosen \in [Business -> Nat]

(* No entry in the map: as good as one older than every window.           *)
NoBucket(k) == [count |-> 0, age |-> Oldest[k]]

Init ==
    /\ email = [b \in Business |-> None]
    /\ password = [b \in Business |-> None]
    /\ later = {}
    /\ setup = [b \in Business |-> "none"]
    /\ link = [l \in Link |-> [business |-> None, state |-> "none"]]
    /\ handed = {}
    /\ ripe = {}
    /\ session = [d \in Device |-> None]
    /\ bucket = [d \in Device |-> [k \in Key |-> NoBucket(k)]]
    /\ tries = [d \in Device |-> 0]
    /\ opened = [l \in Link |-> 0]
    /\ chosen = [b \in Business |-> 0]

-----------------------------------------------------------------------------
(* rateLimit.                                                              *)

(* Mutant of Fresh: a window never ends.                                   *)
FreshOnce(d, r) == bucket[d][KeyOf[r]].count = 0

Fresh(d, r) == bucket[d][KeyOf[r]].age >= Window[r]

(* Mutant of Allowed: one request too many.                                *)
AllowedOneMore(d, r) == Fresh(d, r) \/ bucket[d][KeyOf[r]].count <= Limit[r]

Allowed(d, r) == Fresh(d, r) \/ bucket[d][KeyOf[r]].count < Limit[r]

Ripen == ripe' = ripe \cup (Link \X {d \in Device : Allowed(d, "open")'})

Charge(d, r) ==
    /\ Allowed(d, r)
    /\ bucket' = [bucket EXCEPT ![d][KeyOf[r]] =
           IF Fresh(d, r) THEN [count |-> 1, age |-> 0]
           ELSE [count |-> @.count + 1, age |-> @.age]]
    /\ tries' = [tries EXCEPT ![d] =
           IF KeyOf[r] # KeyOf["login"] THEN @
           ELSE (IF Fresh(d, r) THEN 0 ELSE @) + (IF r = "login" THEN 1 ELSE 0)]
    /\ Ripen

(* A quarter of an hour for one bucket, as long as it can matter.          *)
Elapse(d, k) ==
    /\ bucket[d][k].age < Oldest[k]
    /\ bucket' = [bucket EXCEPT ![d][k].age = @ + 1]
    /\ Ripen
    /\ UNCHANGED <<rowVars, linkVars, session, tries>>

(* The process restarts, and its map is empty.                             *)
Restart ==
    /\ bucket' = [d \in Device |-> [k \in Key |-> NoBucket(k)]]
    /\ tries' = [d \in Device |-> 0]
    /\ Ripen
    /\ UNCHANGED <<rowVars, linkVars, session>>

-----------------------------------------------------------------------------
(* The rows.                                                               *)

(* updatedAt = now.                                                        *)
Bump(b) == later' = {p \in later : p[2] # b} \cup {<<b, o>> : o \in Rows \ {b}}

(* Set-Cookie, if the answer arrives.                                      *)
SignIn(d, b, arrives) ==
    session' = IF arrives THEN [session EXCEPT ![d] = b] ELSE session

(* createBillingSignup: a new row and its session, or the e-mail and the   *)
(* name of a row that is not subscribed.                                   *)
SignUp(d, b, e, arrives) ==
    /\ email' = [email EXCEPT ![b] = e]
    /\ Bump(b)
    /\ SignIn(d, b, arrives /\ b \notin Rows)
    /\ UNCHANGED <<password, setup, chosen, linkVars, limiterVars>>

(* updateBusiness, from any other part of the system.                      *)
Touch(b) ==
    /\ b \in Rows
    /\ Bump(b)
    /\ UNCHANGED <<email, password, setup, chosen, linkVars, session, limiterVars>>

Mint(b, l, arrives) ==
    /\ link[l].state # "open"
    /\ link' = [link EXCEPT ![l] = [business |-> b, state |-> "open"]]
    /\ handed' = IF arrives THEN handed \cup {l} ELSE handed \ {l}
    /\ ripe' = {p \in ripe : p[1] # l} \cup {<<l, d>> : d \in {x \in Device : Allowed(x, "open")}}
    /\ opened' = [opened EXCEPT ![l] = 0]

(* createAdminCustomer: the row, its setup link and a login link.          *)
AdminCreates(b, e, l, arrives) ==
    /\ b \notin Rows
    /\ email' = [email EXCEPT ![b] = e]
    /\ setup' = [setup EXCEPT ![b] = "open"]
    /\ Bump(b)
    /\ Mint(b, l, arrives)
    /\ UNCHANGED <<password, chosen, session, bucket, tries>>

(* createOwnerLoginLink.                                                   *)
CopyLink(b, l, arrives) ==
    /\ b \in Rows
    /\ Mint(b, l, arrives)
    /\ UNCHANGED <<rowVars, session, bucket, tries>>

-----------------------------------------------------------------------------
(* The routes.                                                             *)

(* Mutant of Spent: the update forgets usedAt.                             *)
SpentNever(s) == s

Spent(s) == "used"

(* GET /owner-login, redeemOwnerLoginToken.                                *)
OpenLink(d, l, arrives) ==
    /\ l \in handed
    /\ Charge(d, "open")
    /\ \/ /\ link[l].state = "open"
          /\ link' = [link EXCEPT ![l].state = Spent(@)]
          /\ opened' = [opened EXCEPT ![l] = @ + 1]
          /\ SignIn(d, link[l].business, arrives)
       \/ link[l].state # "open" /\ UNCHANGED <<link, opened, session>>
    /\ UNCHANGED <<rowVars, handed>>

(* Seven days: a link outlives every window of the limiter.                *)
ExpireLink(l) ==
    /\ link[l].state = "open"
    /\ \A d \in Device : <<l, d>> \in ripe
    /\ link' = [link EXCEPT ![l].state = "expired"]
    /\ UNCHANGED <<rowVars, handed, opened, session, limiterVars>>

Store(b, p) == password' = [password EXCEPT ![b] = p] /\ Bump(b)

(* POST /api/auth/setup-password: the last case is a pair the policy       *)
(* refuses, or a link that is not open.                                    *)
SetupPassword(d, b, p) ==
    /\ setup[b] # "none"
    /\ Charge(d, "setup")
    /\ \/ /\ setup[b] = "open"
          /\ setup' = [setup EXCEPT ![b] = Spent(@)]
          /\ chosen' = [chosen EXCEPT ![b] = @ + 1]
          /\ Store(b, p)
       \/ UNCHANGED <<password, later, setup, chosen>>
    /\ UNCHANGED <<email, linkVars, session>>

ExpireSetup(b) ==
    /\ setup[b] = "open"
    /\ setup' = [setup EXCEPT ![b] = "expired"]
    /\ UNCHANGED <<email, password, later, chosen, linkVars, session, limiterVars>>

(* POST /api/auth/change-password: the last case is a wrong password, or a *)
(* new one the policy refuses.                                             *)
ChangePassword(d, current, p) ==
    /\ session[d] # None
    /\ Charge(d, "change")
    /\ \/ password[session[d]] \in {None, current} /\ Store(session[d], p)
       \/ UNCHANGED <<password, later>>
    /\ UNCHANGED <<email, setup, chosen, linkVars, session>>

WithEmail(e) == {b \in Rows : email[b] = e}

(* Mutant of Ranked: only the time of the last write counts.               *)
RankedByTime(e) == WithEmail(e)

(* ORDER BY (passwordHash IS NULL) ASC, ...                                *)
Ranked(e) ==
    {b \in WithEmail(e) :
        password[b] # None \/ \A o \in WithEmail(e) : password[o] = None}

(* ... updatedAt DESC LIMIT 1: findBusinessCredentialsByEmail returns b.   *)
Found(e, b) == b \in Ranked(e) /\ \A o \in Ranked(e) \ {b} : <<b, o>> \in later

(* POST /api/auth/login.                                                   *)
Login(d, e, p, arrives) ==
    /\ Charge(d, "login")
    /\ \/ \E b \in Business :
              Found(e, b) /\ password[b] = p /\ SignIn(d, b, arrives)
       \/ /\ ~\E b \in Business : Found(e, b) /\ password[b] = p
          /\ UNCHANGED session
    /\ UNCHANGED <<rowVars, linkVars>>

(* POST /api/auth/logout, or the cookie is older than its 30 days.         *)
Logout(d) ==
    /\ session' = [session EXCEPT ![d] = None]
    /\ UNCHANGED <<rowVars, linkVars, limiterVars>>

Next ==
    \/ \E d \in Device, k \in Key : Elapse(d, k)
    \/ Restart
    \/ \E d \in Device, b \in Business, e \in Email, arrives \in BOOLEAN :
           SignUp(d, b, e, arrives)
    \/ \E b \in Business : Touch(b) \/ ExpireSetup(b)
    \/ \E b \in Business, e \in Email, l \in Link, arrives \in BOOLEAN :
           AdminCreates(b, e, l, arrives)
    \/ \E b \in Business, l \in Link, arrives \in BOOLEAN : CopyLink(b, l, arrives)
    \/ \E d \in Device, l \in Link, arrives \in BOOLEAN : OpenLink(d, l, arrives)
    \/ \E l \in Link : ExpireLink(l)
    \/ \E d \in Device, b \in Business, p \in Password : SetupPassword(d, b, p)
    \/ \E d \in Device, current, p \in Password : ChangePassword(d, current, p)
    \/ \E d \in Device, e \in Email, p \in Password, arrives \in BOOLEAN :
           Login(d, e, p, arrives)
    \/ \E d \in Device : Logout(d)

Spec == Init /\ [][Next]_vars

(* Time passes; an admin who is asked again copies another link; an owner  *)
(* opens the last one, waiting for as long as Retry-After says, and the    *)
(* answer does not get lost every time.  Nothing is assumed of passwords.  *)
Helped ==
    /\ \A d \in Device : WF_vars(Elapse(d, KeyOf["open"]))
    /\ \A l \in Link : WF_vars(ExpireLink(l))
    /\ \A b \in Business :
        /\ SF_vars(\E l \in Link : CopyLink(b, l, TRUE))
        /\ SF_vars(\E d \in Device, l \in Link :
               link[l] = [business |-> b, state |-> "open"] /\ OpenLink(d, l, TRUE))

LiveSpec == Spec /\ Helped

-----------------------------------------------------------------------------
(* "two requests carrying the same link can never both win": whatever is   *)
(* sent again, a login link opens one session and a setup link stores one  *)
(* password.                                                               *)
LinksOnce ==
    /\ \A l \in Link : opened[l] <= 1
    /\ \A b \in Business : chosen[b] <= 1

(* "a hashless row can never shadow a working login": when somebody with   *)
(* an e-mail has a password, login looks at a row that has one, however    *)
(* many rows of the same owner were added or written later.                *)
NeverShadowed ==
    \A b, o \in Business :
        password[b] # None /\ Found(email[b], o) => password[o] # None

(* "Rate limit: 5 attempts per 15 minutes per IP": not more, although the  *)
(* window also belongs to the links, whose own limit is larger and whose   *)
(* window is longer.                                                       *)
GuessesBounded == \A d \in Device : tries[d] <= Limit["login"]

(* The same comment, read the other way (auth/login/route.ts:23-25): it is *)
(* attempts to log in that use up the five.  It does not hold, opening     *)
(* links does it too: see the README.                                      *)
OnlyAttemptsRefuse ==
    \A d \in Device : ~Allowed(d, "login") => tries[d] >= Limit["login"]

(* "the owner can always sign in with the login link": an owner who has    *)
(* lost the password, or never had one, gets in whatever links were wasted,*)
(* lost or expired and whatever the limiter has refused.                   *)
OwnerGetsIn ==
    \A b \in Business : b \in Rows ~> \E d \in Device : session[d] = b
=============================================================================
