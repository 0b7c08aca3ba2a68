-------------------------- MODULE OwnerAccessProofs --------------------------
(***************************************************************************)
(* Proofs about OwnerAccess, for any number of businesses, devices and     *)
(* links and for any limits and windows.  The variables fall into four     *)
(* groups, and the invariant is the conjunction of what holds of each: an  *)
(* action disturbs one or two of them.                                     *)
(***************************************************************************)
EXTENDS OwnerAccess, TLAPS

(* A setup link comes with its row, and stores nothing before it is used.  *)
RowInv ==
    /\ email \in [Business -> Email \cup {None}]
    /\ password \in [Business -> Password \cup {None}]
    /\ later \subseteq Business \X Business
    /\ setup \in [Business -> SetupState]
    /\ chosen \in [Business -> Nat]
    /\ \A b \in Business : chosen[b] <= 1 /\ (setup[b] # "used" => chosen[b] = 0)
    /\ \A b \in Business : setup[b] # "none" => b \in Rows

(* An open login link has opened nothing.                                  *)
LinkInv ==
    /\ link \in [Link -> [business : Business \cup {None}, state : LinkState]]
    /\ \A l \in Link : link[l].state = "none" \/ link[l].business \in Rows
    /\ handed \subseteq Link
    /\ opened \in [Link -> Nat]
    /\ \A l \in Link : opened[l] <= 1 /\ (link[l].state = "open" => opened[l] = 0)

SessionInv == session \in [Device -> Rows \cup {None}]

(* The logins of a window are among the requests its bucket has counted.   *)
LimiterInv ==
    /\ bucket \in [Device -> [Key -> [count : Nat, age : Nat]]]
    /\ \A d \in Device, k \in Key : bucket[d][k].age <= Oldest[k]
    /\ ripe \subseteq Link \X Device
    /\ tries \in [Device -> Nat]
    /\ \A d \in Device : /\ tries[d] <= Limit["login"]
                         /\ tries[d] <= bucket[d]["owner-login"].count

IInv == RowInv /\ LinkInv /\ SessionInv /\ LimiterInv

LEMMA KeysOfRoutes == \A r \in Route : KeyOf[r] \in Key
BY DEF KeyOf, Route, Key

LEMMA InitInv == Init => IInv
<1> SUFFICES ASSUME Init PROVE IInv
  OBVIOUS
<1>1. RowInv
  BY DEF Init, RowInv, SetupState
<1>2. LinkInv
  BY DEF Init, LinkInv, LinkState
<1>3. SessionInv
  BY DEF Init, SessionInv
<1>4. LimiterInv
  BY AccessAssumption DEF Init, LimiterInv, NoBucket, Key, Route
<1>5. QED BY <1>1, <1>2, <1>3, <1>4 DEF IInv

(* A request the limiter lets through keeps its promise.                   *)
LEMMA ChargeKeeps ==
    ASSUME LimiterInv, NEW d \in Device, NEW r \in Route, Charge(d, r)
    PROVE  LimiterInv'
<1> DEFINE k == KeyOf[r]
<1>1. k \in Key /\ Limit["login"] \in Nat \ {0} /\ Limit[r] \in Nat \ {0} /\ Oldest \in [Key -> Nat]
  BY KeysOfRoutes, AccessAssumption DEF Route
<1>2. /\ bucket' \in [Device -> [Key -> [count : Nat, age : Nat]]]
      /\ \A e \in Device, j \in Key : bucket'[e][j].age <= Oldest[j]
  BY <1>1 DEF Charge, LimiterInv
<1>3. ripe' \subseteq Link \X Device
  BY DEF Charge, Ripen, LimiterInv
<1>4. tries' \in [Device -> Nat]
  BY DEF Charge, LimiterInv
<1>5. ASSUME NEW e \in Device
      PROVE  tries'[e] <= Limit["login"] /\ tries'[e] <= bucket'[e]["owner-login"].count
  <2>1. CASE e # d \/ k # "owner-login"
    BY <1>1, <2>1 DEF Charge, LimiterInv, KeyOf, Key
  <2>2. CASE e = d /\ k = "owner-login" /\ Fresh(d, r)
    BY <1>1, <2>2 DEF Charge, LimiterInv, KeyOf, Key
  <2>3. CASE e = d /\ k = "owner-login" /\ ~Fresh(d, r)
    <3>1. bucket'[e]["owner-login"].count = bucket[e]["owner-login"].count + 1
      BY <1>1, <2>3 DEF Charge, LimiterInv, Key
    <3>2. tries'[e] = tries[e] + (IF r = "login" THEN 1 ELSE 0)
      BY <2>3 DEF Charge, LimiterInv, KeyOf
    <3>3. r = "login" => bucket[e]["owner-login"].count < Limit["login"]
      BY <2>3 DEF Charge, Allowed
    <3>4. /\ tries[e] \in Nat /\ bucket[e]["owner-login"].count \in Nat
          /\ tries[e] <= Limit["login"] /\ tries[e] <= bucket[e]["owner-login"].count
      BY DEF LimiterInv, Key
    <3>5. QED BY <1>1, <3>1, <3>2, <3>3, <3>4
  <2>4. QED BY <2>1, <2>2, <2>3
<1>6. QED BY <1>2, <1>3, <1>4, <1>5 DEF LimiterInv

(* No row is ever removed.                                                 *)
LEMMA RowsStay ==
    ASSUME LinkInv, SessionInv, Rows \subseteq Rows'
    PROVE  /\ UNCHANGED linkVars => LinkInv'
           /\ UNCHANGED session => SessionInv'
BY DEF LinkInv, SessionInv, linkVars

LEMMA Stay ==
    /\ RowInv /\ UNCHANGED rowVars => RowInv' /\ Rows' = Rows
    /\ LimiterInv /\ UNCHANGED limiterVars => LimiterInv'
BY DEF RowInv, Rows, rowVars, LimiterInv, limiterVars

(* A cookie names a row.                                                   *)
LEMMA SignInKeeps ==
    ASSUME SessionInv, NEW d \in Device, NEW b \in Business, NEW arrives \in BOOLEAN,
           Rows \subseteq Rows', SignIn(d, b, arrives), arrives => b \in Rows'
    PROVE  SessionInv'
BY DEF SessionInv, SignIn

LEMMA MintKeeps ==
    ASSUME LinkInv, LimiterInv, NEW b \in Business, NEW l \in Link, NEW arrives \in BOOLEAN,
           Rows \subseteq Rows', b \in Rows', Mint(b, l, arrives), UNCHANGED <<bucket, tries>>
    PROVE  LinkInv' /\ LimiterInv'
<1>1. LinkInv'
  BY DEF LinkInv, Mint, LinkState
<1>2. ripe' \subseteq Link \X Device
  BY DEF Mint, LimiterInv
<1>3. LimiterInv'
  BY <1>2 DEF LimiterInv
<1>4. QED BY <1>1, <1>3

(* A password is stored by its owner, or by a setup link that closes.      *)
LEMMA StoreKeeps ==
    ASSUME RowInv, NEW b \in Business, NEW p \in Password, Store(b, p), UNCHANGED email,
           \/ UNCHANGED <<setup, chosen>>
           \/ /\ setup[b] = "open"
              /\ setup' = [setup EXCEPT ![b] = "used"]
              /\ chosen' = [chosen EXCEPT ![b] = @ + 1]
    PROVE  RowInv' /\ Rows' = Rows
<1>1. Rows' = Rows /\ Rows \subseteq Business
  BY DEF Rows
<1>2. later' \subseteq Business \X Business
  BY <1>1 DEF RowInv, Store, Bump
<1>3. QED BY <1>1, <1>2 DEF RowInv, Store, SetupState

LEMMA NextInv == IInv /\ [Next]_vars => IInv'
<1> SUFFICES ASSUME IInv, [Next]_vars PROVE IInv'
  OBVIOUS
<1> USE DEF IInv
<1>1. ASSUME NEW d \in Device, NEW k \in Key, Elapse(d, k) PROVE IInv'
  <2>1. bucket' \in [Device -> [Key -> [count : Nat, age : Nat]]]
    <3> DEFINE older == [bucket[d][k] EXCEPT !.age = @ + 1]
    <3>1. bucket[d][k] \in [count : Nat, age : Nat]
      BY DEF LimiterInv
    <3>2. older \in [count : Nat, age : Nat]
      BY <3>1
    <3>3. bucket' = [bucket EXCEPT ![d][k] = older]
      BY <1>1 DEF Elapse
    <3> HIDE DEF older
    <3>4. QED BY <3>2, <3>3 DEF LimiterInv
  <2>2. ripe' \subseteq Link \X Device
    BY <1>1 DEF Elapse, Ripen, LimiterInv
  <2>3. \A e \in Device, j \in Key :
           /\ bucket'[e][j].count = bucket[e][j].count
           /\ bucket'[e][j].age <= Oldest[j]
    BY <1>1, AccessAssumption DEF Elapse, LimiterInv
  <2>4. LimiterInv'
    BY <1>1, <2>1, <2>2, <2>3 DEF Elapse, LimiterInv, Key
  <2>5. QED BY <1>1, <2>4, Stay, RowsStay DEF Elapse
<1>2. ASSUME Restart PROVE IInv'
  <2>1. ripe' \subseteq Link \X Device
    BY <1>2 DEF Restart, Ripen, LimiterInv
  <2>2. LimiterInv'
    BY <1>2, <2>1, AccessAssumption DEF Restart, NoBucket, LimiterInv, Key, Route
  <2>3. QED BY <1>2, <2>2, Stay, RowsStay DEF Restart
<1>3. ASSUME NEW d \in Device, NEW b \in Business, NEW e \in Email,
             NEW arrives \in BOOLEAN, SignUp(d, b, e, arrives)
      PROVE  IInv'
  <2>1. Rows \subseteq Rows' /\ b \in Rows'
    BY <1>3, AccessAssumption DEF SignUp, RowInv, Rows
  <2>2. later' \subseteq Business \X Business
    BY <1>3 DEF SignUp, Bump, RowInv, Rows
  <2>3. RowInv'
    BY <1>3, <2>1, <2>2 DEF SignUp, RowInv
  <2>4. SessionInv'
    BY <1>3, <2>1, SignInKeeps DEF SignUp
  <2>5. QED BY <1>3, <2>1, <2>3, <2>4, Stay, RowsStay DEF SignUp
<1>4. ASSUME NEW b \in Business, Touch(b) PROVE IInv'
  <2>1. Rows' = Rows
    BY <1>4 DEF Touch, Rows
  <2>2. later' \subseteq Business \X Business
    BY <1>4 DEF Touch, Bump, RowInv, Rows
  <2>3. RowInv'
    BY <1>4, <2>1, <2>2 DEF Touch, RowInv
  <2>4. QED BY <1>4, <2>1, <2>3, Stay, RowsStay DEF Touch
<1>5. ASSUME NEW b \in Business, ExpireSetup(b) PROVE IInv'
  <2>1. Rows' = Rows
    BY <1>5 DEF ExpireSetup, Rows
  <2>2. RowInv'
    BY <1>5, <2>1 DEF ExpireSetup, RowInv, SetupState
  <2>3. QED BY <1>5, <2>1, <2>2, Stay, RowsStay DEF ExpireSetup
<1>6. ASSUME NEW b \in Business, NEW e \in Email, NEW l \in Link,
             NEW arrives \in BOOLEAN, AdminCreates(b, e, l, arrives)
      PROVE  IInv'
  <2>1. Rows \subseteq Rows' /\ b \in Rows'
    BY <1>6, AccessAssumption DEF AdminCreates, RowInv, Rows
  <2>2. later' \subseteq Business \X Business
    BY <1>6 DEF AdminCreates, Bump, RowInv, Rows
  <2>3. setup[b] = "none" /\ chosen[b] = 0
    BY <1>6 DEF AdminCreates, RowInv
  <2>4. RowInv'
    BY <1>6, <2>1, <2>2, <2>3 DEF AdminCreates, RowInv, SetupState
  <2>5. QED BY <1>6, <2>1, <2>4, MintKeeps, RowsStay DEF AdminCreates
<1>7. ASSUME NEW b \in Business, NEW l \in Link, NEW arrives \in BOOLEAN,
             CopyLink(b, l, arrives)
      PROVE  IInv'
  <2>1. RowInv' /\ Rows' = Rows /\ b \in Rows'
    BY <1>7, Stay DEF CopyLink
  <2>2. QED BY <1>7, <2>1, MintKeeps, RowsStay DEF CopyLink
<1>8. ASSUME NEW d \in Device, NEW l \in Link, NEW arrives \in BOOLEAN,
             OpenLink(d, l, arrives)
      PROVE  IInv'
  <2>1. RowInv' /\ Rows' = Rows
    BY <1>8, Stay DEF OpenLink
  <2>2. LimiterInv'
    BY <1>8, ChargeKeeps DEF OpenLink, Route
  <2>3. CASE UNCHANGED <<link, opened, session>>
    BY <1>8, <2>1, <2>2, <2>3, RowsStay DEF OpenLink, linkVars
  <2>4. CASE link[l].state = "open"
    <3>1. link[l].business \in Rows /\ link[l].business \in Business
      BY <2>4 DEF LinkInv, Rows
    <3>2. SessionInv'
      BY <1>8, <2>1, <2>4, <3>1, SignInKeeps DEF OpenLink
    <3>3. LinkInv'
      BY <1>8, <2>1, <2>4 DEF OpenLink, Spent, LinkInv, LinkState
    <3>4. QED BY <2>1, <2>2, <3>2, <3>3
  <2>5. QED BY <1>8, <2>3, <2>4 DEF OpenLink
<1>9. ASSUME NEW l \in Link, ExpireLink(l) PROVE IInv'
  <2>1. RowInv' /\ Rows' = Rows /\ LimiterInv'
    BY <1>9, Stay DEF ExpireLink
  <2>2. LinkInv'
    BY <1>9, <2>1 DEF ExpireLink, LinkInv, LinkState
  <2>3. QED BY <1>9, <2>1, <2>2, RowsStay DEF ExpireLink
<1>10. ASSUME NEW d \in Device, NEW b \in Business, NEW p \in Password,
              SetupPassword(d, b, p)
       PROVE  IInv'
  <2>1. LimiterInv'
    BY <1>10, ChargeKeeps DEF SetupPassword, Route
  <2>2. RowInv' /\ Rows' = Rows
    <3>1. CASE UNCHANGED <<password, later, setup, chosen>>
      BY <1>10, <3>1, Stay DEF SetupPassword, rowVars
    <3>2. CASE Store(b, p)
      BY <1>10, <3>1, <3>2, StoreKeeps DEF SetupPassword, Spent
    <3>3. QED BY <1>10, <3>1, <3>2 DEF SetupPassword
  <2>3. QED BY <1>10, <2>1, <2>2, RowsStay DEF SetupPassword
<1>11. ASSUME NEW d \in Device, NEW current \in Password, NEW p \in Password,
              ChangePassword(d, current, p)
       PROVE  IInv'
  <2>1. LimiterInv'
    BY <1>11, ChargeKeeps DEF ChangePassword, Route
  <2>2. RowInv' /\ Rows' = Rows
    <3>1. CASE UNCHANGED <<password, later>>
      BY <1>11, <3>1, Stay DEF ChangePassword, rowVars
    <3>2. CASE Store(session[d], p)
      <4>1. session[d] \in Business
        BY <1>11 DEF ChangePassword, SessionInv, Rows
      <4>2. QED BY <1>11, <3>2, <4>1, StoreKeeps DEF ChangePassword
    <3>3. QED BY <1>11, <3>1, <3>2 DEF ChangePassword
  <2>3. QED BY <1>11, <2>1, <2>2, RowsStay DEF ChangePassword
<1>12. ASSUME NEW d \in Device, NEW e \in Email, NEW p \in Password,
              NEW arrives \in BOOLEAN, Login(d, e, p, arrives)
       PROVE  IInv'
  <2>1. LimiterInv'
    BY <1>12, ChargeKeeps DEF Login, Route
  <2>2. RowInv' /\ Rows' = Rows
    BY <1>12, Stay DEF Login
  <2>3. SessionInv'
    <3>1. CASE UNCHANGED session
      BY <2>2, <3>1, RowsStay
    <3>2. CASE \E b \in Business : Found(e, b) /\ SignIn(d, b, arrives)
      <4>1. PICK b \in Business : Found(e, b) /\ SignIn(d, b, arrives)
        BY <3>2
      <4>2. b \in Rows
        BY <4>1 DEF Found, Ranked, WithEmail
      <4>3. QED BY <2>2, <4>1, <4>2, SignInKeeps
    <3>3. QED BY <1>12, <3>1, <3>2 DEF Login
  <2>4. QED BY <1>12, <2>1, <2>2, <2>3, RowsStay DEF Login
<1>13. ASSUME NEW d \in Device, Logout(d) PROVE IInv'
  <2>1. RowInv' /\ Rows' = Rows /\ LimiterInv'
    BY <1>13, Stay DEF Logout
  <2>2. SessionInv'
    BY <1>13, <2>1 DEF Logout, SessionInv
  <2>3. QED BY <1>13, <2>1, <2>2, RowsStay DEF Logout
<1>14. CASE UNCHANGED vars
  BY <1>14, Stay, RowsStay DEF vars
<1>15. QED
  BY <1>1, <1>2, <1>3, <1>4, <1>5, <1>6, <1>7, <1>8, <1>9, <1>10, <1>11, <1>12,
     <1>13, <1>14
  DEF Next

LEMMA Inductive == Spec => []IInv
BY InitInv, NextInv, PTL DEF Spec

(* Every reachable state is well typed: a cookie names a row, and so does  *)
(* every link that was minted.                                             *)
THEOREM Types == Spec => []TypeOK
<1>1. IInv => TypeOK
  BY DEF IInv, RowInv, LinkInv, SessionInv, LimiterInv, TypeOK
<1>2. QED BY Inductive, <1>1, PTL

(* A link that is sent twice wins once.                                    *)
THEOREM LinksWinOnce == Spec => []LinksOnce
<1>1. IInv => LinksOnce
  BY DEF IInv, RowInv, LinkInv, LinksOnce
<1>2. QED BY Inductive, <1>1, PTL

(* The login form is tried no more often in a window than its own limit    *)
(* says, whatever shares the window.                                       *)
THEOREM GuessesStayBounded == Spec => []GuessesBounded
<1>1. IInv => GuessesBounded
  BY DEF IInv, LimiterInv, GuessesBounded
<1>2. QED BY Inductive, <1>1, PTL

(* Login prefers a row with a password whatever the times of the rows are: *)
(* no invariant is needed.                                                 *)
THEOREM NobodyShadowed == Spec => []NeverShadowed
<1>1. TypeOK => NeverShadowed
  BY DEF TypeOK, NeverShadowed, Found, Ranked, WithEmail, Rows
<1>2. QED BY Types, <1>1, PTL
=============================================================================
