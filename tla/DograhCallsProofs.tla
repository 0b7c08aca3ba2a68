-------------------------- MODULE DograhCallsProofs --------------------------
(* DograhCalls for any number of calls, businesses, numbers and devices.   *)
EXTENDS DograhCalls, TLAPS

(* A notice is planned only in the step that stores the call, so a call    *)
(* without a row has none; and who has a number is among those who had it. *)
NoticeHasRow ==
    \A c \in Call : row[c] = None => alert[c] = None /\ push[c] = None

BorrowerRemembered ==
    \A n \in Number : borrower[n] # None => borrower[n] \in borrowed[n]

IInv == TypeOK /\ NoticeHasRow /\ BorrowerRemembered /\ OnlyToBorrowers

-----------------------------------------------------------------------------
LEMMA InitIInv == Init => IInv
BY CallsAssumption
   DEF Init, IInv, TypeOK, NoticeHasRow, BorrowerRemembered, OnlyToBorrowers

(* A report matches the business that has the number, or none.             *)
LEMMA Matched ==
    ASSUME IInv, NEW c \in Call, NEW carried \in SUBSET Field
    PROVE  /\ Match(c, carried) \in Business \cup {None}
           /\ Match(c, carried) \in borrowed[Dialled[c]] \cup {None}
BY CallsAssumption DEF Match, IInv, TypeOK, BorrowerRemembered

LEMMA Upserted ==
    ASSUME IInv, NEW c \in Call, NEW carried \in SUBSET Field,
           NEW b \in Business \cup {None}
    PROVE  /\ Upsert(c, b, carried) \in Row
           /\ Upsert(c, b, carried).business = b
           /\ row[c] # None =>
                 /\ Upsert(c, b, carried).followUp = row[c].followUp
                 /\ row[c].captured \cap Kept \subseteq Upsert(c, b, carried).captured
<1>1. CASE row[c] = None
  BY <1>1 DEF Upsert, Row, FollowUp
<1>2. CASE row[c] # None
  <2>1. row[c] \in Row
    BY <1>2 DEF IInv, TypeOK
  <2>2. QED BY <1>2, <2>1 DEF Upsert, Row
<1>3. QED BY <1>1, <1>2

(* What a delivery plans: nothing for a call that has a row.               *)
LEMMA Planned ==
    ASSUME IInv, NEW c \in Call, NEW b \in borrowed[Dialled[c]] \cup {None},
           b \in Business \cup {None}, PlanAlert(c, b), PlanPush(c, b)
    PROVE  /\ alert' \in [Call -> Alert \cup {None}]
           /\ push' \in [Call -> Push \cup {None}]
           /\ \A d \in Call : d # c \/ row[c] # None => alert'[d] = alert[d] /\ push'[d] = push[d]
           /\ \A d \in Call : alert'[d] # None => alert'[d].to \in borrowed[Dialled[d]]
           /\ \A d \in Call : push'[d] # None => push'[d].to \in borrowed[Dialled[d]]
<1>1. /\ alert' \in [Call -> Alert \cup {None}]
      /\ \A d \in Call : d # c \/ row[c] # None => alert'[d] = alert[d]
      /\ \A d \in Call : alert'[d] # None => alert'[d].to \in borrowed[Dialled[d]]
  <2>1. CASE Created(c) /\ b \in mailable
    <3>1. b \in Business /\ b \in borrowed[Dialled[c]]
      BY <2>1, CallsAssumption DEF IInv, TypeOK
    <3>2. alert' = [alert EXCEPT ![c] = [to |-> b, pc |-> "planned"]]
      BY <2>1 DEF PlanAlert
    <3>3. [to |-> b, pc |-> "planned"] \in Alert
      BY <3>1 DEF Alert, TaskState
    <3>4. QED BY <2>1, <3>1, <3>2, <3>3 DEF Created, IInv, TypeOK, OnlyToBorrowers
  <2>2. CASE ~(Created(c) /\ b \in mailable)
    BY <2>2 DEF PlanAlert, IInv, TypeOK, OnlyToBorrowers
  <2>3. QED BY <2>1, <2>2
<1>2. /\ push' \in [Call -> Push \cup {None}]
      /\ \A d \in Call : d # c \/ row[c] # None => push'[d] = push[d]
      /\ \A d \in Call : push'[d] # None => push'[d].to \in borrowed[Dialled[d]]
  <2>1. CASE Created(c) /\ b # None /\ token # NoToken
    <3>1. b \in Business /\ b \in borrowed[Dialled[c]] /\ token \in Token
      BY <2>1 DEF IInv, TypeOK
    <3>2. push' = [push EXCEPT ![c] = [to |-> b, token |-> token, pc |-> "planned"]]
      BY <2>1 DEF PlanPush
    <3>3. [to |-> b, token |-> token, pc |-> "planned"] \in Push
      BY <3>1 DEF Push, TaskState
    <3>4. QED BY <2>1, <3>1, <3>2, <3>3 DEF Created, IInv, TypeOK, OnlyToBorrowers
  <2>2. CASE ~(Created(c) /\ b # None /\ token # NoToken)
    BY <2>2 DEF PlanPush, IInv, TypeOK, OnlyToBorrowers
  <2>3. QED BY <2>1, <2>2
<1>3. QED BY <1>1, <1>2

LEMMA DeliverKeeps ==
    ASSUME IInv, NEW c \in Call, NEW carried \in SUBSET Field, Deliver(c, carried)
    PROVE  IInv'
<1> DEFINE b == Match(c, carried)
<1>1. b \in Business \cup {None} /\ b \in borrowed[Dialled[c]] \cup {None}
  BY Matched
<1>2. /\ Upsert(c, b, carried) \in Row
      /\ Upsert(c, b, carried).business = b
  BY <1>1, Upserted
<1>3. /\ PlanAlert(c, b) /\ PlanPush(c, b)
      /\ row' = [row EXCEPT ![c] = Upsert(c, b, carried)]
      /\ verifying' = verifying \ {b}
      /\ UNCHANGED <<borrower, borrowed, token, mailable, dead>>
  BY DEF Deliver, poolVars
<1> HIDE DEF b
<1>4. /\ alert' \in [Call -> Alert \cup {None}]
      /\ push' \in [Call -> Push \cup {None}]
      /\ \A d \in Call : d # c \/ row[c] # None => alert'[d] = alert[d] /\ push'[d] = push[d]
      /\ \A d \in Call : alert'[d] # None => alert'[d].to \in borrowed[Dialled[d]]
      /\ \A d \in Call : push'[d] # None => push'[d].to \in borrowed[Dialled[d]]
  BY <1>1, <1>3, Planned
<1>5. /\ row' \in [Call -> Row \cup {None}]
      /\ row'[c] # None
      /\ \A d \in Call : d # c => row'[d] = row[d]
      /\ row'[c].business = b
  BY <1>2, <1>3, CallsAssumption DEF IInv, TypeOK
<1>6. TypeOK'
  BY <1>3, <1>4, <1>5 DEF IInv, TypeOK
<1>7. NoticeHasRow'
  BY <1>4, <1>5 DEF IInv, NoticeHasRow
<1>8. BorrowerRemembered'
  BY <1>3 DEF IInv, BorrowerRemembered
<1>9. OnlyToBorrowers'
  <2>1. \A d \in Call : row'[d] # None => row'[d].business \in borrowed[Dialled[d]] \cup {None}
    BY <1>1, <1>5 DEF IInv, OnlyToBorrowers
  <2>2. borrowed' = borrowed
    BY <1>3
  <2>3. QED BY <1>4, <2>1, <2>2 DEF OnlyToBorrowers
<1>10. QED BY <1>6, <1>7, <1>8, <1>9 DEF IInv

(* A task changes only its state.                                          *)
LEMMA TaskSettled ==
    ASSUME NEW task, NEW T, T \in {Alert, Push}, task \in [Call -> T \cup {None}],
           None \notin T, NEW c \in Call, task[c] # None, NEW s \in TaskState
    PROVE  /\ [task[c] EXCEPT !.pc = s] \in T
           /\ [task[c] EXCEPT !.pc = s].to = task[c].to
           /\ [task[c] EXCEPT !.pc = s] # None
<1>1. CASE T = Alert
  BY <1>1 DEF Alert
<1>2. CASE T = Push
  BY <1>2 DEF Push
<1>3. QED BY <1>1, <1>2

LEMMA TasksKeep ==
    ASSUME IInv, alert' \in [Call -> Alert \cup {None}], push' \in [Call -> Push \cup {None}],
           \A c \in Call : alert[c] = None => alert'[c] = None,
           \A c \in Call : alert'[c] # None => alert'[c].to = alert[c].to,
           \A c \in Call : push[c] = None => push'[c] = None,
           \A c \in Call : push'[c] # None => push'[c].to = push[c].to,
           token' \in Token \cup {NoToken},
           UNCHANGED <<poolVars, verifying, row, mailable, dead>>
    PROVE  IInv'
<1>1. TypeOK'
  BY DEF IInv, TypeOK, poolVars
<1>2. NoticeHasRow' /\ BorrowerRemembered'
  BY DEF IInv, NoticeHasRow, BorrowerRemembered, poolVars
<1>3. OnlyToBorrowers'
  BY DEF IInv, OnlyToBorrowers, poolVars
<1>4. QED BY <1>1, <1>2, <1>3 DEF IInv

LEMMA AlertAnsweredKeeps ==
    ASSUME IInv, NEW c \in Call, AlertAnswered(c)
    PROVE  IInv'
<1>1. /\ alert[c] # None
      /\ alert' = [alert EXCEPT ![c] = [alert[c] EXCEPT !.pc = "answered"]]
      /\ UNCHANGED <<poolVars, verifying, row, push, token, mailable, dead>>
  BY DEF AlertAnswered
<1>2. /\ [alert[c] EXCEPT !.pc = "answered"] \in Alert
      /\ [alert[c] EXCEPT !.pc = "answered"].to = alert[c].to
  BY <1>1, TaskSettled, CallsAssumption DEF IInv, TypeOK, TaskState
<1>3. QED BY <1>1, <1>2, TasksKeep DEF IInv, TypeOK

LEMMA PushAnsweredKeeps ==
    ASSUME IInv, NEW c \in Call, PushAnswered(c)
    PROVE  IInv'
<1>1. /\ push[c] # None
      /\ push' = [push EXCEPT ![c] = [push[c] EXCEPT !.pc = "answered"]]
      /\ token' \in {token, NoToken}
      /\ UNCHANGED <<poolVars, verifying, row, alert, mailable, dead>>
  BY DEF PushAnswered
<1>2. /\ [push[c] EXCEPT !.pc = "answered"] \in Push
      /\ [push[c] EXCEPT !.pc = "answered"].to = push[c].to
  BY <1>1, TaskSettled, CallsAssumption DEF IInv, TypeOK, TaskState
<1>3. QED BY <1>1, <1>2, TasksKeep DEF IInv, TypeOK

LEMMA LostTask ==
    ASSUME NEW task, NEW T, T \in {Alert, Push}, task \in [Call -> T \cup {None}],
           None \notin T
    PROVE  /\ Lost(task) \in [Call -> T \cup {None}]
           /\ \A c \in Call : task[c] = None => Lost(task)[c] = None
           /\ \A c \in Call : task[c] # None =>
                  /\ Lost(task)[c] # None
                  /\ Lost(task)[c].to = task[c].to
                  /\ task[c].pc # "planned" => Lost(task)[c] = task[c]
<1>1. ASSUME NEW c \in Call
      PROVE  /\ Lost(task)[c] \in T \cup {None}
             /\ task[c] = None => Lost(task)[c] = None
             /\ task[c] # None => /\ Lost(task)[c] # None
                                  /\ Lost(task)[c].to = task[c].to
                                  /\ task[c].pc # "planned" => Lost(task)[c] = task[c]
  <2>1. CASE task[c] # None /\ task[c].pc = "planned"
    <3>1. Lost(task)[c] = [task[c] EXCEPT !.pc = "lost"]
      BY <2>1 DEF Lost
    <3>2. "lost" \in TaskState
      BY DEF TaskState
    <3>3. /\ [task[c] EXCEPT !.pc = "lost"] \in T
          /\ [task[c] EXCEPT !.pc = "lost"].to = task[c].to
          /\ [task[c] EXCEPT !.pc = "lost"] # None
      BY <2>1, <3>2, TaskSettled
    <3>4. QED BY <2>1, <3>1, <3>3
  <2>2. CASE ~(task[c] # None /\ task[c].pc = "planned")
    <3>1. Lost(task)[c] = task[c]
      BY <2>2 DEF Lost
    <3>2. QED BY <2>2, <3>1
  <2>3. QED BY <2>1, <2>2
<1>2. Lost(task) \in [Call -> T \cup {None}]
  BY <1>1 DEF Lost
<1>3. QED BY <1>1, <1>2

LEMMA CrashKeeps ==
    ASSUME IInv, Crash
    PROVE  IInv'
<1>1. alert \in [Call -> Alert \cup {None}] /\ push \in [Call -> Push \cup {None}]
  BY DEF IInv, TypeOK
<1>2. None \notin Alert /\ None \notin Push
  BY CallsAssumption
<1>3. /\ alert' = Lost(alert) /\ push' = Lost(push)
      /\ UNCHANGED <<poolVars, verifying, row, token, mailable, dead>>
  BY DEF Crash
<1>4. /\ alert' \in [Call -> Alert \cup {None}]
      /\ \A c \in Call : alert[c] = None => alert'[c] = None
      /\ \A c \in Call : alert[c] # None => alert'[c].to = alert[c].to
  BY <1>1, <1>2, <1>3, LostTask
<1>5. /\ push' \in [Call -> Push \cup {None}]
      /\ \A c \in Call : push[c] = None => push'[c] = None
      /\ \A c \in Call : push[c] # None => push'[c].to = push[c].to
  BY <1>1, <1>2, <1>3, LostTask
<1>6. QED BY <1>3, <1>4, <1>5, TasksKeep DEF IInv, TypeOK

LEMMA SetFollowUpKeeps ==
    ASSUME IInv, NEW c \in Call, NEW f \in FollowUp, SetFollowUp(c, f)
    PROVE  IInv'
<1>1. row[c] \in Row
  BY DEF IInv, TypeOK, SetFollowUp
<1>2. /\ [row[c] EXCEPT !.followUp = f] \in Row
      /\ [row[c] EXCEPT !.followUp = f].business = row[c].business
  BY <1>1 DEF Row
<1>3. /\ row' = [row EXCEPT ![c] = [row[c] EXCEPT !.followUp = f]]
      /\ row[c] # None
      /\ UNCHANGED <<poolVars, verifying, taskVars, token, mailable, dead>>
  BY DEF SetFollowUp
<1>4. TypeOK'
  BY <1>2, <1>3 DEF IInv, TypeOK, poolVars, taskVars
<1>5. \A d \in Call : row'[d] = None => row[d] = None
  BY <1>2, <1>3, CallsAssumption DEF IInv, TypeOK
<1>6. NoticeHasRow'
  BY <1>3, <1>5 DEF IInv, NoticeHasRow, taskVars
<1>7. BorrowerRemembered'
  BY <1>3 DEF IInv, BorrowerRemembered, poolVars
<1>8. OnlyToBorrowers'
  BY <1>2, <1>3 DEF IInv, TypeOK, OnlyToBorrowers, poolVars, taskVars
<1>9. QED BY <1>4, <1>6, <1>7, <1>8 DEF IInv

LEMMA NumberMovesKeeps ==
    ASSUME IInv, NumberMoves
    PROVE  IInv'
<1>1. /\ borrower' \in [Number -> Business \cup {None}]
      /\ borrowed' = [n \in Number |-> borrowed[n] \cup ({borrower'[n]} \ {None})]
      /\ UNCHANGED <<verifying, row, alert, push, token, mailable, dead>>
  BY DEF NumberMoves, Pool!Next, Pool!Lend, Pool!GiveBack, IInv, TypeOK, taskVars
<1>2. /\ borrowed' \in [Number -> SUBSET Business]
      /\ \A n \in Number : borrowed[n] \subseteq borrowed'[n]
      /\ \A n \in Number : borrower'[n] # None => borrower'[n] \in borrowed'[n]
  BY <1>1 DEF IInv, TypeOK
<1>3. TypeOK' /\ NoticeHasRow' /\ BorrowerRemembered'
  BY <1>1, <1>2 DEF IInv, TypeOK, NoticeHasRow, BorrowerRemembered
<1>4. OnlyToBorrowers'
  BY <1>1, <1>2, CallsAssumption DEF IInv, OnlyToBorrowers
<1>5. QED BY <1>3, <1>4 DEF IInv

(* The actions that touch neither a row nor a notice nor a number.         *)
LEMMA OthersKeep ==
    ASSUME IInv, UNCHANGED <<poolVars, row, taskVars>>,
           verifying' \subseteq Business, token' \in Token \cup {NoToken},
           mailable' \subseteq Business, dead' \subseteq Token
    PROVE  IInv'
BY DEF IInv, TypeOK, NoticeHasRow, BorrowerRemembered, OnlyToBorrowers, poolVars, taskVars

LEMMA NextKeeps == IInv /\ [Next]_vars => IInv'
<1> SUFFICES ASSUME IInv, [Next]_vars PROVE IInv'
  OBVIOUS
<1>1. ASSUME NEW c \in Call, NEW carried \in SUBSET Field, Deliver(c, carried)
      PROVE  IInv'
  BY <1>1, DeliverKeeps
<1>2. ASSUME NEW c \in Call, NEW carried \in SUBSET Field, DeliverFails(c, carried)
      PROVE  IInv'
  BY <1>2, OthersKeep DEF DeliverFails, IInv, TypeOK
<1>3. ASSUME NEW c \in Call, AlertAnswered(c) \/ PushAnswered(c)
      PROVE  IInv'
  BY <1>3, AlertAnsweredKeeps, PushAnsweredKeeps
<1>4. CASE Crash
  BY <1>4, CrashKeeps
<1>5. ASSUME NEW c \in Call, NEW f \in FollowUp, SetFollowUp(c, f)
      PROVE  IInv'
  BY <1>5, SetFollowUpKeeps
<1>6. ASSUME NEW b \in Business, NEW t \in Token \cup {NoToken}, SaveSettings(b, t)
      PROVE  IInv'
  BY <1>6, OthersKeep DEF SaveSettings, IInv, TypeOK
<1>7. ASSUME NEW b \in Business, OwnerSteps(b)
      PROVE  IInv'
  BY <1>7, OthersKeep DEF OwnerSteps, IInv, TypeOK
<1>8. CASE NumberMoves
  BY <1>8, NumberMovesKeeps
<1>9. ASSUME NEW t \in Token, Uninstall(t)
      PROVE  IInv'
  BY <1>9, OthersKeep DEF Uninstall, IInv, TypeOK
<1>10. CASE UNCHANGED vars
  BY <1>10, OthersKeep DEF vars, IInv, TypeOK
<1>11. QED BY <1>1, <1>2, <1>3, <1>4, <1>5, <1>6, <1>7, <1>8, <1>9, <1>10 DEF Next

LEMMA Inductive == Spec => []IInv
<1>1. QED BY InitIInv, NextKeeps, PTL DEF Spec

(* Every reachable state is well typed: no delivery writes a row without   *)
(* its workflow, and no answer puts anything but a token in the settings.  *)
THEOREM Types == Spec => []TypeOK
<1>1. IInv => TypeOK
  BY DEF IInv
<1>2. QED BY <1>1, Inductive, PTL

(* Calls reach only businesses that had the number: handleDograhWebhook    *)
(* asks the rows at the moment of each delivery, and nothing it planned    *)
(* before is addressed anew.                                               *)
THEOREM BorrowersOnly == Spec => []OnlyToBorrowers
<1>1. IInv => OnlyToBorrowers
  BY DEF IInv
<1>2. QED BY <1>1, Inductive, PTL

-----------------------------------------------------------------------------
(* The action properties, from the invariant and one step.                 *)
LEMMA SettledAlerts == IInv /\ [Next]_vars => SettledOnce(alert)
<1> SUFFICES ASSUME IInv, [Next]_vars PROVE SettledOnce(alert)
  OBVIOUS
<1>1. ASSUME alert' = alert PROVE SettledOnce(alert)
  BY <1>1 DEF SettledOnce
<1>2. ASSUME NEW c \in Call, NEW carried \in SUBSET Field, Deliver(c, carried)
      PROVE  SettledOnce(alert)
  <2>1. PlanAlert(c, Match(c, carried)) /\ PlanPush(c, Match(c, carried))
    BY <1>2 DEF Deliver
  <2>2. \A d \in Call : d # c \/ row[c] # None => alert'[d] = alert[d]
    BY <2>1, Matched, Planned
  <2>3. QED BY <2>2 DEF SettledOnce, IInv, NoticeHasRow
<1>3. ASSUME NEW c \in Call, AlertAnswered(c) PROVE SettledOnce(alert)
  <2>1. /\ alert[c] # None /\ alert[c].pc = "planned"
        /\ alert' = [alert EXCEPT ![c] = [alert[c] EXCEPT !.pc = "answered"]]
    BY <1>3 DEF AlertAnswered
  <2>2. /\ [alert[c] EXCEPT !.pc = "answered"] # None
        /\ [alert[c] EXCEPT !.pc = "answered"].to = alert[c].to
    BY <2>1, TaskSettled, CallsAssumption DEF IInv, TypeOK, TaskState
  <2>3. QED BY <2>1, <2>2 DEF SettledOnce, IInv, TypeOK
<1>4. CASE Crash
  <2>1. alert' = Lost(alert) /\ alert \in [Call -> Alert \cup {None}] /\ None \notin Alert
    BY <1>4, CallsAssumption DEF Crash, IInv, TypeOK
  <2>2. QED BY <2>1, LostTask DEF SettledOnce
<1>5. CASE UNCHANGED vars
  BY <1>5, <1>1 DEF vars, taskVars
<1>6. QED
  BY <1>1, <1>2, <1>3, <1>4, <1>5
     DEF Next, DeliverFails, PushAnswered, SetFollowUp, SaveSettings, OwnerSteps,
         NumberMoves, Uninstall, taskVars

LEMMA SettledPushes == IInv /\ [Next]_vars => SettledOnce(push)
<1> SUFFICES ASSUME IInv, [Next]_vars PROVE SettledOnce(push)
  OBVIOUS
<1>1. ASSUME push' = push PROVE SettledOnce(push)
  BY <1>1 DEF SettledOnce
<1>2. ASSUME NEW c \in Call, NEW carried \in SUBSET Field, Deliver(c, carried)
      PROVE  SettledOnce(push)
  <2>1. PlanAlert(c, Match(c, carried)) /\ PlanPush(c, Match(c, carried))
    BY <1>2 DEF Deliver
  <2>2. \A d \in Call : d # c \/ row[c] # None => push'[d] = push[d]
    BY <2>1, Matched, Planned
  <2>3. QED BY <2>2 DEF SettledOnce, IInv, NoticeHasRow
<1>3. ASSUME NEW c \in Call, PushAnswered(c) PROVE SettledOnce(push)
  <2>1. /\ push[c] # None /\ push[c].pc = "planned"
        /\ push' = [push EXCEPT ![c] = [push[c] EXCEPT !.pc = "answered"]]
    BY <1>3 DEF PushAnswered
  <2>2. /\ [push[c] EXCEPT !.pc = "answered"] # None
        /\ [push[c] EXCEPT !.pc = "answered"].to = push[c].to
    BY <2>1, TaskSettled, CallsAssumption DEF IInv, TypeOK, TaskState
  <2>3. QED BY <2>1, <2>2 DEF SettledOnce, IInv, TypeOK
<1>4. CASE Crash
  <2>1. push' = Lost(push) /\ push \in [Call -> Push \cup {None}] /\ None \notin Push
    BY <1>4, CallsAssumption DEF Crash, IInv, TypeOK
  <2>2. QED BY <2>1, LostTask DEF SettledOnce
<1>5. CASE UNCHANGED vars
  BY <1>5, <1>1 DEF vars, taskVars
<1>6. QED
  BY <1>1, <1>2, <1>3, <1>4, <1>5
     DEF Next, DeliverFails, AlertAnswered, SetFollowUp, SaveSettings, OwnerSteps,
         NumberMoves, Uninstall, taskVars

(* An owner gets one e-mail and one push about a call at most, whatever    *)
(* Dograh delivers again and whatever dies: `created` is true once.        *)
THEOREM NoticeOnce == Spec => NotifiedOnce
<1>1. QED BY Inductive, SettledAlerts, SettledPushes, PTL DEF Spec, NotifiedOnce

KeepsRows ==
    \A c \in Stored :
        /\ row[c].captured \cap Kept \subseteq row'[c].captured
        /\ row'[c].followUp = row[c].followUp \/ row'[c].captured = row[c].captured

LEMMA RowStep == IInv /\ [Next]_vars => KeepsRows
<1> SUFFICES ASSUME IInv, [Next]_vars PROVE KeepsRows
  OBVIOUS
<1>1. ASSUME row' = row PROVE KeepsRows
  BY <1>1 DEF KeepsRows, Stored
<1>2. ASSUME NEW c \in Call, NEW carried \in SUBSET Field, Deliver(c, carried)
      PROVE  KeepsRows
  <2>1. row' = [row EXCEPT ![c] = Upsert(c, Match(c, carried), carried)]
    BY <1>2 DEF Deliver
  <2>2. row[c] # None =>
           /\ Upsert(c, Match(c, carried), carried).followUp = row[c].followUp
           /\ row[c].captured \cap Kept \subseteq Upsert(c, Match(c, carried), carried).captured
    BY Matched, Upserted
  <2>3. QED BY <2>1, <2>2 DEF KeepsRows, Stored, IInv, TypeOK
<1>3. ASSUME NEW c \in Call, NEW f \in FollowUp, SetFollowUp(c, f)
      PROVE  KeepsRows
  <2>1. row' = [row EXCEPT ![c] = [row[c] EXCEPT !.followUp = f]] /\ row[c] \in Row
    BY <1>3 DEF SetFollowUp, IInv, TypeOK
  <2>2. [row[c] EXCEPT !.followUp = f].captured = row[c].captured
    BY <2>1 DEF Row
  <2>3. QED BY <2>1, <2>2 DEF KeepsRows, Stored, IInv, TypeOK
<1>4. CASE UNCHANGED vars
  BY <1>4, <1>1 DEF vars
<1>5. QED
  BY <1>1, <1>2, <1>3, <1>4
     DEF Next, DeliverFails, AlertAnswered, PushAnswered, Crash, SaveSettings,
         OwnerSteps, NumberMoves, Uninstall

(* No delivery blanks a COALESCEd column of a call, nor changes what its   *)
(* owner wrote on it.                                                      *)
THEOREM RowsKept == Spec => RowKept
<1>1. QED BY Inductive, RowStep, PTL DEF Spec, RowKept, KeepsRows
=============================================================================
