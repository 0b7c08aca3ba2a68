---------------------------- MODULE BackOfficeProofs ----------------------------
(***************************************************************************)
(* Proofs about BackOffice: the deployment for any commits, columns and    *)
(* rows, then each of the pages for any number of actors, and of bounds.   *)
(***************************************************************************)
EXTENDS BackOffice, FiniteSetTheorems, TLAPS

-----------------------------------------------------------------------------
(* Deployment.  FileInv says how far the file is when the handle is at     *)
(* each of its stages; TreeInv says which commit is checked out, built and *)
(* running at each point of the script.                                    *)

(* The tables are not those of another commit's schema.sql.                *)
OwnTables == made \in {None, running}

(* A process is behind every handle, and the columns the running code      *)
(* lists are there from the end of the migration on, in tables which were  *)
(* found or which its own schema.sql made.                                 *)
Migrated ==
    /\ handle # "closed" => running # None
    /\ handle = "columns" => made = None
    /\ handle \in {"uids", "open"} => columns # None
    /\ /\ handle \in {"schema", "uids", "open"}
       /\ columns # None
       /\ OwnTables
       => Needs[running] \subseteq columns

FileInv == TypeOK /\ Migrated /\ OpenIsComplete

(* From the second start on, what serves is what is checked out and built, *)
(* and its schema.sql is its own.                                          *)
NewServes ==
    /\ script \in {"restart", "gate", "done"} => build = head
    /\ script \in {"gate", "done"} => (running # None => running = head /\ head \in Boots)
    /\ script = "gate" => made \in {None, head}

Restoring ==
    /\ script \in {"restore", "rebuild", "restart old"} => head = prev
    /\ script = "restart old" => build = prev

TreeInv == NewServes /\ Restoring /\ DeployedAnswers /\ RolledBackToPrev

IInv == FileInv /\ TreeInv

LEMMA InitInv == Init => IInv
<1> SUFFICES ASSUME Init PROVE IInv
  OBVIOUS
<1> USE DeploymentAssumption
<1>1. TypeOK
  BY DEF Init, TypeOK, Ended
<1>2. Migrated /\ OpenIsComplete
  BY DEF Init, Migrated, OpenIsComplete
<1>3. NewServes /\ Restoring /\ DeployedAnswers /\ RolledBackToPrev
  BY DEF Init, NewServes, Restoring, DeployedAnswers, RolledBackToPrev
<1>4. QED BY <1>1, <1>2, <1>3 DEF IInv, FileInv, TreeInv

-----------------------------------------------------------------------------
(* The process dies, starts or is started again: its handle is gone.       *)
LEMMA ProcessSteps ==
    ASSUME IInv, Dies \/ Starts
    PROVE  IInv'
<1> USE DeploymentAssumption DEF treeVars, fileVars, scriptVars
<1>1. TypeOK'
  BY DEF IInv, FileInv, TypeOK, Dies, Starts
<1>2. Migrated' /\ OpenIsComplete'
  BY DEF IInv, FileInv, TypeOK, Migrated, OpenIsComplete, Dies, Starts
<1>3. NewServes' /\ Restoring'
  BY DEF IInv, TreeInv, NewServes, Restoring, Dies, Starts
<1>4. DeployedAnswers' /\ RolledBackToPrev'
  BY DEF IInv, TreeInv, DeployedAnswers, RolledBackToPrev, Dies, Starts
<1>5. QED BY <1>1, <1>2, <1>3, <1>4 DEF IInv, FileInv, TreeInv

(* A step of getDb() leaves the tree, the process and the script.          *)
LEMMA OpeningKeepsTree ==
    ASSUME IInv, UNCHANGED <<treeVars, running, scriptVars>>,
           columns # None => columns' # None /\ columns \subseteq columns',
           script = "gate" => made' \in {None, head}
    PROVE  TreeInv'
<1> USE DeploymentAssumption DEF treeVars, scriptVars
<1>1. NewServes' /\ Restoring' /\ RolledBackToPrev'
  BY DEF IInv, TreeInv, NewServes, Restoring, RolledBackToPrev
<1>2. DeployedAnswers'
  BY DEF IInv, TreeInv, DeployedAnswers
<1>3. QED BY <1>1, <1>2 DEF TreeInv

LEMMA OpeningSteps ==
    ASSUME IInv,
           \/ OpenStarts \/ ColumnsDone \/ MakeTables \/ ExecSchema \/ SchemaThrows
           \/ BackfillThrows \/ Opened
           \/ \E c \in Column : AddColumn(c)
    PROVE  IInv'
<1> USE DeploymentAssumption DEF treeVars, fileVars, scriptVars, processVars
<1>0. script = "gate" => made \in {None, head}
  BY DEF IInv, TreeInv, NewServes
<1>1. CASE OpenStarts
  <2>1. FileInv'
    BY <1>1 DEF IInv, FileInv, TypeOK, Migrated, OpenIsComplete, OpenStarts
  <2>2. TreeInv'
    BY <1>1, OpeningKeepsTree DEF OpenStarts
  <2>3. QED BY <2>1, <2>2 DEF IInv
<1>2. CASE ColumnsDone
  <2>1. FileInv'
    BY <1>2 DEF IInv, FileInv, TypeOK, Migrated, OpenIsComplete, ColumnsDone, Missing
  <2>2. TreeInv'
    BY <1>0, <1>2, OpeningKeepsTree DEF ColumnsDone
  <2>3. QED BY <2>1, <2>2 DEF IInv
<1>3. CASE MakeTables
  <2>1. TypeOK' /\ OpenIsComplete'
    BY <1>3 DEF IInv, FileInv, TypeOK, OpenIsComplete, MakeTables
  <2>2. Migrated'
    <3>1. columns' = Needs[head] /\ made' = head /\ head \in Commit
      BY <1>3 DEF IInv, FileInv, TypeOK, MakeTables
    <3>2. handle' = "schema" /\ running' = running /\ running # None
      BY <1>3 DEF IInv, FileInv, Migrated, MakeTables
    <3>3. QED BY <3>1, <3>2 DEF Migrated, OwnTables
  <2>3. TreeInv'
    BY <1>3, OpeningKeepsTree DEF MakeTables
  <2>4. QED BY <2>1, <2>2, <2>3 DEF IInv, FileInv
<1>4. CASE ExecSchema \/ SchemaThrows \/ BackfillThrows
  <2>1. FileInv'
    BY <1>4 DEF IInv, FileInv, TypeOK, Migrated, OwnTables, OpenIsComplete, ExecSchema,
       SchemaThrows, BackfillThrows
  <2>2. TreeInv'
    BY <1>0, <1>4, OpeningKeepsTree DEF ExecSchema, SchemaThrows, BackfillThrows
  <2>3. QED BY <2>1, <2>2 DEF IInv
<1>5. CASE Opened
  <2>1. TypeOK' /\ Migrated'
    BY <1>5 DEF IInv, FileInv, TypeOK, Migrated, OwnTables, Opened
  <2>2. OpenIsComplete'
    BY <1>5 DEF IInv, FileInv, Migrated, OwnTables, OpenIsComplete, Opened, Pending
  <2>3. TreeInv'
    BY <1>0, <1>5, OpeningKeepsTree DEF Opened
  <2>4. QED BY <2>1, <2>2, <2>3 DEF IInv, FileInv
<1>6. ASSUME NEW c \in Column, AddColumn(c) PROVE IInv'
  <2>0. columns # None
    BY <1>6 DEF AddColumn, Missing
  <2>1. FileInv'
    BY <1>6, <2>0 DEF IInv, FileInv, TypeOK, Migrated, OwnTables, OpenIsComplete, AddColumn
  <2>2. TreeInv'
    BY <1>0, <1>6, <2>0, OpeningKeepsTree DEF IInv, FileInv, TypeOK, AddColumn
  <2>3. QED BY <2>1, <2>2 DEF IInv
<1>7. QED BY <1>1, <1>2, <1>3, <1>4, <1>5, <1>6

(* A row is inserted, or gets its UID.                                     *)
LEMMA RowSteps ==
    ASSUME IInv, NEW r \in Row, Backfill(r) \/ Insert(r)
    PROVE  IInv'
<1> USE DeploymentAssumption DEF treeVars, processVars, scriptVars
<1>1. TypeOK'
  BY DEF IInv, FileInv, TypeOK, Backfill, Insert, Fresh
<1>2. Migrated'
  BY DEF IInv, FileInv, Migrated, OwnTables, Backfill, Insert
<1>3. OpenIsComplete'
  <2>1. CASE Backfill(r)
    BY <2>1 DEF OpenIsComplete, Backfill
  <2>2. CASE Insert(r)
    BY <2>2 DEF IInv, FileInv, TypeOK, OpenIsComplete, Insert, Fresh
  <2>3. QED BY <2>1, <2>2
<1>4. NewServes' /\ Restoring'
  BY DEF IInv, TreeInv, NewServes, Restoring, Backfill, Insert
<1>5. DeployedAnswers' /\ RolledBackToPrev'
  BY DEF IInv, TreeInv, DeployedAnswers, RolledBackToPrev, Backfill, Insert
<1>6. QED BY <1>1, <1>2, <1>3, <1>4, <1>5 DEF IInv, FileInv, TreeInv

-----------------------------------------------------------------------------
(* A step of the script that restarts nothing leaves the file's part.      *)
LEMMA ScriptKeepsFile ==
    ASSUME IInv, TypeOK', UNCHANGED <<processVars, fileVars>>
    PROVE  FileInv'
BY DEF IInv, FileInv, Migrated, OwnTables, OpenIsComplete, processVars, fileVars

LEMMA ScriptSteps ==
    ASSUME IInv,
           \/ \E c \in Commit : Deploy(c)
           \/ Npm \/ BuildSucceeds \/ BuildFails \/ GatePasses \/ GateFails
           \/ Rebuilds \/ Aborts
    PROVE  IInv'
<1> USE DeploymentAssumption DEF treeVars, processVars, fileVars
<1>1. ASSUME NEW c \in Commit, Deploy(c) PROVE IInv'
  <2>0. deploys' \in 0 .. MaxDeploys
    <3>1. deploys' = deploys + 1 /\ deploys < MaxDeploys
      BY <1>1 DEF Deploy
    <3>2. deploys \in 0 .. MaxDeploys /\ MaxDeploys \in Nat
      BY DEF IInv, FileInv, TypeOK, DeploymentAssumption
    <3>3. QED BY <3>1, <3>2
  <2>1. TypeOK'
    <3>1. script' = "reset" /\ head' = c /\ prev' = head
      BY <1>1 DEF Deploy
    <3>2. UNCHANGED <<build, running, handle, made, columns, uid>>
      BY <1>1 DEF Deploy
    <3>3. QED BY <2>0, <3>1, <3>2 DEF IInv, FileInv, TypeOK, Ended
  <2>2. FileInv'
    BY <1>1, <2>1, ScriptKeepsFile DEF Deploy
  <2>3. TreeInv'
    BY <1>1 DEF TreeInv, NewServes, Restoring, DeployedAnswers, RolledBackToPrev, Deploy
  <2>4. QED BY <2>2, <2>3 DEF IInv
<1>2. CASE Npm \/ BuildSucceeds \/ BuildFails
  <2>1. TypeOK'
    BY <1>2 DEF IInv, FileInv, TypeOK, Npm, BuildSucceeds, BuildFails, Restored
  <2>2. FileInv'
    BY <1>2, <2>1, ScriptKeepsFile DEF Npm, BuildSucceeds, BuildFails
  <2>3. TreeInv'
    BY <1>2 DEF IInv, TreeInv, NewServes, Restoring, DeployedAnswers, RolledBackToPrev,
       Npm, BuildSucceeds, BuildFails, Restored
  <2>4. QED BY <2>2, <2>3 DEF IInv
<1>3. CASE GatePasses
  <2>1. TypeOK'
    BY <1>3 DEF IInv, FileInv, TypeOK, GatePasses, Ended
  <2>2. FileInv'
    BY <1>3, <2>1, ScriptKeepsFile DEF GatePasses
  <2>3. running = head /\ head \in Boots /\ made \in {None, head}
    BY <1>3 DEF IInv, TreeInv, NewServes, GatePasses, Healthy
  <2>4. columns # None /\ Needs[head] \subseteq columns
    BY <1>3, <2>3 DEF IInv, FileInv, Migrated, OwnTables, GatePasses, Healthy
  <2>5. TreeInv'
    BY <1>3, <2>3, <2>4 DEF IInv, TreeInv, NewServes, Restoring, DeployedAnswers,
       RolledBackToPrev, GatePasses
  <2>6. QED BY <2>2, <2>5 DEF IInv
<1>4. CASE GateFails \/ Rebuilds
  <2>1. TypeOK'
    BY <1>4 DEF IInv, FileInv, TypeOK, GateFails, Rebuilds, Restored
  <2>2. FileInv'
    BY <1>4, <2>1, ScriptKeepsFile DEF GateFails, Rebuilds
  <2>3. TreeInv'
    BY <1>4 DEF IInv, TreeInv, NewServes, Restoring, DeployedAnswers, RolledBackToPrev,
       GateFails, Rebuilds, Restored
  <2>4. QED BY <2>2, <2>3 DEF IInv
<1>5. CASE Aborts
  <2>1. TypeOK'
    BY <1>5 DEF IInv, FileInv, TypeOK, Aborts, Ended
  <2>2. FileInv'
    BY <1>5, <2>1, ScriptKeepsFile DEF Aborts
  <2>3. TreeInv'
    BY <1>5 DEF TreeInv, NewServes, Restoring, DeployedAnswers, RolledBackToPrev, Aborts
  <2>4. QED BY <2>2, <2>3 DEF IInv
<1>6. QED BY <1>1, <1>2, <1>3, <1>4, <1>5

LEMMA RestartSteps ==
    ASSUME IInv, Restart
    PROVE  IInv'
<1> USE DeploymentAssumption DEF treeVars, fileVars
<1>1. FileInv'
  BY DEF IInv, FileInv, TypeOK, Migrated, OpenIsComplete, Restart, Ended
<1>2. TreeInv'
  BY DEF IInv, TreeInv, NewServes, Restoring, DeployedAnswers, RolledBackToPrev, Restart
<1>3. QED BY <1>1, <1>2 DEF IInv

LEMMA NextInv == IInv /\ [Next]_vars => IInv'
<1> SUFFICES ASSUME IInv, [Next]_vars PROVE IInv'
  OBVIOUS
<1>1. CASE UNCHANGED vars
  <2> USE <1>1 DEF vars, treeVars, processVars, fileVars, scriptVars
  <2>1. TypeOK'
    BY DEF IInv, FileInv, TypeOK
  <2>2. FileInv'
    BY <2>1, ScriptKeepsFile
  <2>3. TreeInv'
    BY DEF IInv, TreeInv, NewServes, Restoring, DeployedAnswers, RolledBackToPrev
  <2>4. QED BY <2>2, <2>3 DEF IInv
<1>2. CASE Next
  BY <1>2, ProcessSteps, OpeningSteps, RowSteps, ScriptSteps, RestartSteps DEF Next
<1>3. QED BY <1>1, <1>2

LEMMA Invariance == Spec => []IInv
<1>1. QED BY InitInv, NextInv, PTL DEF Spec

-----------------------------------------------------------------------------
(* The variables of a deployment keep their types.                         *)
THEOREM Types == Spec => []TypeOK
<1>1. IInv => TypeOK
  BY DEF IInv, FileInv
<1>2. QED BY <1>1, Invariance, PTL

(* However openings and deployments die, and from an empty file on, a      *)
(* handle that getDb() has given out is of a file with the UIDs that the   *)
(* running code needs, and with its columns unless this process made the   *)
(* tables by the schema.sql of another commit.                             *)
THEOREM HandleIsComplete == Spec => []OpenIsComplete
<1>1. IInv => OpenIsComplete
  BY DEF IInv, FileInv
<1>2. QED BY <1>1, Invariance, PTL

(* A deployment that ends well has built what it checked out, which boots  *)
(* and finds its tables and columns: whatever was in the file.             *)
THEOREM DoneAnswers == Spec => []DeployedAnswers
<1>1. IInv => DeployedAnswers
  BY DEF IInv, TreeInv
<1>2. QED BY <1>1, Invariance, PTL

(* A deployment that rolls back ends with the commit it began with checked *)
(* out, built and, unless it is down, running.                             *)
THEOREM RollsBack == Spec => []RolledBackToPrev
<1>1. IInv => RolledBackToPrev
  BY DEF IInv, TreeInv
<1>2. QED BY <1>1, Invariance, PTL

(* No opening of the database, by whatever commit, rewrites a UID.         *)
THEOREM UidsKept == Spec => UidNeverRewritten
<1>1. IInv /\ [Next]_vars => [KeepsUids]_vars
  <2> SUFFICES ASSUME IInv, Next PROVE KeepsUids
    BY DEF vars
  <2> USE DeploymentAssumption
  <2>1. CASE \E r \in Row : Backfill(r) \/ Insert(r)
    BY <2>1 DEF IInv, FileInv, TypeOK, KeepsUids, Backfill, Insert, Pending
  <2>2. CASE uid' = uid
    BY <2>2 DEF KeepsUids
  <2>3. QED
    BY <2>1, <2>2 DEF Next, Dies, Starts, OpenStarts, ColumnsDone, MakeTables, ExecSchema,
       SchemaThrows, BackfillThrows, Opened, AddColumn, Deploy, Npm, BuildSucceeds, BuildFails, Restart,
       GatePasses, GateFails, Rebuilds, Aborts, fileVars
<1>2. QED BY <1>1, Invariance, PTL DEF Spec, UidNeverRewritten

-----------------------------------------------------------------------------
(* Leads and waitlist: a visitor's answer, and what a select may fall back *)
(* to.                                                                     *)
Stored(v) == IF lPage[v] = "start" THEN \E l \in Lead : lFrom[l] = v ELSE v \in lJoined

AnsweredIsStored == \A v \in Visitor : lPost[v] = "ok" => Stored(v)

(* A select waits for its request with the status it was sent, and knows   *)
(* one that the lead has had.                                              *)
SelectsKnow ==
    \A l \in Lead :
        /\ lStatus[l] \in lWas[l]
        /\ \A a \in Admin :
               /\ lSelect[a][l] # None => lSelect[a][l].previous \in lWas[l]
               /\ lPatch[a][l] # None =>
                      /\ lSelect[a][l] # None
                      /\ lSelect[a][l].busy
                      /\ lSelect[a][l].value = lPatch[a][l].to
                      /\ lPatch[a][l].state = "ok" => lPatch[a][l].to \in lWas[l]

LeadsInv ==
    /\ Leads!TypeOK
    /\ AnsweredIsStored /\ Leads!ThankedIsStored
    /\ SelectsKnow /\ Leads!ShownWasHad

Select == [value : Status, previous : Status, busy : BOOLEAN, error : BOOLEAN]
Patch  == [to : Status, state : {"sent", "ok", "refused"}]

LEMMA LeadsInit == Leads!Init => LeadsInv
<1> SUFFICES ASSUME Leads!Init PROVE LeadsInv
  OBVIOUS
<1> USE BackOfficeAssumption
<1>1. Leads!TypeOK
  BY DEF Leads!Init, Leads!TypeOK
<1>2. AnsweredIsStored /\ Leads!ThankedIsStored
  BY DEF Leads!Init, AnsweredIsStored, Leads!ThankedIsStored
<1>3. SelectsKnow /\ Leads!ShownWasHad
  BY DEF Leads!Init, SelectsKnow, Leads!ShownWasHad
<1>4. QED BY <1>1, <1>2, <1>3 DEF LeadsInv

(* What is stored stays stored.                                            *)
LEMMA StoredKept ==
    ASSUME NEW v \in Visitor, Stored(v), lPage' = lPage, lJoined \subseteq lJoined',
           \A l \in Lead : lFrom[l] # None => lFrom'[l] = lFrom[l]
    PROVE  IF lPage'[v] = "start" THEN \E l \in Lead : lFrom'[l] = v ELSE v \in lJoined'
  BY BackOfficeAssumption DEF Stored

LEMMA AcceptedStores ==
    ASSUME Leads!TypeOK, NEW v \in Visitor, Leads!Accepted(v), lPage' = lPage
    PROVE  /\ lFrom' \in [Lead -> Visitor \cup {None}] /\ lJoined' \subseteq Visitor
           /\ lBucket' \in [Visitor -> 0 .. Limit]
           /\ lJoined \subseteq lJoined'
           /\ \A l \in Lead : lFrom[l] # None => lFrom'[l] = lFrom[l]
           /\ Stored(v)'
<1> USE BackOfficeAssumption DEF Leads!TypeOK
<1>1. lBucket' \in [Visitor -> 0 .. Limit]
  BY DEF Leads!Accepted, Leads!Passes
<1>2. CASE lPage[v] = "start"
  <2>1. PICK l \in Lead : /\ lFrom[l] = None /\ lFrom' = [lFrom EXCEPT ![l] = v]
                          /\ lJoined' = lJoined
    BY <1>2 DEF Leads!Accepted, Leads!CreateLead
  <2>2. QED BY <1>1, <1>2, <2>1 DEF Stored
<1>3. CASE lPage[v] # "start"
  BY <1>1, <1>3 DEF Leads!Accepted, Leads!AddWaitlistSignup, Stored
<1>4. QED BY <1>2, <1>3

LEMMA VisitorSteps ==
    ASSUME LeadsInv, NEW v \in Visitor,
           \/ Leads!Submit(v) \/ Leads!ServerAccepts(v) \/ Leads!ServerLimits(v)
           \/ Leads!ServerRejects(v) \/ Leads!AnswerArrives(v) \/ Leads!AnswerLost(v)
           \/ Leads!LateSubmission(v) \/ Leads!WindowEnds(v)
    PROVE  LeadsInv'
<1> USE BackOfficeAssumption DEF LeadsInv
<1>1. UNCHANGED <<lPage, lStatus, lSession, lSelect, lPatch, lPicks, lAudit, lWas>>
  BY DEF Leads!Submit, Leads!ServerAccepts, Leads!ServerLimits, Leads!ServerRejects,
         Leads!AnswerArrives, Leads!AnswerLost, Leads!LateSubmission, Leads!WindowEnds,
         Leads!deskVars
<1>2. SelectsKnow' /\ Leads!ShownWasHad'
  BY <1>1 DEF SelectsKnow, Leads!ShownWasHad
<1>3. CASE Leads!ServerAccepts(v)
  <2>1. Leads!Accepted(v) /\ lPost' = [lPost EXCEPT ![v] = "ok"] /\ UNCHANGED <<lForm, lLate>>
    BY <1>3 DEF Leads!ServerAccepts
  <2>2. Leads!TypeOK'
    BY <1>1, <2>1, AcceptedStores DEF Leads!TypeOK
  <2>3. \A u \in Visitor : Stored(u) => Stored(u)'
    BY <1>1, <2>1, AcceptedStores, StoredKept DEF Stored
  <2>4. AnsweredIsStored'
    BY <1>1, <2>1, <2>3, AcceptedStores DEF AnsweredIsStored, Leads!TypeOK
  <2>5. Leads!ThankedIsStored'
    BY <2>1, <2>3 DEF Leads!ThankedIsStored, Stored
  <2>6. QED BY <1>2, <2>2, <2>4, <2>5
<1>4. CASE Leads!LateSubmission(v)
  <2>1. Leads!Accepted(v) /\ lLate' = lLate \ {v} /\ UNCHANGED <<lForm, lPost>>
    BY <1>4 DEF Leads!LateSubmission
  <2>2. Leads!TypeOK'
    BY <1>1, <2>1, AcceptedStores DEF Leads!TypeOK
  <2>3. \A u \in Visitor : Stored(u) => Stored(u)'
    BY <1>1, <2>1, AcceptedStores, StoredKept DEF Stored
  <2>4. AnsweredIsStored' /\ Leads!ThankedIsStored'
    BY <2>1, <2>3 DEF AnsweredIsStored, Leads!ThankedIsStored, Stored
  <2>5. QED BY <1>2, <2>2, <2>4
<1>5. ASSUME \/ Leads!Submit(v) \/ Leads!ServerLimits(v) \/ Leads!ServerRejects(v)
             \/ Leads!AnswerArrives(v) \/ Leads!AnswerLost(v) \/ Leads!WindowEnds(v)
      PROVE  LeadsInv'
  <2>1. UNCHANGED <<lFrom, lJoined>>
    BY <1>5 DEF Leads!Submit, Leads!ServerLimits, Leads!ServerRejects, Leads!AnswerArrives,
                Leads!AnswerLost, Leads!WindowEnds
  <2>2. Leads!TypeOK'
    <3>1. lBucket' \in [Visitor -> 0 .. Limit]
      <4>1. Leads!Passes(v) => lBucket' \in [Visitor -> 0 .. Limit]
        BY DEF Leads!TypeOK, Leads!Passes
      <4>2. \/ Leads!Passes(v) \/ lBucket' = lBucket
            \/ lBucket' = [lBucket EXCEPT ![v] = 0]
        BY <1>5 DEF Leads!Submit, Leads!ServerLimits, Leads!ServerRejects,
                    Leads!AnswerArrives, Leads!AnswerLost, Leads!WindowEnds
      <4>3. QED BY <4>1, <4>2 DEF Leads!TypeOK
    <3>2. /\ lForm' \in [Visitor -> {"form", "sending", "thanked", "failed"}]
          /\ lPost' \in [Visitor -> {"none", "sent", "ok", "refused"}]
      BY <1>5 DEF Leads!TypeOK, Leads!Submit, Leads!ServerLimits, Leads!ServerRejects,
                  Leads!AnswerArrives, Leads!FormAfter, Leads!AnswerLost, Leads!WindowEnds
    <3>3. lLate' = lLate \/ lLate' = lLate \cup {v}
      BY <1>5 DEF Leads!Submit, Leads!ServerLimits, Leads!ServerRejects,
                  Leads!AnswerArrives, Leads!AnswerLost, Leads!WindowEnds
    <3>4. QED BY <1>1, <2>1, <3>1, <3>2, <3>3 DEF Leads!TypeOK
  <2>3. \A u \in Visitor : Stored(u)' <=> Stored(u)
    BY <1>1, <2>1 DEF Stored
  <2>4. \A u \in Visitor :
            /\ lPost'[u] = "ok" => lPost[u] = "ok"
            /\ lForm'[u] = "thanked" => lForm[u] = "thanked" \/ lPost[u] = "ok"
    BY <1>5 DEF Leads!TypeOK, Leads!Submit, Leads!ServerLimits, Leads!ServerRejects,
                Leads!AnswerArrives, Leads!FormAfter, Leads!AnswerLost, Leads!WindowEnds
  <2>5. AnsweredIsStored' /\ Leads!ThankedIsStored'
    BY <2>3, <2>4 DEF AnsweredIsStored, Leads!ThankedIsStored, Stored
  <2>6. QED BY <1>2, <2>2, <2>5
<1>6. QED BY <1>3, <1>4, <1>5

(* What one select and its request say of a lead's past.                   *)
Knows(x, q, past) ==
    /\ x # None => x.previous \in past
    /\ q # None => /\ x # None
                   /\ x.busy
                   /\ x.value = q.to
                   /\ q.state = "ok" => q.to \in past
    /\ x # None /\ ~x.busy => x.value \in past

LEMMA SelectsAndMarks ==
    /\ (SelectsKnow /\ Leads!ShownWasHad) =
           (\A l \in Lead : /\ lStatus[l] \in lWas[l] /\ lAudit[l] \subseteq lWas[l]
                            /\ \A a \in Admin : Knows(lSelect[a][l], lPatch[a][l], lWas[l]))
    /\ (SelectsKnow /\ Leads!ShownWasHad)' =
           (\A l \in Lead : /\ lStatus'[l] \in lWas'[l] /\ lAudit'[l] \subseteq lWas'[l]
                            /\ \A a \in Admin : Knows(lSelect'[a][l], lPatch'[a][l], lWas'[l]))
  BY DEF SelectsKnow, Leads!ShownWasHad, Knows

(* A page is rendered with the statuses of the table where it has none.    *)
LEMMA RenderedKnows ==
    ASSUME LeadsInv, NEW a \in Admin, NEW l \in Lead
    PROVE  /\ Leads!Rendered(a) \in [Lead -> {None} \cup Select]
           /\ Knows(Leads!Rendered(a)[l], lPatch[a][l], lWas[l])
           /\ lSelect[a][l] # None => Leads!Rendered(a)[l] = lSelect[a][l]
<1>1. Knows(lSelect[a][l], lPatch[a][l], lWas[l]) /\ lStatus[l] \in lWas[l]
  BY SelectsAndMarks DEF LeadsInv
<1>2. Leads!Rendered(a) \in [Lead -> {None} \cup Select]
  BY DEF LeadsInv, Leads!TypeOK, Leads!Rendered, Select
<1>3. \/ Leads!Rendered(a)[l] = lSelect[a][l]
      \/ /\ lSelect[a][l] = None
         /\ Leads!Rendered(a)[l] = [value |-> lStatus[l], previous |-> lStatus[l],
                                    busy |-> FALSE, error |-> FALSE]
  BY DEF Leads!Rendered
<1>4. QED BY <1>1, <1>2, <1>3 DEF Knows

LEMMA NestedUpdate ==
    ASSUME NEW A, NEW L, NEW S, NEW f \in [A -> [L -> S]], NEW a \in A, NEW l \in L,
           NEW x \in S
    PROVE  [f EXCEPT ![a][l] = x] \in [A -> [L -> S]]
<1>1. [f[a] EXCEPT ![l] = x] \in [L -> S]
  OBVIOUS
<1>2. QED BY <1>1

SelectsTyped == lSelect \in [Admin -> [Lead -> {None} \cup Select]]
PatchesTyped == lPatch \in [Admin -> [Lead -> {None} \cup Patch]]

LEMMA DeskTyped ==
    /\ Leads!TypeOK => SelectsTyped /\ PatchesTyped
    /\ /\ SelectsTyped' /\ PatchesTyped'
       /\ Leads!TypeOK
       /\ UNCHANGED Leads!publicVars /\ lFrom' = lFrom
       /\ lStatus' \in [Lead -> Status] /\ lSession' \subseteq Admin
       /\ lLate' \subseteq Visitor \cup (Lead \X Status)
       /\ lAudit' \in [Lead -> SUBSET Status] /\ lWas' \in [Lead -> SUBSET Status]
       /\ lPicks' \in 0 .. MaxPicks
       => Leads!TypeOK'
  BY DEF Leads!TypeOK, Leads!publicVars, SelectsTyped, PatchesTyped, Select, Patch

LEMMA DeskTypes ==
    ASSUME LeadsInv, NEW a \in Admin,
           \/ Leads!SignIn(a) \/ Leads!SessionExpires(a) \/ Leads!SignOut(a) \/ Leads!Render(a)
           \/ \E l \in Lead :
                  \/ \E s \in Status : Leads!Pick(a, l, s)
                  \/ Leads!ServerSets(a, l) \/ Leads!ServerRefuses(a, l)
                  \/ Leads!PatchArrives(a, l) \/ Leads!PatchLost(a, l)
    PROVE  Leads!TypeOK'
<1>0. /\ SelectsTyped /\ PatchesTyped /\ Leads!TypeOK
      /\ lStatus \in [Lead -> Status] /\ lSession \subseteq Admin
      /\ lLate \subseteq Visitor \cup (Lead \X Status)
      /\ lAudit \in [Lead -> SUBSET Status] /\ lWas \in [Lead -> SUBSET Status]
      /\ lPicks \in 0 .. MaxPicks /\ MaxPicks \in Nat
  BY DeskTyped, BackOfficeAssumption DEF LeadsInv, Leads!TypeOK
<1>1. CASE Leads!SignIn(a) \/ Leads!SessionExpires(a) \/ Leads!SignOut(a)
  <2>1. /\ \/ lSelect' = lSelect
           \/ lSelect' = [lSelect EXCEPT ![a] = [l \in Lead |-> None]]
        /\ \/ lPatch' = lPatch
           \/ lPatch' = [lPatch EXCEPT ![a] = [l \in Lead |-> None]]
    BY <1>1 DEF Leads!SignIn, Leads!SessionExpires, Leads!SignOut
  <2>2. SelectsTyped' /\ PatchesTyped'
    <3>1. [l \in Lead |-> None] \in [Lead -> {None} \cup Select]
      OBVIOUS
    <3>2. [l \in Lead |-> None] \in [Lead -> {None} \cup Patch]
      OBVIOUS
    <3>3. SelectsTyped'
      BY <1>0, <2>1, <3>1 DEF SelectsTyped
    <3>4. PatchesTyped'
      BY <1>0, <2>1, <3>2 DEF PatchesTyped
    <3>5. QED BY <3>3, <3>4
  <2>3. /\ UNCHANGED <<Leads!publicVars, lFrom, lStatus, lLate, lAudit, lWas, lPicks>>
        /\ lSession' \subseteq lSession \cup {a}
    BY <1>1 DEF Leads!SignIn, Leads!SessionExpires, Leads!SignOut
  <2>4. QED BY <1>0, <2>2, <2>3, DeskTyped
<1>2. CASE Leads!Render(a)
  <2>1. SelectsTyped'
    <3>1. lSelect' = [lSelect EXCEPT ![a] = Leads!Rendered(a)]
      BY <1>2 DEF Leads!Render
    <3>2. Lead # {} => Leads!Rendered(a) \in [Lead -> {None} \cup Select]
      BY RenderedKnows
    <3>3. Lead = {} => Leads!Rendered(a) \in [Lead -> {None} \cup Select]
      BY DEF Leads!Rendered
    <3>4. QED BY <1>0, <3>1, <3>2, <3>3 DEF SelectsTyped
  <2>2. PatchesTyped'
    BY <1>0, <1>2 DEF Leads!Render, PatchesTyped
  <2>3. QED BY <1>0, <1>2, <2>1, <2>2, DeskTyped DEF Leads!Render
<1>3. ASSUME NEW l \in Lead, NEW s \in Status, Leads!Pick(a, l, s)
      PROVE  Leads!TypeOK'
  <2>1. lSelect[a][l] \in Select
    BY <1>0, <1>3 DEF Leads!Pick, SelectsTyped
  <2>2. lSelect' = [lSelect EXCEPT ![a][l] =
            [value |-> s, previous |-> lSelect[a][l].value, busy |-> TRUE, error |-> FALSE]]
    BY <1>3 DEF Leads!Pick
  <2>3. [value |-> s, previous |-> lSelect[a][l].value, busy |-> TRUE, error |-> FALSE]
            \in Select
    BY <2>1 DEF Select
  <2>4. SelectsTyped'
    BY <1>0, <2>2, <2>3, NestedUpdate DEF SelectsTyped
  <2>5. PatchesTyped'
    <3>1. [to |-> s, state |-> "sent"] \in Patch
      BY DEF Patch
    <3>2. lPatch' = [lPatch EXCEPT ![a][l] = [to |-> s, state |-> "sent"]]
      BY <1>3 DEF Leads!Pick
    <3>3. QED BY <1>0, <3>1, <3>2, NestedUpdate DEF PatchesTyped
  <2>6. QED BY <1>0, <1>3, <2>4, <2>5, DeskTyped DEF Leads!Pick
<1>4. ASSUME NEW l \in Lead, Leads!ServerSets(a, l) \/ Leads!ServerRefuses(a, l)
      PROVE  Leads!TypeOK'
  <2>1. lPatch[a][l] \in Patch
    BY <1>0, <1>4 DEF Leads!ServerSets, Leads!ServerRefuses, PatchesTyped
  <2>2. PatchesTyped'
    <3>1. PICK x \in Patch : lPatch' = [lPatch EXCEPT ![a][l] = x]
      <4>1. /\ [lPatch[a][l] EXCEPT !.state = "ok"] \in Patch
            /\ [lPatch[a][l] EXCEPT !.state = "refused"] \in Patch
        BY <2>1 DEF Patch
      <4>2. \/ lPatch' = [lPatch EXCEPT ![a][l] = [lPatch[a][l] EXCEPT !.state = "ok"]]
            \/ lPatch' = [lPatch EXCEPT ![a][l] = [lPatch[a][l] EXCEPT !.state = "refused"]]
        BY <1>4 DEF Leads!ServerSets, Leads!ServerRefuses
      <4>3. QED BY <4>1, <4>2
    <3>2. QED BY <1>0, <3>1, NestedUpdate DEF PatchesTyped
  <2>3. /\ lStatus' \in [Lead -> Status] /\ lWas' \in [Lead -> SUBSET Status]
        /\ lAudit' \in [Lead -> SUBSET Status]
    <3>1. lPatch[a][l].to \in Status
      BY <2>1 DEF Patch
    <3>2. \/ \E whole \in BOOLEAN : Leads!SetLeadStatus(l, lPatch[a][l].to, whole)
          \/ UNCHANGED <<lStatus, lWas, lAudit>>
      BY <1>4 DEF Leads!ServerSets, Leads!ServerRefuses
    <3>3. QED BY <1>0, <3>1, <3>2 DEF Leads!SetLeadStatus
  <2>4. UNCHANGED <<Leads!publicVars, lFrom, lSession, lSelect, lPicks, lLate>>
    BY <1>4 DEF Leads!ServerSets, Leads!ServerRefuses
  <2>5. SelectsTyped'
    BY <1>0, <2>4 DEF SelectsTyped
  <2>6. QED BY <1>0, <2>2, <2>3, <2>4, <2>5, DeskTyped
<1>5. ASSUME NEW l \in Lead, Leads!PatchArrives(a, l) \/ Leads!PatchLost(a, l)
      PROVE  Leads!TypeOK'
  <2>1. lPatch[a][l] \in Patch /\ lSelect[a][l] \in Select
    <3>1. lPatch[a][l] # None
      BY <1>5 DEF Leads!PatchArrives, Leads!PatchLost
    <3>2. lSelect[a][l] # None
      BY <3>1 DEF LeadsInv, SelectsKnow
    <3>3. QED BY <1>0, <3>1, <3>2 DEF SelectsTyped, PatchesTyped
  <2>2. PatchesTyped'
    <3>1. lPatch' = [lPatch EXCEPT ![a][l] = None]
      BY <1>5 DEF Leads!PatchArrives, Leads!PatchLost
    <3>2. QED BY <1>0, <3>1, NestedUpdate DEF PatchesTyped
  <2>3. SelectsTyped'
    <3>1. Leads!Undone(lSelect[a][l]) \in Select
      BY <2>1 DEF Leads!Undone, Select
    <3>2. [Leads!Rendered(a) EXCEPT ![l].busy = FALSE] \in [Lead -> {None} \cup Select]
      <4>1. Leads!Rendered(a)[l] \in Select
        <5>1. lSelect[a][l] # None
          BY <1>5 DEF Leads!PatchArrives, Leads!PatchLost, LeadsInv, SelectsKnow
        <5>2. QED BY <2>1, <5>1, RenderedKnows
      <4>2. [Leads!Rendered(a)[l] EXCEPT !.busy = FALSE] \in Select
        BY <4>1 DEF Select
      <4>3. Leads!Rendered(a) \in [Lead -> {None} \cup Select]
        BY RenderedKnows
      <4>4. QED BY <4>2, <4>3
    <3>3. \/ lSelect' = [lSelect EXCEPT ![a] = [Leads!Rendered(a) EXCEPT ![l].busy = FALSE]]
          \/ lSelect' = [lSelect EXCEPT ![a][l] = Leads!Undone(lSelect[a][l])]
      BY <1>5 DEF Leads!PatchArrives, Leads!PatchLost
    <3>4. CASE lSelect' = [lSelect EXCEPT ![a] = [Leads!Rendered(a) EXCEPT ![l].busy = FALSE]]
      BY <1>0, <3>2, <3>4 DEF SelectsTyped
    <3>5. CASE lSelect' = [lSelect EXCEPT ![a][l] = Leads!Undone(lSelect[a][l])]
      BY <1>0, <3>1, <3>5, NestedUpdate DEF SelectsTyped
    <3>6. QED BY <3>3, <3>4, <3>5
  <2>4. lLate' = lLate \/ lLate' = lLate \cup {<<l, lPatch[a][l].to>>}
    BY <1>5 DEF Leads!PatchArrives, Leads!PatchLost
  <2>5. lLate' \subseteq Visitor \cup (Lead \X Status)
    <3>1. <<l, lPatch[a][l].to>> \in Lead \X Status
      BY <2>1 DEF Patch
    <3>2. QED BY <1>0, <2>4, <3>1
  <2>6. UNCHANGED <<Leads!publicVars, lFrom, lStatus, lSession, lAudit, lWas, lPicks>>
    BY <1>5 DEF Leads!PatchArrives, Leads!PatchLost
  <2>7. QED BY <1>0, <2>2, <2>3, <2>5, <2>6, DeskTyped
<1>6. QED BY <1>1, <1>2, <1>3, <1>4, <1>5

(* A select and a request that say no more than before, of a lead that has *)
(* had more since.                                                         *)
LEMMA DeskKnows ==
    ASSUME LeadsInv,
           \A l \in Lead : /\ lWas[l] \subseteq lWas'[l] /\ lStatus'[l] \in lWas'[l]
                           /\ lAudit'[l] \subseteq lWas'[l],
           \A b \in Admin, l \in Lead :
               \/ lSelect'[b][l] = lSelect[b][l] /\ lPatch'[b][l] = lPatch[b][l]
               \/ Knows(lSelect'[b][l], lPatch'[b][l], lWas'[l])
    PROVE  SelectsKnow' /\ Leads!ShownWasHad'
<1>1. \A b \in Admin, l \in Lead : Knows(lSelect[b][l], lPatch[b][l], lWas[l])
  BY SelectsAndMarks DEF LeadsInv
<1>2. ASSUME NEW b \in Admin, NEW l \in Lead
      PROVE  Knows(lSelect'[b][l], lPatch'[b][l], lWas'[l])
  BY <1>1 DEF Knows
<1>3. QED BY <1>2, SelectsAndMarks

LEMMA DeskSteps ==
    ASSUME LeadsInv, NEW a \in Admin,
           \/ Leads!SignIn(a) \/ Leads!SessionExpires(a) \/ Leads!SignOut(a) \/ Leads!Render(a)
           \/ \E l \in Lead :
                  \/ \E s \in Status : Leads!Pick(a, l, s)
                  \/ Leads!ServerSets(a, l) \/ Leads!ServerRefuses(a, l)
                  \/ Leads!PatchArrives(a, l) \/ Leads!PatchLost(a, l)
    PROVE  SelectsKnow' /\ Leads!ShownWasHad'
<1>0. /\ \A l \in Lead : lStatus[l] \in lWas[l] /\ lAudit[l] \subseteq lWas[l]
      /\ \A b \in Admin, l \in Lead : Knows(lSelect[b][l], lPatch[b][l], lWas[l])
      /\ SelectsTyped /\ PatchesTyped
  BY SelectsAndMarks, DeskTyped DEF LeadsInv
<1>a. ASSUME UNCHANGED <<lStatus, lWas, lAudit>>,
             \A b \in Admin, l \in Lead :
                 \/ lSelect'[b][l] = lSelect[b][l] /\ lPatch'[b][l] = lPatch[b][l]
                 \/ Knows(lSelect'[b][l], lPatch'[b][l], lWas[l])
      PROVE  SelectsKnow' /\ Leads!ShownWasHad'
  BY <1>0, <1>a, DeskKnows
<1>1. CASE Leads!SignIn(a) \/ Leads!SessionExpires(a) \/ Leads!SignOut(a)
  <2>1. /\ UNCHANGED <<lStatus, lWas, lAudit>>
        /\ \/ UNCHANGED <<lSelect, lPatch>>
           \/ /\ lSelect' = [lSelect EXCEPT ![a] = [l \in Lead |-> None]]
              /\ lPatch' = [lPatch EXCEPT ![a] = [l \in Lead |-> None]]
    BY <1>1 DEF Leads!SignIn, Leads!SessionExpires, Leads!SignOut
  <2>2. \A b \in Admin, l \in Lead :
            \/ lSelect'[b][l] = lSelect[b][l] /\ lPatch'[b][l] = lPatch[b][l]
            \/ lSelect'[b][l] = None /\ lPatch'[b][l] = None
    BY <1>0, <2>1 DEF SelectsTyped, PatchesTyped
  <2>3. QED BY <2>1, <2>2, <1>a DEF Knows
<1>2. CASE Leads!Render(a)
  <2>1. /\ UNCHANGED <<lStatus, lWas, lAudit, lPatch>>
        /\ lSelect' = [lSelect EXCEPT ![a] = Leads!Rendered(a)]
    BY <1>2 DEF Leads!Render
  <2>2. \A b \in Admin, l \in Lead :
            lSelect'[b][l] = IF b = a THEN Leads!Rendered(a)[l] ELSE lSelect[b][l]
    BY <1>0, <2>1 DEF SelectsTyped
  <2>3. QED BY <2>1, <2>2, <1>a, RenderedKnows
<1>3. ASSUME NEW m \in Lead, NEW s \in Status, Leads!Pick(a, m, s)
      PROVE  SelectsKnow' /\ Leads!ShownWasHad'
  <2> DEFINE x == [value |-> s, previous |-> lSelect[a][m].value, busy |-> TRUE,
                   error |-> FALSE]
             q == [to |-> s, state |-> "sent"]
  <2>1. /\ UNCHANGED <<lStatus, lWas, lAudit>>
        /\ lSelect[a][m] # None /\ ~lSelect[a][m].busy
        /\ lSelect' = [lSelect EXCEPT ![a][m] = x]
        /\ lPatch' = [lPatch EXCEPT ![a][m] = q]
    BY <1>3 DEF Leads!Pick
  <2>2. lSelect[a][m].value \in lWas[m]
    BY <1>0, <2>1 DEF Knows
  <2>3. Knows(x, q, lWas[m]) \/ x = None
    BY <2>2 DEF Knows
  <2>4. x # None
    <3>1. lSelect[a][m].value \in Status
      BY <1>0, <2>1 DEF SelectsTyped, Select
    <3>2. x \in Select
      BY <3>1 DEF Select
    <3>3. QED BY <3>2, BackOfficeAssumption DEF Select
  <2>5. \A b \in Admin, l \in Lead :
            IF b = a /\ l = m THEN lSelect'[b][l] = x /\ lPatch'[b][l] = q
            ELSE lSelect'[b][l] = lSelect[b][l] /\ lPatch'[b][l] = lPatch[b][l]
    BY <1>0, <2>1 DEF SelectsTyped, PatchesTyped
  <2>6. QED BY <2>1, <2>3, <2>4, <2>5, <1>a
<1>4. ASSUME NEW m \in Lead, Leads!ServerRefuses(a, m)
      PROVE  SelectsKnow' /\ Leads!ShownWasHad'
  <2>1. /\ UNCHANGED <<lStatus, lWas, lAudit, lSelect>>
        /\ lPatch[a][m] # None
        /\ lPatch' = [lPatch EXCEPT ![a][m] = [lPatch[a][m] EXCEPT !.state = "refused"]]
    BY <1>4 DEF Leads!ServerRefuses
  <2>2. lPatch[a][m] \in Patch
    BY <1>0, <2>1 DEF PatchesTyped
  <2>3. Knows(lSelect[a][m], [lPatch[a][m] EXCEPT !.state = "refused"], lWas[m])
    BY <1>0, <2>1, <2>2 DEF Knows, Patch
  <2>4. \A b \in Admin, l \in Lead :
            lPatch'[b][l] = IF b = a /\ l = m THEN [lPatch[a][m] EXCEPT !.state = "refused"]
                            ELSE lPatch[b][l]
    BY <1>0, <2>1 DEF PatchesTyped
  <2>5. QED BY <2>1, <2>3, <2>4, <1>a
<1>5. ASSUME NEW m \in Lead, Leads!ServerSets(a, m)
      PROVE  SelectsKnow' /\ Leads!ShownWasHad'
  <2>1. PICK whole \in BOOLEAN : Leads!SetLeadStatus(m, lPatch[a][m].to, whole)
    BY <1>5 DEF Leads!ServerSets
  <2>2. /\ lSelect' = lSelect /\ lPatch[a][m] # None
        /\ lPatch' = [lPatch EXCEPT ![a][m] = [lPatch[a][m] EXCEPT !.state = "ok"]]
    BY <1>5 DEF Leads!ServerSets
  <2>3. lPatch[a][m] \in Patch
    BY <1>0, <2>2 DEF PatchesTyped
  <2>4. \A l \in Lead : /\ lWas[l] \subseteq lWas'[l] /\ lStatus'[l] \in lWas'[l]
                        /\ lAudit'[l] \subseteq lWas'[l]
    BY <1>0, <2>1 DEF Leads!SetLeadStatus, LeadsInv, Leads!TypeOK
  <2>5. lPatch[a][m].to \in lWas'[m]
    BY <2>1 DEF Leads!SetLeadStatus, LeadsInv, Leads!TypeOK
  <2>6. Knows(lSelect[a][m], [lPatch[a][m] EXCEPT !.state = "ok"], lWas'[m])
    BY <1>0, <2>2, <2>3, <2>4, <2>5 DEF Knows, Patch
  <2>7. \A b \in Admin, l \in Lead :
            lPatch'[b][l] = IF b = a /\ l = m THEN [lPatch[a][m] EXCEPT !.state = "ok"]
                            ELSE lPatch[b][l]
    BY <1>0, <2>2 DEF PatchesTyped
  <2>8. QED BY <2>2, <2>4, <2>6, <2>7, DeskKnows
<1>6. ASSUME NEW m \in Lead, Leads!PatchArrives(a, m) \/ Leads!PatchLost(a, m)
      PROVE  SelectsKnow' /\ Leads!ShownWasHad'
  <2>1. /\ UNCHANGED <<lStatus, lWas, lAudit>>
        /\ lPatch[a][m] # None
        /\ lPatch' = [lPatch EXCEPT ![a][m] = None]
    BY <1>6 DEF Leads!PatchArrives, Leads!PatchLost
  <2>2. lSelect[a][m] \in Select /\ lSelect[a][m] # None
    BY <1>0, <2>1 DEF SelectsTyped, Knows
  <2>3. \A b \in Admin, l \in Lead :
            lPatch'[b][l] = IF b = a /\ l = m THEN None ELSE lPatch[b][l]
    BY <1>0, <2>1 DEF PatchesTyped
  <2>4. CASE lSelect' = [lSelect EXCEPT ![a][m] = Leads!Undone(lSelect[a][m])]
    <3>1. Knows(Leads!Undone(lSelect[a][m]), None, lWas[m])
      BY <1>0, <2>2 DEF Knows, Leads!Undone, Select
    <3>2. \A b \in Admin, l \in Lead :
              lSelect'[b][l] = IF b = a /\ l = m THEN Leads!Undone(lSelect[a][m])
                               ELSE lSelect[b][l]
      BY <1>0, <2>4 DEF SelectsTyped
    <3>3. QED BY <2>1, <2>3, <3>1, <3>2, <1>a
  <2>5. CASE /\ lPatch[a][m].state = "ok"
             /\ lSelect' = [lSelect EXCEPT ![a] = [Leads!Rendered(a) EXCEPT ![m].busy = FALSE]]
    <3>1. Leads!Rendered(a)[m] = lSelect[a][m]
      BY <2>2, RenderedKnows
    <3>2. Knows([lSelect[a][m] EXCEPT !.busy = FALSE], None, lWas[m])
      BY <1>0, <2>1, <2>2, <2>5 DEF Knows, Select
    <3>3. \A l \in Lead :
              [Leads!Rendered(a) EXCEPT ![m].busy = FALSE][l] =
                  IF l = m THEN [lSelect[a][m] EXCEPT !.busy = FALSE] ELSE Leads!Rendered(a)[l]
      BY <3>1, RenderedKnows
    <3>4. \A b \in Admin, l \in Lead :
              lSelect'[b][l] = IF b # a THEN lSelect[b][l]
                               ELSE IF l = m THEN [lSelect[a][m] EXCEPT !.busy = FALSE]
                               ELSE Leads!Rendered(a)[l]
      BY <1>0, <2>5, <3>3 DEF SelectsTyped
    <3>5. \A l \in Lead : Knows(Leads!Rendered(a)[l], lPatch[a][l], lWas[l])
      BY RenderedKnows
    <3>6. ASSUME NEW b \in Admin, NEW l \in Lead
          PROVE  \/ lSelect'[b][l] = lSelect[b][l] /\ lPatch'[b][l] = lPatch[b][l]
                 \/ Knows(lSelect'[b][l], lPatch'[b][l], lWas[l])
      <4>1. CASE b # a
        BY <2>3, <3>4, <4>1
      <4>2. CASE b = a /\ l = m
        BY <2>3, <3>2, <3>4, <4>2
      <4>3. CASE b = a /\ l # m
        BY <2>3, <3>4, <3>5, <4>3
      <4>4. QED BY <4>1, <4>2, <4>3
    <3>7. QED BY <2>1, <3>6, <1>a
  <2>6. QED BY <1>6, <2>4, <2>5 DEF Leads!PatchArrives, Leads!PatchLost
<1>7. QED BY <1>1, <1>2, <1>3, <1>4, <1>5, <1>6

LEMMA LateSteps ==
    ASSUME LeadsInv, NEW m \in Lead, NEW s \in Status, Leads!LatePatch(m, s)
    PROVE  LeadsInv'
<1>1. PICK whole \in BOOLEAN : Leads!SetLeadStatus(m, s, whole)
  BY DEF Leads!LatePatch
<1>2. /\ UNCHANGED <<Leads!publicVars, Leads!deskVars, lFrom>>
      /\ lLate' = lLate \ {<<m, s>>}
  BY DEF Leads!LatePatch
<1>3. \A l \in Lead : /\ lWas[l] \subseteq lWas'[l] /\ lStatus'[l] \in lWas'[l]
                      /\ lAudit'[l] \subseteq lWas'[l]
  BY <1>1 DEF Leads!SetLeadStatus, LeadsInv, Leads!TypeOK, SelectsKnow, Leads!ShownWasHad
<1>4. SelectsKnow' /\ Leads!ShownWasHad'
  BY <1>2, <1>3, DeskKnows DEF Leads!deskVars
<1>5. Leads!TypeOK'
  BY <1>1, <1>2 DEF LeadsInv, Leads!TypeOK, Leads!publicVars, Leads!deskVars, Leads!SetLeadStatus
<1>6. AnsweredIsStored' /\ Leads!ThankedIsStored'
  BY <1>2 DEF LeadsInv, AnsweredIsStored, Leads!ThankedIsStored, Stored, Leads!publicVars
<1>7. QED BY <1>4, <1>5, <1>6 DEF LeadsInv

LEMMA LeadsNext == LeadsInv /\ Leads!Next => LeadsInv'
<1> SUFFICES ASSUME LeadsInv, Leads!Next PROVE LeadsInv'
  OBVIOUS
<1>1. ASSUME NEW a \in Admin,
             \/ Leads!SignIn(a) \/ Leads!SessionExpires(a) \/ Leads!SignOut(a) \/ Leads!Render(a)
             \/ \E l \in Lead :
                    \/ \E s \in Status : Leads!Pick(a, l, s)
                    \/ Leads!ServerSets(a, l) \/ Leads!ServerRefuses(a, l)
                    \/ Leads!PatchArrives(a, l) \/ Leads!PatchLost(a, l)
      PROVE  LeadsInv'
  <2>1. UNCHANGED <<Leads!publicVars, lFrom>>
    BY <1>1 DEF Leads!SignIn, Leads!SessionExpires, Leads!SignOut, Leads!Render, Leads!Pick,
                Leads!ServerSets, Leads!ServerRefuses, Leads!PatchArrives, Leads!PatchLost
  <2>2. AnsweredIsStored' /\ Leads!ThankedIsStored'
    BY <2>1 DEF LeadsInv, AnsweredIsStored, Leads!ThankedIsStored, Stored, Leads!publicVars
  <2>3. QED BY <1>1, <2>2, DeskTypes, DeskSteps DEF LeadsInv
<1>2. QED BY <1>1, VisitorSteps, LateSteps DEF Leads!Next

-----------------------------------------------------------------------------
(* Settings page: it asks once for what is stored, and a save that is      *)
(* clean carries what the page was told.                                   *)
AskedOnce ==
    \A f \in Flight : sFlight[f].what = "get" =>
        /\ sLoaded = None
        /\ \A g \in Flight : sFlight[g].what = "get" => f = g

ShowsLoaded ==
    sLoaded # None /\ ~sTyped =>
        \A x \in Settings!Field : sLoaded[x] # Empty => sInfo[x] = sLoaded[x]

CleanCarries ==
    \A f \in Flight : sFlight[f].what = "save" /\ sFlight[f].clean =>
        /\ sLoaded # None
        /\ \A x \in Settings!Field : sLoaded[x] # Empty => sFlight[f].info[x] = sLoaded[x]

SettingsInv == Settings!TypeOK /\ AskedOnce /\ ShowsLoaded /\ CleanCarries

(* What is known of a request by its name.                                 *)
LEMMA FlightStates ==
    ASSUME Settings!TypeOK, NEW f \in Flight
    PROVE  /\ sFlight[f].what = "get" => sFlight[f] \in Settings!Get
           /\ sFlight[f].what = "save" => sFlight[f] \in Settings!Save
           /\ sFlight[f] = Settings!Idle \/ sFlight[f].what \in {"get", "save"}
  BY DEF Settings!TypeOK, Settings!Idle, Settings!Get, Settings!Save

LEMMA WithServerTypes ==
    ASSUME NEW x \in Settings!Info, NEW y \in Settings!Info
    PROVE  /\ Settings!WithServer(x, y) \in Settings!Info
           /\ \A z \in Settings!Field :
                  y[z] # Empty => Settings!WithServer(x, y)[z] = y[z]
  BY DEF Settings!WithServer, Settings!Info, Settings!Field

LEMMA SettingsInit == Settings!Init => SettingsInv
<1> SUFFICES ASSUME Settings!Init PROVE SettingsInv
  OBVIOUS
<1> USE BackOfficeAssumption
<1>1. PICK f \in Flight :
          sFlight = [g \in Flight |-> IF g = f THEN [what |-> "get", answer |-> None]
                                      ELSE Settings!Idle]
  BY DEF Settings!Init
<1>2. [what |-> "get", answer |-> None] \in Settings!Get
  BY DEF Settings!Get
<1>3. Settings!TypeOK
  <2>1. sFlight \in [Flight -> {Settings!Idle} \cup Settings!Get \cup Settings!Save]
    BY <1>1, <1>2
  <2>2. sDraft \in Settings!Info
    BY DEF Settings!Init, Settings!Info
  <2>3. 0 \in 0 .. MaxSaves
    OBVIOUS
  <2> HIDE BackOfficeAssumption
  <2>4. QED BY <2>1, <2>2, <2>3 DEF Settings!Init, Settings!TypeOK
<1>4. AskedOnce /\ ShowsLoaded /\ CleanCarries
  BY <1>1 DEF Settings!Init, AskedOnce, ShowsLoaded, CleanCarries, Settings!Idle
<1>5. QED BY <1>3, <1>4 DEF SettingsInv

(* One request after the other.                                            *)
LEMMA FlightUpdate ==
    ASSUME Settings!TypeOK, NEW f \in Flight,
           NEW x \in {Settings!Idle} \cup Settings!Get \cup Settings!Save,
           sFlight' = [sFlight EXCEPT ![f] = x]
    PROVE  /\ sFlight' \in [Flight -> {Settings!Idle} \cup Settings!Get \cup Settings!Save]
           /\ sFlight'[f] = x
           /\ \A g \in Flight : g # f => sFlight'[g] = sFlight[g]
  BY DEF Settings!TypeOK

LEMMA GetSteps ==
    ASSUME SettingsInv, NEW f \in Flight,
           Settings!ServerReads(f) \/ Settings!SettingsArrive(f) \/ Settings!SettingsFail(f)
    PROVE  SettingsInv'
<1> USE DEF SettingsInv
<1>1. sFlight[f] \in Settings!Get
  BY FlightStates DEF Settings!ServerReads, Settings!SettingsArrive, Settings!SettingsFail
<1>2. CASE Settings!ServerReads(f)
  <2>1. sRow \in Settings!Info
    BY DEF Settings!TypeOK, Settings!Info
  <2>2. [sFlight[f] EXCEPT !.answer = sRow] \in Settings!Get
    BY <1>1, <2>1 DEF Settings!Get
  <2>3. sFlight' = [sFlight EXCEPT ![f] = [sFlight[f] EXCEPT !.answer = sRow]]
    BY <1>2 DEF Settings!ServerReads
  <2>4. UNCHANGED <<sRow, sShared, sDraft, sMine, sInfo, sLoaded, sTyped, sNotice, sSaves>>
    BY <1>2 DEF Settings!ServerReads
  <2>5. /\ sFlight' \in [Flight -> {Settings!Idle} \cup Settings!Get \cup Settings!Save]
        /\ sFlight'[f] = [sFlight[f] EXCEPT !.answer = sRow]
        /\ \A g \in Flight : g # f => sFlight'[g] = sFlight[g]
    BY <2>2, <2>3, FlightUpdate
  <2>6. Settings!TypeOK'
    BY <2>4, <2>5 DEF Settings!TypeOK
  <2>7. \A g \in Flight : sFlight'[g].what = sFlight[g].what
    BY <1>1, <2>5 DEF Settings!Get
  <2>8. CleanCarries'
    BY <1>1, <2>4, <2>5, <2>7 DEF CleanCarries, Settings!Get
  <2>9. AskedOnce' /\ ShowsLoaded'
    BY <2>4, <2>7 DEF AskedOnce, ShowsLoaded
  <2>10. QED BY <2>6, <2>8, <2>9
<1>3. CASE Settings!SettingsArrive(f) \/ Settings!SettingsFail(f)
  <2>1. sFlight' = [sFlight EXCEPT ![f] = Settings!Idle]
    BY <1>3 DEF Settings!SettingsArrive, Settings!SettingsFail
  <2>2. /\ sFlight' \in [Flight -> {Settings!Idle} \cup Settings!Get \cup Settings!Save]
        /\ sFlight'[f] = Settings!Idle
        /\ \A g \in Flight : g # f => sFlight'[g] = sFlight[g]
    BY <2>1, FlightUpdate
  <2>3. sLoaded = None /\ \A g \in Flight : sFlight'[g].what # "get"
    BY <1>1, <2>2 DEF AskedOnce, Settings!Get, Settings!Idle
  <2>4. CASE Settings!SettingsFail(f)
    <3>1. UNCHANGED <<sRow, sShared, sDraft, sMine, sInfo, sLoaded, sTyped, sNotice, sSaves>>
      BY <2>4 DEF Settings!SettingsFail
    <3>2. Settings!TypeOK'
      BY <2>2, <3>1 DEF Settings!TypeOK
    <3>3. AskedOnce' /\ ShowsLoaded' /\ CleanCarries'
      BY <2>2, <2>3, <3>1 DEF AskedOnce, ShowsLoaded, CleanCarries, Settings!Idle
    <3>4. QED BY <3>2, <3>3
  <2>5. CASE Settings!SettingsArrive(f)
    <3>1. /\ sInfo' = Settings!WithServer(sInfo, sFlight[f].answer)
          /\ sLoaded' = sFlight[f].answer
          /\ sTyped' = FALSE
          /\ sFlight[f].answer # None
          /\ UNCHANGED <<sRow, sShared, sDraft, sMine, sNotice, sSaves>>
      BY <2>5 DEF Settings!SettingsArrive
    <3>2. sFlight[f].answer \in Settings!Info /\ sInfo \in Settings!Info
      BY <1>1, <3>1 DEF Settings!Get, Settings!TypeOK
    <3>3. Settings!TypeOK'
      BY <2>2, <3>1, <3>2, WithServerTypes DEF Settings!TypeOK
    <3>4. AskedOnce' /\ CleanCarries'
      BY <2>2, <2>3 DEF AskedOnce, CleanCarries, Settings!Idle
    <3>5. ShowsLoaded'
      BY <3>1, <3>2, WithServerTypes DEF ShowsLoaded
    <3>6. QED BY <3>3, <3>4, <3>5
  <2>6. QED BY <1>3, <2>4, <2>5
<1>4. QED BY <1>2, <1>3

LEMMA TypeSteps ==
    ASSUME SettingsInv, NEW x \in Settings!Field, NEW v \in Text, Settings!Type(x, v)
    PROVE  SettingsInv'
<1> USE DEF SettingsInv
<1>1. /\ sInfo' = [sInfo EXCEPT ![x] = v] /\ sTyped' = TRUE
      /\ x = "address" => v # Bad
      /\ UNCHANGED <<sRow, sShared, sDraft, sMine, sLoaded, sNotice, sFlight, sSaves>>
  BY DEF Settings!Type
<1>2. sInfo' \in Settings!Info
  BY <1>1 DEF Settings!TypeOK, Settings!Info, Settings!Field
<1>3. Settings!TypeOK'
  BY <1>1, <1>2 DEF Settings!TypeOK
<1>4. AskedOnce' /\ ShowsLoaded' /\ CleanCarries'
  BY <1>1 DEF AskedOnce, ShowsLoaded, CleanCarries
<1>5. QED BY <1>3, <1>4

LEMMA OtherDeviceSteps ==
    ASSUME SettingsInv, Settings!OtherDevice
    PROVE  SettingsInv'
<1> USE DEF SettingsInv
<1>1. /\ sSaves < MaxSaves /\ sSaves' = sSaves + 1
      /\ sShared' \in Token \cup {None}
      /\ UNCHANGED <<sDraft, sMine, sInfo, sLoaded, sTyped, sNotice, sFlight>>
  BY DEF Settings!OtherDevice
<1>2. sRow' \in [email : Text \ {Bad}, address : Text \ {Bad}]
  <2>1. PICK x \in Settings!Field, v \in Text \ {Bad} : sRow' = [sRow EXCEPT ![x] = v]
    BY DEF Settings!OtherDevice
  <2>2. QED BY <2>1 DEF Settings!TypeOK, Settings!Field
<1>3. sSaves' \in 0 .. MaxSaves
  BY <1>1, BackOfficeAssumption DEF Settings!TypeOK
<1>4. Settings!TypeOK'
  BY <1>1, <1>2, <1>3 DEF Settings!TypeOK
<1>5. AskedOnce' /\ ShowsLoaded' /\ CleanCarries'
  BY <1>1 DEF AskedOnce, ShowsLoaded, CleanCarries
<1>6. QED BY <1>4, <1>5

LEMMA PressSteps ==
    ASSUME SettingsInv, NEW f \in Flight, Settings!PressSave(f)
    PROVE  SettingsInv'
<1> USE DEF SettingsInv
<1> DEFINE q == [what |-> "save", info |-> sInfo, token |-> sMine,
                 clean |-> sLoaded # None /\ ~sTyped, state |-> "sent", gone |-> FALSE]
<1>1. /\ sFlight' = [sFlight EXCEPT ![f] = q]
      /\ sDraft' = sInfo
      /\ sSaves < MaxSaves /\ sSaves' = sSaves + 1
      /\ UNCHANGED <<sRow, sShared, sMine, sInfo, sLoaded, sTyped, sNotice>>
  BY DEF Settings!PressSave
<1>2. q \in Settings!Save
  BY DEF Settings!TypeOK, Settings!Save
<1>3. /\ sFlight' \in [Flight -> {Settings!Idle} \cup Settings!Get \cup Settings!Save]
      /\ sFlight'[f] = q
      /\ \A g \in Flight : g # f => sFlight'[g] = sFlight[g]
  BY <1>1, <1>2, FlightUpdate
<1>4. sSaves' \in 0 .. MaxSaves
  BY <1>1, BackOfficeAssumption DEF Settings!TypeOK
<1>5. Settings!TypeOK'
  BY <1>1, <1>3, <1>4 DEF Settings!TypeOK
<1>6. AskedOnce' /\ ShowsLoaded'
  BY <1>1, <1>3 DEF AskedOnce, ShowsLoaded
<1>7. CleanCarries'
  BY <1>1, <1>3 DEF CleanCarries, ShowsLoaded
<1>8. QED BY <1>5, <1>6, <1>7

LEMMA SaveSteps ==
    ASSUME SettingsInv, NEW f \in Flight,
           \/ Settings!SavesToken(f) \/ Settings!SavesEmail(f) \/ Settings!RefusesEmail(f)
           \/ Settings!SavesAddress(f) \/ Settings!SaveArrives(f) \/ Settings!SaveFails(f)
    PROVE  SettingsInv'
<1> USE DEF SettingsInv
<1> DEFINE q == sFlight[f]
<1>1. q \in Settings!Save
  BY FlightStates DEF Settings!SavesToken, Settings!SavesEmail, Settings!RefusesEmail,
     Settings!SavesAddress, Settings!SaveArrives, Settings!SaveFails
<1>2. PICK x \in {Settings!Idle} \cup Settings!Save :
          /\ sFlight' = [sFlight EXCEPT ![f] = x]
          /\ x # Settings!Idle => x.info = q.info /\ x.clean = q.clean
  <2>1. CASE sFlight' = [sFlight EXCEPT ![f] = Settings!Idle]
    BY <2>1
  <2>2. ASSUME NEW y, y \in Settings!Save, y.info = q.info, y.clean = q.clean,
               sFlight' = [sFlight EXCEPT ![f] = y]
        PROVE  \E x \in {Settings!Idle} \cup Settings!Save :
                   /\ sFlight' = [sFlight EXCEPT ![f] = x]
                   /\ x # Settings!Idle => x.info = q.info /\ x.clean = q.clean
    BY <2>2
  <2>3. CASE \E state \in {"token", "email", "ok", "refused"} :
                 sFlight' = [sFlight EXCEPT ![f] = [q EXCEPT !.state = state]]
    <3>1. PICK state \in {"token", "email", "ok", "refused"} :
                 sFlight' = [sFlight EXCEPT ![f] = [q EXCEPT !.state = state]]
      BY <2>3
    <3>2. /\ [q EXCEPT !.state = state] \in Settings!Save
          /\ [q EXCEPT !.state = state].info = q.info
          /\ [q EXCEPT !.state = state].clean = q.clean
      BY <1>1 DEF Settings!Save
    <3>3. QED BY <2>2, <3>1, <3>2
  <2>4. CASE sFlight' = [sFlight EXCEPT ![f] = [q EXCEPT !.gone = TRUE]]
    <3>1. /\ [q EXCEPT !.gone = TRUE] \in Settings!Save
          /\ [q EXCEPT !.gone = TRUE].info = q.info
          /\ [q EXCEPT !.gone = TRUE].clean = q.clean
      BY <1>1 DEF Settings!Save
    <3>2. QED BY <2>2, <2>4, <3>1
  <2>5. \/ sFlight' = [sFlight EXCEPT ![f] = Settings!Idle]
        \/ \E state \in {"token", "email", "ok", "refused"} :
               sFlight' = [sFlight EXCEPT ![f] = [q EXCEPT !.state = state]]
        \/ sFlight' = [sFlight EXCEPT ![f] = [q EXCEPT !.gone = TRUE]]
    <3>1. CASE Settings!SaveArrives(f) \/ Settings!SaveFails(f)
      BY <3>1 DEF Settings!SaveArrives, Settings!SaveFails
    <3>2. CASE Settings!SavesToken(f) \/ Settings!SavesEmail(f)
      BY <3>2 DEF Settings!SavesToken, Settings!SavesEmail
    <3>3. CASE Settings!RefusesEmail(f) \/ Settings!SavesAddress(f)
      BY <3>3 DEF Settings!RefusesEmail, Settings!SavesAddress, Settings!Responds
    <3>4. QED BY <3>1, <3>2, <3>3
  <2>6. QED BY <2>1, <2>3, <2>4, <2>5
<1>3. /\ sFlight' \in [Flight -> {Settings!Idle} \cup Settings!Get \cup Settings!Save]
      /\ sFlight'[f] = x
      /\ \A g \in Flight : g # f => sFlight'[g] = sFlight[g]
  BY <1>2, FlightUpdate
<1>4. /\ UNCHANGED <<sDraft, sMine, sInfo, sLoaded, sTyped, sSaves>>
      /\ sNotice' \in {sNotice, "saved", "failed"}
      /\ sShared' \in {sShared, q.token}
  BY DEF Settings!SavesToken, Settings!SavesEmail, Settings!RefusesEmail,
     Settings!SavesAddress, Settings!SaveArrives, Settings!SaveFails
<1>5. sRow' \in [email : Text \ {Bad}, address : Text \ {Bad}]
  <2>1. /\ q.info.email \in Text /\ q.info.address \in Text \ {Bad}
        /\ sRow \in [email : Text \ {Bad}, address : Text \ {Bad}]
    BY <1>1 DEF Settings!Save, Settings!Info, Settings!TypeOK
  <2>2. \/ sRow' = sRow
        \/ q.info.email # Bad /\ sRow' = [sRow EXCEPT !.email = q.info.email]
        \/ sRow' = [sRow EXCEPT !.address = q.info.address]
    BY DEF Settings!SavesToken, Settings!SavesEmail, Settings!RefusesEmail,
       Settings!SavesAddress, Settings!SaveArrives, Settings!SaveFails
  <2>3. QED BY <2>1, <2>2
<1>6. q.token \in Token \cup {None}
  BY <1>1 DEF Settings!Save
<1>7. Settings!TypeOK'
  BY <1>3, <1>4, <1>5, <1>6 DEF Settings!TypeOK
<1>8. x = Settings!Idle \/ x.what = "save"
  BY DEF Settings!Save
<1>9. AskedOnce' /\ ShowsLoaded'
  BY <1>3, <1>4, <1>8 DEF AskedOnce, ShowsLoaded, Settings!Idle
<1>10. CleanCarries'
  BY <1>1, <1>2, <1>3, <1>4, <1>8 DEF CleanCarries, Settings!Idle, Settings!Save
<1>11. QED BY <1>7, <1>9, <1>10

LEMMA SettingsNext == SettingsInv /\ Settings!Next => SettingsInv'
  BY GetSteps, TypeSteps, OtherDeviceSteps, PressSteps, SaveSteps DEF Settings!Next

(* A clean save writes what the page was told: the step that writes the    *)
(* e-mail, or the address, is one of the request itself.                   *)
LEMMA SettingsKeep == SettingsInv /\ Settings!Next => Settings!KeepsWhatItShows
<1> SUFFICES ASSUME SettingsInv, Settings!Next, NEW f \in Flight, NEW x \in Settings!Field,
                    sFlight[f].what = "save", sFlight[f].clean, sFlight'[f] # sFlight[f],
                    sLoaded[x] # Empty, sRow[x] = sLoaded[x]
             PROVE  sRow'[x] = sLoaded[x]
  BY DEF Settings!KeepsWhatItShows
<1>1. sFlight[f].info[x] = sLoaded[x]
  BY DEF SettingsInv, CleanCarries
<1>2. CASE sRow' = sRow
  BY <1>2
<1>3. ASSUME NEW g \in Flight, Settings!SavesEmail(g) \/ Settings!SavesAddress(g)
      PROVE  sRow'[x] = sLoaded[x]
  <2>1. g = f
    BY <1>3 DEF Settings!SavesEmail, Settings!SavesAddress, Settings!Responds, SettingsInv,
       Settings!TypeOK
  <2>2. \/ sRow' = [sRow EXCEPT !.email = sFlight[f].info["email"]]
        \/ sRow' = [sRow EXCEPT !.address = sFlight[f].info["address"]]
    BY <1>3, <2>1 DEF Settings!SavesEmail, Settings!SavesAddress
  <2>3. QED BY <1>1, <2>2 DEF SettingsInv, Settings!TypeOK, Settings!Field
<1>4. CASE Settings!OtherDevice
  BY <1>4 DEF Settings!OtherDevice
<1>5. QED
  BY <1>2, <1>3, <1>4
     DEF Settings!Next, Settings!ServerReads, Settings!SettingsArrive,
         Settings!SettingsFail, Settings!PressSave, Settings!SavesToken,
         Settings!RefusesEmail, Settings!SaveArrives, Settings!SaveFails, Settings!Type

-----------------------------------------------------------------------------
(* Operator's list of calls: the arithmetic of its pages.                  *)
LEMMA Division ==
    ASSUME NEW n \in Nat, NEW k \in Nat \ {0}
    PROVE  /\ n \div k \in Nat
           /\ (n \div k) * k <= n
           /\ n < (n \div k) * k + k
  OBVIOUS

LEMMA Multiples ==
    ASSUME NEW p \in Nat, NEW q \in Nat, NEW k \in Nat
    PROVE  /\ p * k \in Nat
           /\ p <= q => p * k <= q * k
           /\ (p + 1) * k = p * k + k
           /\ (p - 1) * k = p * k - k
  OBVIOUS

(* Enough pages for everything that matches, and no page beyond.           *)
LEMMA PageCountFits ==
    ASSUME NEW n \in Nat
    PROVE  /\ Walk!PageCount(n) \in Nat \ {0}
           /\ n <= Walk!PageCount(n) * PageSize
           /\ n # 0 => Walk!Offset(Walk!PageCount(n)) < n /\ Walk!PageCount(n) <= n
<1> DEFINE q == (n + PageSize - 1) \div PageSize
<1>0. PageSize \in Nat \ {0}
  BY BackOfficeAssumption
<1>1. CASE n = 0
  BY <1>0, <1>1 DEF Walk!PageCount
<1>2. CASE n # 0
  <2>1. q \in Nat /\ q * PageSize <= n + PageSize - 1 /\ n + PageSize - 1 < q * PageSize + PageSize
    BY <1>0, Division
  <2>2. Walk!PageCount(n) = q
    BY <1>2 DEF Walk!PageCount
  <2> HIDE DEF q
  <2>3. n <= q * PageSize /\ q # 0
    BY <1>0, <1>2, <2>1
  <2>4. (q - 1) * PageSize < n
    BY <1>0, <2>1, Multiples
  <2>5. q - 1 <= (q - 1) * PageSize
    BY <1>0, <2>1, <2>3, Multiples
  <2>6. q - 1 < n
    BY <1>0, <2>1, <2>3, <2>4, <2>5, Multiples
  <2>7. q \in Nat \ {0} /\ q <= n
    BY <2>1, <2>3, <2>6
  <2>8. QED BY <2>2, <2>3, <2>4, <2>7 DEF Walk!Offset
<1>3. QED BY <1>1, <1>2

(* The instance counts as the module of the theorems does.                 *)
LEMMA SameCount ==
    ASSUME NEW S
    PROVE  Walk!Cardinality(S) = Cardinality(S)
  BY Zenon DEF Walk!Cardinality, Cardinality

(* In a finite set of numbers there is one with as many greater ones as is *)
(* asked for, when there are more than that.                               *)
LEMMA OneOfEachRank ==
    ASSUME NEW S \in SUBSET Nat, IsFiniteSet(S), NEW k \in Nat, k < Cardinality(S)
    PROVE  \E c \in S : Walk!Before(c, S) = k
<1> DEFINE Above(c) == {e \in S : e > c}
           n == Cardinality(S)
           rank == [c \in S |-> Cardinality(Above(c))]
<1>1. n \in Nat /\ n > 0
  BY FS_CardinalityType
<1>2. ASSUME NEW c \in S
      PROVE  IsFiniteSet(Above(c)) /\ Cardinality(Above(c)) \in 0 .. n - 1
  <2>1. Above(c) \in SUBSET S /\ c \notin Above(c)
    OBVIOUS
  <2>2. IsFiniteSet(Above(c)) /\ Cardinality(Above(c)) <= n /\ Cardinality(Above(c)) # n
    BY <2>1, FS_Subset
  <2>3. Cardinality(Above(c)) \in Nat
    BY <2>2, FS_CardinalityType
  <2>4. QED BY <1>1, <2>2, <2>3
<1>3. ASSUME NEW c \in S, NEW d \in S, c < d
      PROVE  Cardinality(Above(c)) # Cardinality(Above(d))
  <2>0. c \in Nat /\ d \in Nat /\ \A e \in S : e \in Nat
    OBVIOUS
  <2> HIDE DEF Above
  <2>1. ASSUME NEW e \in S, e > d
        PROVE  e > c
    BY <1>3, <2>0, <2>1
  <2> USE DEF Above
  <2>2. Above(d) \in SUBSET Above(c)
    BY <2>1
  <2>3. d > c /\ ~(d > d)
    BY <1>3, <2>0
  <2>4. Above(d) \in SUBSET Above(c) /\ d \in Above(c) /\ d \notin Above(d)
    BY <2>2, <2>3
  <2>5. IsFiniteSet(Above(c)) /\ Above(d) # Above(c)
    BY <1>2, <2>4
  <2> HIDE DEF Above
  <2>6. QED BY <2>4, <2>5, FS_Subset
<1>4. rank \in Injection(S, 0 .. n - 1)
  <2>1. rank \in [S -> 0 .. n - 1]
    BY <1>2
  <2>2. ASSUME NEW c \in S, NEW d \in S, rank[c] = rank[d]
        PROVE  c = d
    <3>1. c \in Nat /\ d \in Nat
      OBVIOUS
    <3>2. ~(c < d) /\ ~(d < c)
      BY <1>3, <2>2
    <3>3. QED BY <3>1, <3>2
  <2>3. QED BY <2>1, <2>2 DEF Injection, IsInjective
<1>5. IsFiniteSet(0 .. n - 1) /\ Cardinality(0 .. n - 1) = Cardinality(S)
  <2>1. n - 1 \in Int /\ 0 \in Int /\ ~(0 > n - 1) /\ (n - 1) - 0 + 1 = n
    BY <1>1
  <2>2. IsFiniteSet(0 .. n - 1) /\ Cardinality(0 .. n - 1) = (n - 1) - 0 + 1
    BY <2>1, FS_Interval
  <2>3. QED BY <2>1, <2>2
<1>6. rank \in Surjection(S, 0 .. n - 1)
  <2> HIDE DEF rank, n
  <2>1. QED BY <1>4, <1>5, FS_Injection
<1>7. PICK c \in S : Cardinality(Above(c)) = k
  <2>1. k \in 0 .. n - 1
    BY <1>1
  <2>2. PICK c \in S : rank[c] = k
    BY <1>6, <2>1 DEF Surjection
  <2>3. QED BY <2>2
<1>8. Walk!Before(c, S) = Cardinality(Above(c))
  <2>1. Walk!Before(c, S) = Cardinality({e \in S : e > c})
    BY SameCount DEF Walk!Before
  <2>2. QED BY <2>1
<1>9. QED BY <1>7, <1>8
-----------------------------------------------------------------------------
(* Operator's list of calls: one page of it.                               *)
LEMMA RowsCount ==
    ASSUME Walk!TypeOK, NEW f \in Walk!Filter
    PROVE  /\ Walk!Rows(f) \in SUBSET (1 .. wTotal)
           /\ Walk!Rows(f) \in SUBSET Nat
           /\ IsFiniteSet(Walk!Rows(f))
           /\ Walk!Matching(f) = Cardinality(Walk!Rows(f))
           /\ Walk!Matching(f) \in 0 .. wTotal
           /\ f = "all" => Walk!Matching(f) = wTotal
<1>1. wTotal \in Nat /\ wUnlinked \in SUBSET (1 .. wTotal)
  BY BackOfficeAssumption DEF Walk!TypeOK
<1>2. IsFiniteSet(1 .. wTotal) /\ Cardinality(1 .. wTotal) = wTotal
  <2>1. IsFiniteSet(1 .. wTotal)
        /\ Cardinality(1 .. wTotal) = IF 1 > wTotal THEN 0 ELSE wTotal - 1 + 1
    BY <1>1, FS_Interval
  <2>2. QED BY <1>1, <2>1
<1>3. Walk!Rows(f) \in SUBSET (1 .. wTotal) /\ (f = "all" => Walk!Rows(f) = 1 .. wTotal)
  BY <1>1 DEF Walk!Rows
<1>4. /\ IsFiniteSet(Walk!Rows(f))
      /\ Cardinality(Walk!Rows(f)) <= wTotal
      /\ Cardinality(Walk!Rows(f)) \in Nat
  BY <1>2, <1>3, FS_Subset, FS_CardinalityType
<1>5. Walk!Matching(f) = Cardinality(Walk!Rows(f))
  BY SameCount DEF Walk!Matching
<1>6. QED BY <1>1, <1>2, <1>3, <1>4, <1>5

(* Among all calls, those that come before one are the later ones.         *)
LEMMA BeforeIsLater ==
    ASSUME NEW n \in Nat, NEW c \in 1 .. n
    PROVE  Walk!Before(c, 1 .. n) = n - c
<1>1. {d \in 1 .. n : d > c} = (c + 1) .. n
  OBVIOUS
<1>2. c + 1 \in Int /\ n \in Int
  OBVIOUS
<1>3. Cardinality((c + 1) .. n) = IF c + 1 > n THEN 0 ELSE n - (c + 1) + 1
  BY <1>2, FS_Interval
<1>4. Cardinality((c + 1) .. n) = n - c
  BY <1>3
<1>5. QED BY <1>1, <1>4, SameCount DEF Walk!Before

(* What adminListCalls() answers: a page that exists, empty only when      *)
(* nothing matches, with every call whose place in the list is on it.      *)
LEMMA Listed ==
    ASSUME Walk!TypeOK, NEW f \in Walk!Filter, NEW p \in Nat \ {0},
           NEW v, v = Walk!ListCalls(f, p)
    PROVE  /\ v \in [filter : Walk!Filter, calls : SUBSET (1 .. wTotal),
                     page : 1 .. MaxCalls + 1, pageCount : 1 .. MaxCalls + 1,
                     of : 0 .. MaxCalls]
           /\ v.filter = f
           /\ v.page <= p
           /\ v.page <= v.pageCount
           /\ v.of <= v.pageCount * PageSize
           /\ v.of <= wTotal
           /\ v.calls = {} <=> v.of = 0
           /\ f = "all" =>
                /\ v.of = wTotal
                /\ \A c \in 1 .. wTotal :
                      wTotal < c + v.page * PageSize =>
                          c \in v.calls \/ wTotal < c + (v.page - 1) * PageSize
<1> DEFINE n == Walk!Matching(f)
           count == Walk!PageCount(n)
           page == Walk!Clamp(p, count)
           rows == Walk!Rows(f)
<1>0. PageSize \in Nat \ {0} /\ MaxCalls \in Nat
  BY BackOfficeAssumption
<1>1. /\ v = [filter |-> f, calls |-> Walk!Page(f, page), page |-> page,
              pageCount |-> count, of |-> n]
      /\ v.filter = f /\ v.calls = Walk!Page(f, page) /\ v.page = page
      /\ v.pageCount = count /\ v.of = n
  BY DEF Walk!ListCalls
<1>2. wTotal \in Nat /\ wTotal <= MaxCalls
  BY <1>0 DEF Walk!TypeOK
<1>3. /\ rows \in SUBSET (1 .. wTotal) /\ rows \in SUBSET Nat /\ IsFiniteSet(rows)
      /\ n = Cardinality(rows) /\ n \in 0 .. wTotal /\ (f = "all" => n = wTotal)
  BY RowsCount
<1>4. /\ count \in Nat \ {0} /\ n <= count * PageSize
      /\ n # 0 => Walk!Offset(count) < n /\ count <= n
  BY <1>3, PageCountFits
<1>5. count <= MaxCalls + 1
  <2>1. CASE n = 0
    BY <1>0, <2>1 DEF Walk!PageCount
  <2>2. CASE n # 0
    BY <1>0, <1>2, <1>3, <1>4, <2>2
  <2>3. QED BY <2>1, <2>2
<1> HIDE DEF n, count, rows
<1>6. page \in Nat \ {0} /\ page <= p /\ page <= count
  BY <1>4 DEF Walk!Clamp
<1> HIDE DEF page
<1>7. /\ Walk!Page(f, page) = {c \in rows : /\ Walk!Before(c, rows) >= Walk!Offset(page)
                                            /\ Walk!Before(c, rows) < Walk!Offset(page) + PageSize}
  BY DEF Walk!Page, rows
<1>8. Walk!Page(f, page) \in SUBSET (1 .. wTotal)
  BY <1>3, <1>7
<1>9. Walk!Page(f, page) = {} <=> n = 0
  <2>1. CASE n = 0
    BY <1>3, <1>7, <2>1, FS_EmptySet
  <2>2. CASE n # 0
    <3>1. /\ Walk!Offset(page) \in Nat
          /\ Walk!Offset(page) <= Walk!Offset(count)
          /\ Walk!Offset(count) \in Nat
      <4>1. page - 1 \in Nat /\ count - 1 \in Nat /\ page - 1 <= count - 1
        BY <1>4, <1>6
      <4>2. QED BY <1>0, <4>1, Multiples DEF Walk!Offset
    <3>2. Walk!Offset(page) < Cardinality(rows)
      BY <1>3, <1>4, <2>2, <3>1
    <3>3. PICK c \in rows : Walk!Before(c, rows) = Walk!Offset(page)
      BY <1>3, <3>1, <3>2, OneOfEachRank
    <3>4. c \in Walk!Page(f, page)
      BY <1>0, <1>7, <3>1, <3>3
    <3>5. QED BY <2>2, <3>4
  <2>3. QED BY <2>1, <2>2
<1>10. ASSUME f = "all", NEW c \in 1 .. wTotal, wTotal < c + page * PageSize
       PROVE  c \in Walk!Page(f, page) \/ wTotal < c + (page - 1) * PageSize
  <2>1. rows = 1 .. wTotal
    BY <1>10 DEF Walk!Rows, rows
  <2>2. Walk!Before(c, rows) = wTotal - c
    BY <1>2, <2>1, BeforeIsLater
  <2>3. (page - 1) * PageSize \in Nat /\ page * PageSize = (page - 1) * PageSize + PageSize
    <3>1. page - 1 \in Nat /\ (page - 1) + 1 = page
      BY <1>6
    <3>2. QED BY <1>0, <3>1, Multiples
  <2>4. SUFFICES ASSUME ~(wTotal < c + (page - 1) * PageSize)
                 PROVE  c \in Walk!Page(f, page)
    OBVIOUS
  <2> DEFINE o == (page - 1) * PageSize
             t == page * PageSize
  <2>5. Walk!Offset(page) = o
    BY DEF Walk!Offset
  <2>6. o \in Nat /\ t = o + PageSize /\ wTotal < c + t /\ ~(wTotal < c + o)
    BY <1>10, <2>3, <2>4
  <2> HIDE DEF o, t
  <2>7. wTotal - c >= o /\ wTotal - c < o + PageSize
    BY <1>0, <1>2, <2>6
  <2>8. QED BY <1>7, <2>1, <2>2, <2>5, <2>7
<1>11. n <= wTotal /\ n \in 0 .. MaxCalls
  BY <1>0, <1>2, <1>3
<1>12. page \in 1 .. MaxCalls + 1 /\ count \in 1 .. MaxCalls + 1
  BY <1>0, <1>4, <1>5, <1>6
<1>13. v \in [filter : Walk!Filter, calls : SUBSET (1 .. wTotal), page : 1 .. MaxCalls + 1,
             pageCount : 1 .. MaxCalls + 1, of : 0 .. MaxCalls]
  BY <1>1, <1>8, <1>11, <1>12
<1>14. QED BY <1>1, <1>3, <1>4, <1>6, <1>9, <1>10, <1>11, <1>13
(* Whatever page is shown, the operator has been shown every call stored   *)
(* when the walk began that is not further down the list than the page     *)
(* reaches.                                                                *)
ShownSoFar ==
    wView # None =>
        /\ wView.page <= wView.pageCount
        /\ wView.of <= wView.pageCount * PageSize
        /\ wView.filter = "all" =>
             /\ wView.of <= wTotal
             /\ \A c \in 1 .. wBegun :
                   wView.of < c + wView.page * PageSize => c \in wSeen

WalkInv == Walk!TypeOK /\ Walk!PageNeverEmpty /\ ShownSoFar

LEMMA WalkMisses ==
    WalkInv => Walk!WalkMissesNothing
<1> SUFFICES ASSUME WalkInv, wView # None, wView.filter = "all",
                    wView.page = wView.pageCount, NEW c \in 1 .. wBegun
             PROVE  c \in wSeen
  BY DEF WalkInv, Walk!WalkMissesNothing
<1> DEFINE t == wView.page * PageSize
<1>1. wView.of <= t /\ (wView.of < c + t => c \in wSeen)
  BY DEF WalkInv, ShownSoFar
<1>2. wView.of \in Nat /\ wView.page \in Nat /\ wBegun \in Nat
  BY BackOfficeAssumption DEF WalkInv, Walk!TypeOK
<1>3. t \in Nat
  <2>1. PageSize \in Nat
    BY BackOfficeAssumption
  <2>2. QED BY <1>2, <2>1, Multiples
<1>4. c \in Nat /\ c > 0
  BY <1>2
<1> HIDE DEF t
<1>5. QED BY <1>1, <1>2, <1>3, <1>4

LEMMA WalkInit ==
    Walk!Init => WalkInv
  BY BackOfficeAssumption
     DEF Walk!Init, WalkInv, Walk!TypeOK, Walk!PageNeverEmpty, ShownSoFar

LEMMA WalkOpen ==
    ASSUME WalkInv, NEW f \in Walk!Filter, Walk!Open(f)
    PROVE  WalkInv'
<1> DEFINE v == wView'
<1>0. PageSize \in Nat \ {0} /\ MaxCalls \in Nat
  BY BackOfficeAssumption
<1>1. /\ v = Walk!ListCalls(f, 1)
      /\ wSeen' = v.calls
      /\ wBegun' = wTotal
      /\ UNCHANGED <<wTotal, wUnlinked>>
  BY DEF Walk!Open
<1>2. /\ v \in [filter : Walk!Filter, calls : SUBSET (1 .. wTotal),
                page : 1 .. MaxCalls + 1, pageCount : 1 .. MaxCalls + 1, of : 0 .. MaxCalls]
      /\ v.filter = f
      /\ v.page <= 1
      /\ v.page <= v.pageCount
      /\ v.of <= v.pageCount * PageSize
      /\ v.of <= wTotal
      /\ v.calls = {} <=> v.of = 0
      /\ f = "all" =>
           /\ v.of = wTotal
           /\ \A c \in 1 .. wTotal :
                 wTotal < c + v.page * PageSize =>
                     c \in v.calls \/ wTotal < c + (v.page - 1) * PageSize
  <2>1. 1 \in Nat \ {0} /\ Walk!TypeOK
    BY DEF WalkInv
  <2> HIDE DEF v
  <2>2. QED BY <1>1, <2>1, Listed
<1>3. wTotal \in 0 .. MaxCalls /\ wUnlinked \in SUBSET (1 .. wTotal)
  BY DEF WalkInv, Walk!TypeOK
<1> HIDE DEF v
<1>4. v.page = 1 /\ (v.page - 1) * PageSize = 0
  <2>1. v.page = 1
    BY <1>0, <1>2
  <2>2. QED BY <1>0, <2>1
<1>5. ASSUME f = "all", NEW c \in 1 .. wTotal, v.of < c + v.page * PageSize
      PROVE  c \in v.calls
  <2>1. c \in v.calls \/ wTotal < c + 0
    BY <1>2, <1>4, <1>5
  <2>2. QED BY <1>3, <2>1
<1>6. Walk!TypeOK'
  <2>1. wView' \in {None} \cup
            [filter : Walk!Filter, calls : SUBSET (1 .. wTotal'), page : 1 .. MaxCalls + 1,
             pageCount : 1 .. MaxCalls + 1, of : 0 .. MaxCalls]
    BY <1>1, <1>2 DEF v
  <2>2. wSeen' \in SUBSET (1 .. wTotal') /\ wBegun' \in 0 .. wTotal'
    BY <1>1, <1>2, <1>3
  <2>3. QED BY <1>1, <1>3, <2>1, <2>2 DEF Walk!TypeOK, Walk!Filter
<1>7. Walk!PageNeverEmpty'
  BY <1>2 DEF v, Walk!PageNeverEmpty
<1>8. ShownSoFar'
  <2>1. f = "all" => \A c \in 1 .. wTotal : v.of < c + v.page * PageSize => c \in v.calls
    BY <1>5
  <2>2. QED BY <1>1, <1>2, <2>1 DEF v, ShownSoFar
<1>9. QED BY <1>6, <1>7, <1>8 DEF WalkInv

(* A page further or back: what the new page leaves above itself, the      *)
(* pages before it had shown, as arrivals only move calls down.            *)
LEMMA WalkTurn ==
    ASSUME WalkInv, wView # None,
           NEW p \in Nat \ {0}, p <= wView.page + 1, Walk!Turn(p)
    PROVE  WalkInv'
<1> DEFINE v == wView'
<1>0. PageSize \in Nat \ {0} /\ MaxCalls \in Nat
  BY BackOfficeAssumption
<1>f. PICK f \in Walk!Filter : f = wView.filter
  BY DEF WalkInv, Walk!TypeOK
<1>1. /\ v = Walk!ListCalls(f, p)
      /\ wSeen' = wSeen \cup v.calls
      /\ UNCHANGED <<wTotal, wUnlinked, wBegun>>
  BY <1>f DEF Walk!Turn
<1>2. /\ Walk!TypeOK
      /\ wTotal \in 0 .. MaxCalls /\ wUnlinked \in SUBSET (1 .. wTotal)
      /\ wSeen \in SUBSET (1 .. wTotal) /\ wBegun \in 0 .. wTotal
      /\ wView.page \in Nat \ {0} /\ wView.of \in Nat
  BY <1>0 DEF WalkInv, Walk!TypeOK
<1>3. /\ v \in [filter : Walk!Filter, calls : SUBSET (1 .. wTotal),
                page : 1 .. MaxCalls + 1, pageCount : 1 .. MaxCalls + 1, of : 0 .. MaxCalls]
      /\ v.filter = f
      /\ v.page <= p
      /\ v.page <= v.pageCount
      /\ v.of <= v.pageCount * PageSize
      /\ v.of <= wTotal
      /\ v.calls = {} <=> v.of = 0
      /\ f = "all" =>
           /\ v.of = wTotal
           /\ \A c \in 1 .. wTotal :
                 wTotal < c + v.page * PageSize =>
                     c \in v.calls \/ wTotal < c + (v.page - 1) * PageSize
  <2> HIDE DEF v
  <2>1. Walk!TypeOK /\ v = Walk!ListCalls(f, p) /\ f \in Walk!Filter /\ p \in Nat \ {0}
    BY <1>f, <1>1, <1>2
  <2>2. QED BY ONLY <2>1, Listed, SMTT(60)
<1> HIDE DEF v
<1>4. ASSUME f = "all", NEW c \in 1 .. wBegun, v.of < c + v.page * PageSize
      PROVE  c \in wSeen \cup v.calls
  <2>1. c \in 1 .. wTotal /\ c \in Nat
    BY <1>0, <1>2
  <2>2. c \in v.calls \/ wTotal < c + (v.page - 1) * PageSize
    BY <1>3, <1>4, <2>1
  <2>3. CASE wTotal < c + (v.page - 1) * PageSize
    <3> DEFINE new == (v.page - 1) * PageSize
               old == wView.page * PageSize
    <3>1. new \in Nat /\ old \in Nat /\ new <= old
      <4>1. v.page - 1 \in Nat /\ wView.page \in Nat /\ v.page - 1 <= wView.page
        BY <1>0, <1>2, <1>3
      <4>2. QED BY <1>0, <4>1, Multiples
    <3>2. wView.of <= wTotal /\ (wView.of < c + old => c \in wSeen)
      BY <1>f, <1>4 DEF WalkInv, ShownSoFar
    <3>3. wTotal < c + new
      BY <2>3
    <3> HIDE DEF new, old
    <3>4. wView.of < c + old
      BY <1>0, <1>2, <2>1, <3>1, <3>2, <3>3
    <3>5. QED BY <3>2, <3>4
  <2>4. QED BY <2>2, <2>3
<1>5. Walk!TypeOK'
  <2>1. wView' \in {None} \cup
            [filter : Walk!Filter, calls : SUBSET (1 .. wTotal'), page : 1 .. MaxCalls + 1,
             pageCount : 1 .. MaxCalls + 1, of : 0 .. MaxCalls]
    BY <1>1, <1>3 DEF v
  <2>2. wSeen' \in SUBSET (1 .. wTotal')
    BY <1>1, <1>2, <1>3
  <2>3. QED BY <1>1, <1>2, <2>1, <2>2 DEF Walk!TypeOK, Walk!Filter
<1>6. Walk!PageNeverEmpty'
  BY <1>3 DEF v, Walk!PageNeverEmpty
<1>7. ShownSoFar'
  <2>1. f = "all" =>
            \A c \in 1 .. wBegun : v.of < c + v.page * PageSize => c \in wSeen \cup v.calls
    BY <1>4
  <2>2. QED BY <1>1, <1>3, <2>1 DEF v, ShownSoFar
<1>8. QED BY <1>5, <1>6, <1>7 DEF WalkInv

(* A call arrives, or changes hands, while a page is shown.                *)
LEMMA WalkCalls ==
    ASSUME WalkInv, Walk!CallArrives \/ \E c \in 1 .. MaxCalls : Walk!CallRelinked(c)
    PROVE  WalkInv'
<1>0. MaxCalls \in Nat
  BY BackOfficeAssumption
<1>1. /\ wTotal \in 0 .. MaxCalls /\ wUnlinked \in SUBSET (1 .. wTotal)
      /\ wView \in {None} \cup
            [filter : Walk!Filter, calls : SUBSET (1 .. wTotal), page : 1 .. MaxCalls + 1,
             pageCount : 1 .. MaxCalls + 1, of : 0 .. MaxCalls]
      /\ wSeen \in SUBSET (1 .. wTotal) /\ wBegun \in 0 .. wTotal
  BY DEF WalkInv, Walk!TypeOK, Walk!Filter
<1>2. /\ UNCHANGED <<wView, wSeen, wBegun>>
      /\ wTotal' \in {wTotal, wTotal + 1}
      /\ wTotal' \in 0 .. MaxCalls
      /\ wUnlinked' \in SUBSET (1 .. wTotal')
  <2>1. CASE Walk!CallArrives
    BY <1>0, <1>1, <2>1 DEF Walk!CallArrives
  <2>2. ASSUME NEW c \in 1 .. MaxCalls, Walk!CallRelinked(c)
        PROVE  UNCHANGED <<wView, wSeen, wBegun, wTotal>> /\ wUnlinked' \in SUBSET (1 .. wTotal)
    BY <1>0, <1>1, <2>2 DEF Walk!CallRelinked
  <2>3. QED BY <1>1, <2>1, <2>2
<1>3. wTotal <= wTotal' /\ wTotal' \in Nat /\ wTotal \in Nat
      /\ SUBSET (1 .. wTotal) \in SUBSET SUBSET (1 .. wTotal')
      /\ 0 .. wTotal \in SUBSET (0 .. wTotal')
  BY <1>0, <1>1, <1>2
<1>4. Walk!TypeOK'
  <2>1. wView' \in {None} \cup
            [filter : Walk!Filter, calls : SUBSET (1 .. wTotal'), page : 1 .. MaxCalls + 1,
             pageCount : 1 .. MaxCalls + 1, of : 0 .. MaxCalls]
    BY <1>1, <1>2, <1>3
  <2>2. QED BY <1>1, <1>2, <1>3, <2>1 DEF Walk!TypeOK, Walk!Filter
<1>5. Walk!PageNeverEmpty'
  BY <1>2 DEF WalkInv, Walk!PageNeverEmpty
<1>6. ShownSoFar'
  <2>1. wView # None => wView.of \in Nat
    BY <1>0, <1>1
  <2>2. QED BY <1>2, <1>3, <2>1 DEF WalkInv, ShownSoFar
<1>7. QED BY <1>4, <1>5, <1>6 DEF WalkInv

LEMMA WalkNext ==
    WalkInv /\ Walk!Next => WalkInv'
<1> SUFFICES ASSUME WalkInv, Walk!Next
             PROVE  WalkInv'
  OBVIOUS
<1>1. wView # None => wView.page \in Nat \ {0}
  BY BackOfficeAssumption DEF WalkInv, Walk!TypeOK
<1>2. ASSUME NEW f \in Walk!Filter, Walk!Open(f)
      PROVE  WalkInv'
  BY <1>2, WalkOpen
<1>3. CASE Walk!NextPage
  <2>1. wView # None /\ Walk!Turn(wView.page + 1)
    BY <1>3 DEF Walk!NextPage
  <2>2. wView.page + 1 \in Nat \ {0} /\ wView.page + 1 <= wView.page + 1
    BY <1>1, <2>1
  <2>3. QED BY <2>1, <2>2, WalkTurn
<1>4. CASE Walk!PreviousPage
  <2>1. wView # None /\ wView.page > 1 /\ Walk!Turn(wView.page - 1)
    BY <1>4 DEF Walk!PreviousPage
  <2>2. wView.page - 1 \in Nat \ {0} /\ wView.page - 1 <= wView.page + 1
    BY <1>1, <2>1
  <2>3. QED BY <2>1, <2>2, WalkTurn
<1>5. CASE Walk!CallArrives \/ \E c \in 1 .. MaxCalls : Walk!CallRelinked(c)
  BY <1>5, WalkCalls
<1>6. QED BY <1>2, <1>3, <1>4, <1>5 DEF Walk!Next

-----------------------------------------------------------------------------
(* All of them: the parts' variables are disjoint, so each keeps its       *)
(* invariant while another moves.                                          *)
OfficeInv ==
    /\ IInv
    /\ part = "settings" => SettingsInv
    /\ part = "leads" => LeadsInv
    /\ part = "calls" => WalkInv

LEMMA SettingsRest ==
    SettingsInv /\ UNCHANGED settingsVars => SettingsInv'
  BY DEF settingsVars, SettingsInv, Settings!TypeOK, AskedOnce, ShowsLoaded, CleanCarries

LEMMA LeadsRest ==
    LeadsInv /\ UNCHANGED leadVars => LeadsInv'
<1> SUFFICES ASSUME LeadsInv, UNCHANGED leadVars
             PROVE  LeadsInv'
  OBVIOUS
<1>1. Leads!TypeOK'
  BY DEF leadVars, LeadsInv, Leads!TypeOK
<1>2. AnsweredIsStored' /\ Leads!ThankedIsStored'
  BY DEF leadVars, LeadsInv, AnsweredIsStored, Stored, Leads!ThankedIsStored
<1>3. SelectsKnow' /\ Leads!ShownWasHad'
  BY DEF leadVars, LeadsInv, SelectsKnow, Leads!ShownWasHad
<1>4. QED BY <1>1, <1>2, <1>3 DEF LeadsInv

LEMMA WalkRest ==
    WalkInv /\ UNCHANGED walkVars => WalkInv'
  BY DEF walkVars, WalkInv, Walk!TypeOK, Walk!PageNeverEmpty, ShownSoFar

LEMMA OfficeInitInv == OfficeInit => OfficeInv
  BY InitInv, SettingsInit, LeadsInit, WalkInit DEF OfficeInit, OfficeInv

LEMMA OfficeNextInv == OfficeInv /\ [OfficeNext]_officeVars => OfficeInv'
<1> SUFFICES ASSUME OfficeInv, [OfficeNext]_officeVars
             PROVE  OfficeInv'
  OBVIOUS
<1>1. CASE OnDeployment(Next)
  <2>1. IInv' /\ part' = part /\ part = "deployment"
    BY <1>1, NextInv DEF OnDeployment, OfficeInv
  <2>2. QED BY <2>1 DEF OfficeInv
<1>2. CASE OnSettings(Settings!Next)
  <2>1. IInv' /\ part' = part /\ part = "settings"
    BY <1>2, NextInv DEF OnSettings, OfficeInv
  <2>2. SettingsInv'
    BY <1>2, SettingsNext DEF OnSettings, OfficeInv
  <2>3. QED BY <2>1, <2>2 DEF OfficeInv
<1>3. CASE OnLeads(Leads!Next)
  <2>1. IInv' /\ part' = part /\ part = "leads"
    BY <1>3, NextInv DEF OnLeads, OfficeInv
  <2>2. LeadsInv'
    BY <1>3, LeadsNext DEF OnLeads, OfficeInv
  <2>3. QED BY <2>1, <2>2 DEF OfficeInv
<1>4. CASE OnCalls(Walk!Next)
  <2>1. IInv' /\ part' = part /\ part = "calls"
    BY <1>4, NextInv DEF OnCalls, OfficeInv
  <2>2. WalkInv'
    BY <1>4, WalkNext DEF OnCalls, OfficeInv
  <2>3. QED BY <2>1, <2>2 DEF OfficeInv
<1>5. CASE UNCHANGED officeVars
  <2>1. part' = part /\ UNCHANGED vars /\ UNCHANGED settingsVars /\ UNCHANGED leadVars
        /\ UNCHANGED walkVars
    BY <1>5 DEF officeVars
  <2>2. IInv'
    BY <2>1, NextInv DEF OfficeInv
  <2>3. QED BY <2>1, <2>2, SettingsRest, LeadsRest, WalkRest DEF OfficeInv
<1>6. QED BY <1>1, <1>2, <1>3, <1>4, <1>5 DEF OfficeNext

LEMMA OfficeInvariance == OfficeSpec => []OfficeInv
<1>1. QED BY OfficeInitInv, OfficeNextInv, PTL DEF OfficeSpec

(* Type correctness of whichever part moves.                               *)
THEOREM OfficeTypes == OfficeSpec => []OfficeTypeOK
<1>1. OfficeInv => OfficeTypeOK
  BY DEF OfficeInv, OfficeTypeOK, IInv, FileInv, SettingsInv, LeadsInv, WalkInv
<1>2. QED BY <1>1, OfficeInvariance, PTL

(* A visitor who is thanked for a request or for joining the waiting list  *)
(* is in the table, whatever answers were lost, refused or limited before  *)
(* (StartForm.tsx:32, WaitlistForm.tsx).                                   *)
THEOREM ThankedAreStored == OfficeSpec => []ThankedIsStored
<1>1. OfficeInv => ThankedIsStored
  BY DEF OfficeInv, ThankedIsStored, LeadsInv
<1>2. QED BY <1>1, OfficeInvariance, PTL

(* A select at rest and every entry of the audit trail show a status the   *)
(* lead has had (LeadStatusSelect.tsx:47, api/admin/leads/[id]/route.ts).  *)
THEOREM ShownStatusesWereHad == OfficeSpec => []ShownWasHad
<1>1. OfficeInv => ShownWasHad
  BY DEF OfficeInv, ShownWasHad, LeadsInv
<1>2. QED BY <1>1, OfficeInvariance, PTL

(* The operator who turned to the last page has been shown every call that *)
(* was stored when the walk began, and no empty page (admin-db.ts:155).    *)
THEOREM WalksMissNothing == OfficeSpec => []WalkMissesNothing
<1>1. OfficeInv => WalkMissesNothing
  BY WalkMisses DEF OfficeInv, WalkMissesNothing
<1>2. QED BY <1>1, OfficeInvariance, PTL

(* A save by an owner who typed nothing undoes nothing that the page was   *)
(* shown (SettingsPanel.tsx:123).                                          *)
THEOREM CleanSavesKeep == OfficeSpec => CleanSaveKeeps
<1>1. OfficeInv /\ [OfficeNext]_officeVars
          => [part = "settings" => Settings!KeepsWhatItShows]_officeVars
  <2> SUFFICES ASSUME OfficeInv, OfficeNext, part = "settings"
               PROVE  Settings!KeepsWhatItShows
    OBVIOUS
  <2>1. Settings!Next
    BY DEF OfficeNext, OnDeployment, OnSettings, OnLeads, OnCalls
  <2>2. QED BY <2>1, SettingsKeep DEF OfficeInv
<1>2. QED BY <1>1, OfficeInvariance, PTL DEF OfficeSpec, CleanSaveKeeps

(* The office is a deployment as far as checkout, process and file go:     *)
(* what is proved of Deployment's own specification holds here too.        *)
THEOREM OfficeDeploys == OfficeSpec => Spec
<1>1. OfficeInit => Init
  BY DEF OfficeInit
<1>2. [OfficeNext]_officeVars => [Next]_vars
  <2>1. UNCHANGED officeVars => UNCHANGED vars
    BY DEF officeVars
  <2>2. OfficeNext => Next \/ UNCHANGED vars
    BY DEF OfficeNext, OnDeployment, OnSettings, OnLeads, OnCalls
  <2>3. QED BY <2>1, <2>2
<1>3. QED BY <1>1, <1>2, PTL DEF OfficeSpec, Spec
=============================================================================
