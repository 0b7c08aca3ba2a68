------------------------------- MODULE Deployment -------------------------------
(***************************************************************************)
(* How a commit comes to be served and how it finds its database: the      *)
(* script deploy/vps-deploy.sh, the service that systemd keeps running,    *)
(* and getDb() of src/lib/database.ts, which brings the tables up to date  *)
(* on the first request of every process.                                  *)
(*                                                                         *)
(* Each statement of getDb() commits by itself, and the process or the     *)
(* script may be killed between two of them.  migrations/schema.sql is     *)
(* read from the checkout, which need not be that of the running code.     *)
(***************************************************************************)
EXTENDS Naturals

CONSTANTS
    Commit,
    Column,         \* columns added to a table after its first release
    Needs,          \* the columns a commit lists, and its schema.sql has
    Boots,          \* commits whose process serves
    Fits,           \* ... whose indexes any stored rows satisfy
    UidColumn,      \* businesses.clientUid
    Row,            \* rows of businesses
    Uid,
    NoRow,
    MaxDeploys,     \* bound: runs of the script
    None

ASSUME DeploymentAssumption ==
    /\ Needs \in [Commit -> SUBSET Column]
    /\ Boots \subseteq Commit
    /\ MaxDeploys \in Nat
    /\ None \notin Commit \cup Uid \cup {NoRow}
    /\ \A S \in SUBSET Column : S # None
    /\ NoRow \notin Uid

VARIABLES
    head,           \* the commit checked out in /srv/callflow
    build,          \* the commit built there, None while npm is at work
    running,        \* the commit of the process
    handle,         \* db: how far getDb() has come in this process
    made,           \* history: the commit whose schema.sql made the tables
                    \* in this opening, None if it found them
    columns,        \* columns in the file, None before the tables
    uid,            \* column clientUid
    script,         \* where vps-deploy.sh is
    prev,           \* PREV_SHA
    deploys

treeVars    == <<head, build>>
processVars == <<running, handle, made>>
fileVars    == <<columns, uid>>
scriptVars  == <<script, prev, deploys>>
vars        == <<treeVars, processVars, fileVars, scriptVars>>

Ended == {"none", "done", "rolled back", "aborted"}

TypeOK ==
    /\ head \in Commit
    /\ build \in Commit \cup {None}
    /\ running \in Commit \cup {None}
    /\ handle \in {"closed", "columns", "schema", "uids", "open"}
    /\ made \in Commit \cup {None}
    /\ columns \in {None} \cup SUBSET Column
    /\ uid \in [Row -> Uid \cup {None, NoRow}]
    /\ script \in Ended \cup {"reset", "build", "restart", "gate", "restore",
                           "rebuild", "restart old"}
    /\ prev \in Commit
    /\ deploys \in 0 .. MaxDeploys

(* vps-bootstrap.sh has started the first commit on an empty disk.         *)
Init ==
    /\ head \in Boots
    /\ build = head
    /\ running = head
    /\ handle = "closed"
    /\ made = None
    /\ columns = None
    /\ uid = [r \in Row |-> NoRow]
    /\ script = "none"
    /\ prev = head
    /\ deploys = 0

-----------------------------------------------------------------------------
(* systemd: Restart=always.                                                *)
Dies ==
    /\ running # None
    /\ running' = None
    /\ handle' = "closed"
    /\ made' = None
    /\ UNCHANGED <<treeVars, fileVars, scriptVars>>

Starts ==
    /\ running = None
    /\ build \in Boots
    /\ running' = build
    /\ handle' = "closed"
    /\ made' = None
    /\ UNCHANGED <<treeVars, fileVars, scriptVars>>

-----------------------------------------------------------------------------
(* The first request that needs the database.                              *)
OpenStarts ==
    /\ running # None
    /\ handle = "closed"
    /\ handle' = "columns"
    /\ made' = None
    /\ UNCHANGED <<treeVars, running, fileVars, scriptVars>>

(* Mutant of Missing: schema.sql is trusted to add the columns.            *)
MissingNothing == {}

(* migrateCallsTable() and migrateBusinessesTable() leave a file without   *)
(* tables to schema.sql.                                                   *)
Missing == IF columns = None THEN {} ELSE Needs[running] \ columns

AddColumn(c) ==
    /\ handle = "columns"
    /\ c \in Missing
    /\ columns' = columns \cup {c}
    /\ UNCHANGED <<treeVars, processVars, uid, scriptVars>>

ColumnsDone ==
    /\ handle = "columns"
    /\ Missing = {}
    /\ handle' = "schema"
    /\ UNCHANGED <<treeVars, running, made, fileVars, scriptVars>>

(* schema.sql is that of the checkout.  CREATE TABLE IF NOT EXISTS makes   *)
(* the tables of an empty file, all of them or, when it dies, none: an     *)
(* opening that finds some leaves the rest to this action.                 *)
MakeTables ==
    /\ handle = "schema"
    /\ columns = None
    /\ columns' = Needs[head]
    /\ made' = head
    /\ UNCHANGED <<treeVars, running, handle, uid, scriptVars>>

(* Tables that are there get no column from it, only its indexes.          *)
ExecSchema ==
    /\ handle = "schema"
    /\ columns # None
    /\ handle' = "uids"
    /\ UNCHANGED <<treeVars, running, made, fileVars, scriptVars>>

(* An index over a column which is missing, or which the rows violate:     *)
(* getDb() throws, and what was added stays.  Tables just made are empty.  *)
SchemaThrows ==
    /\ handle = "schema"
    /\ columns # None
    /\ made = None
    /\ head \notin Fits \/ ~ (Needs[head] \subseteq columns)
    /\ handle' = "closed"
    /\ UNCHANGED <<treeVars, running, made, fileVars, scriptVars>>

Fresh == Uid \ {uid[r] : r \in Row}

(* Mutant of Pending: every row gets a UID, not just those without one.    *)
PendingAll == {r \in Row : uid[r] # NoRow}

Pending == {r \in Row : uid[r] = None}

(* backfillBusinessClientUids(), a statement per row.                      *)
Backfill(r) ==
    /\ handle = "uids"
    /\ UidColumn \in Needs[running] \cap columns
    /\ r \in Pending
    /\ \E u \in Fresh : uid' = [uid EXCEPT ![r] = u]
    /\ UNCHANGED <<treeVars, processVars, columns, scriptVars>>

(* Its query names the column.                                             *)
BackfillThrows ==
    /\ handle = "uids"
    /\ UidColumn \in Needs[running] \ columns
    /\ handle' = "closed"
    /\ UNCHANGED <<treeVars, running, made, fileVars, scriptVars>>

Opened ==
    /\ handle = "uids"
    /\ UidColumn \in Needs[running] => UidColumn \in columns /\ Pending = {}
    /\ handle' = "open"
    /\ UNCHANGED <<treeVars, running, made, fileVars, scriptVars>>

(* A signup: code that knows the column fills it.                          *)
Insert(r) ==
    /\ handle = "open"
    /\ uid[r] = NoRow
    /\ \E u \in IF UidColumn \in Needs[running] THEN Fresh ELSE {None} :
           uid' = [uid EXCEPT ![r] = u]
    /\ UNCHANGED <<treeVars, processVars, columns, scriptVars>>

-----------------------------------------------------------------------------
(* vps-deploy.sh, on a clean tree: PREV_SHA, fetch, reset.  No request     *)
(* need have opened the database before.                                   *)
Deploy(c) ==
    /\ script \in Ended
    /\ deploys < MaxDeploys
    /\ deploys' = deploys + 1
    /\ prev' = head
    /\ head' = c
    /\ script' = "reset"
    /\ UNCHANGED <<build, processVars, fileVars>>

(* npm ci empties node_modules under the process that is running, and      *)
(* again after a reset back.                                               *)
Npm ==
    /\ script \in {"reset", "restore"}
    /\ build' = None
    /\ script' = IF script = "reset" THEN "build" ELSE "rebuild"
    /\ UNCHANGED <<head, processVars, fileVars, prev, deploys>>

BuildSucceeds ==
    /\ script = "build"
    /\ build' = head
    /\ script' = "restart"
    /\ UNCHANGED <<head, processVars, fileVars, prev, deploys>>

(* Mutant of Restored: nothing is reset before the second build.           *)
StaysNew == head

Restored == prev

(* For a reason of the commit, or of the day.                              *)
BuildFails ==
    /\ script = "build"
    /\ head' = Restored
    /\ script' = "restore"
    /\ UNCHANGED <<build, processVars, fileVars, prev, deploys>>

Restart ==
    /\ script \in {"restart", "restart old"}
    /\ running' = IF build \in Boots THEN build ELSE None
    /\ handle' = "closed"
    /\ made' = None
    /\ script' = IF script = "restart" THEN "gate" ELSE "rolled back"
    /\ UNCHANGED <<treeVars, fileVars, prev, deploys>>

(* Mutant of Healthy: only the static page is asked for.                   *)
ServesPricing == running # None

(* /pricing, and a query by the health route.                              *)
Healthy == running # None /\ handle = "open"

GatePasses ==
    /\ script = "gate"
    /\ Healthy
    /\ script' = "done"
    /\ UNCHANGED <<treeVars, processVars, fileVars, prev, deploys>>

(* No answer, or one of failure: reset.                                    *)
GateFails ==
    /\ script = "gate"
    /\ head' = Restored
    /\ script' = "restore"
    /\ UNCHANGED <<build, processVars, fileVars, prev, deploys>>

Rebuilds ==
    /\ script = "rebuild"
    /\ build' = head
    /\ script' = "restart old"
    /\ UNCHANGED <<head, processVars, fileVars, prev, deploys>>

(* set -e, or a signal, wherever the script is.                            *)
Aborts ==
    /\ script \notin Ended
    /\ script' = "aborted"
    /\ UNCHANGED <<treeVars, processVars, fileVars, prev, deploys>>

Next ==
    \/ Dies \/ Starts
    \/ OpenStarts \/ ColumnsDone \/ MakeTables \/ ExecSchema \/ SchemaThrows
    \/ BackfillThrows \/ Opened
    \/ \E c \in Column : AddColumn(c)
    \/ \E r \in Row : Backfill(r) \/ Insert(r)
    \/ \E c \in Commit : Deploy(c)
    \/ Npm \/ BuildSucceeds \/ BuildFails \/ Restart
    \/ GatePasses \/ GateFails \/ Rebuilds \/ Aborts

Spec == Init /\ [][Next]_vars

-----------------------------------------------------------------------------
(* A handle that getDb() has given out is of a file in which no business   *)
(* is without the UID the running code expects, and which has every column *)
(* the running code names, whatever commits wrote to the file and wherever *)
(* an earlier opening died.  With one exception: a process that made the   *)
(* tables itself after a deployment had replaced the checkout under it has *)
(* the columns of the other commit's schema.sql.                           *)
OpenIsComplete ==
    handle = "open" =>
        /\ UidColumn \in Needs[running] =>
               UidColumn \in columns /\ \A r \in Row : uid[r] # None
        /\ made \in {None, running} => Needs[running] \subseteq columns

KeepsUids == \A r \in Row : uid[r] \in Uid => uid'[r] = uid[r]

(* A UID that a customer was given never changes ("existing values are     *)
(* never rewritten", database.ts:275).                                     *)
UidNeverRewritten == [][KeepsUids]_vars

(* "Deployed successfully": what is built is what was deployed, it serves, *)
(* and the database has all that it needs.                                 *)
DeployedAnswers ==
    script = "done" =>
        /\ build = head
        /\ head \in Boots
        /\ columns # None
        /\ Needs[head] \subseteq columns

(* "Rolled back": checkout, build and process are of the commit that was   *)
(* there when the script began, the process unless it is down.             *)
RolledBackToPrev ==
    script = "rolled back" =>
        /\ head = prev
        /\ build = prev
        /\ running \in {prev, None}
=============================================================================
