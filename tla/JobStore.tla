------------------------------- MODULE JobStore -------------------------------
(***************************************************************************)
(* The `jobs' table of whatsback (src/models/job.js) and the operations    *)
(* that write it: the REST handlers of src/controllers/api/job-controller.js *)
(* and the dashboard form of public/js/schedule.js that calls them.        *)
(*                                                                         *)
(* A row keeps only what the scheduler tells apart: the trigger, the       *)
(* target and message (or NULL when the column is NULL), the cron          *)
(* expression, job_status and whether deleted_at is set.  Names, times and *)
(* the text of messages are abstracted to model values.  `gen' is a ghost  *)
(* field: the number of the INSERT that created the row, so that two rows  *)
(* that carry the same id at different times can be told apart.            *)
(***************************************************************************)
EXTENDS Naturals, FiniteSets

CONSTANTS
    MaxJobs,      \* ids 1..MaxJobs; INSERT stops once sqlite_sequence reaches it
    Targets,      \* values of target_contact_or_group ("name|number")
    Messages,     \* values of the message column
    Crons,        \* values of job_cron_expression
    Triggers,     \* values of job_trigger
    UpdateColumns, \* the columns the one-key PUT bodies set (see ApiUpdateJob)
    NULL          \* a SQL NULL column

ASSUME MaxJobs \in Nat \ {0}
ASSUME NULL \notin Targets \cup Messages

JobIds == 1..MaxJobs

\* The trigger values the dashboard's <select id="job-trigger"> offers.
UiTriggers == {"send_message", "send_group_message"} \cap Triggers

NoRow == [absent |-> TRUE]

Row == [trigger : Triggers, target : Targets \cup {NULL},
        message : Messages \cup {NULL}, cron : Crons,
        status : {0, 1}, deleted : BOOLEAN, gen : 1..MaxJobs]

VARIABLES
    jobs,         \* id -> row, or NoRow when no row has that id
    seq,          \* sqlite_sequence for `jobs': the largest id ever issued
    created,      \* ghost: number of INSERTs so far
    dashboardJobs \* ghost: ids of rows created through the dashboard form

storeVars == <<jobs, seq, created, dashboardJobs>>

Exists(id) == jobs[id] # NoRow

StoreTypeOK ==
    /\ jobs \in [JobIds -> Row \cup {NoRow}]
    /\ seq \in 0..MaxJobs
    /\ created \in 0..MaxJobs
    /\ dashboardJobs \subseteq JobIds

StoreInit ==
    /\ jobs = [id \in JobIds |-> NoRow]
    /\ seq = 0
    /\ created = 0
    /\ dashboardJobs = {}

\* Mutant of NextId: a plain rowid table, which reuses the largest live id + 1.
NextIdFromMaxRowid ==
    LET live == {id \in JobIds : Exists(id)}
    IN  IF live = {} THEN 1 ELSE (CHOOSE m \in live : \A o \in live : o <= m) + 1

(***************************************************************************)
(* The id an INSERT receives.  The table is declared                       *)
(* `id INTEGER PRIMARY KEY AUTOINCREMENT', so SQLite hands out one more     *)
(* than the largest id it has ever issued, deleted rows included.          *)
(***************************************************************************)
NextId == seq + 1

(***************************************************************************)
(* job.create: INSERT with job_status 1 and deleted_at NULL.  The          *)
(* controller passes the body fields target_contact_or_group and message   *)
(* through unchecked, so a missing key becomes a NULL column.              *)
(***************************************************************************)
Insert(trigger, target, message, cron) ==
    /\ NextId \in JobIds
    /\ created < MaxJobs
    /\ jobs' = [jobs EXCEPT ![NextId] =
                 [trigger |-> trigger, target |-> target, message |-> message,
                  cron |-> cron, status |-> 1, deleted |-> FALSE,
                  gen |-> created + 1]]
    /\ seq' = IF NextId > seq THEN NextId ELSE seq
    /\ created' = created + 1

\* POST /api/jobs from any API client: every column is what the body holds.
CreateJob ==
    \E trigger \in Triggers, target \in Targets \cup {NULL},
       message \in Messages \cup {NULL}, cron \in Crons :
        /\ Insert(trigger, target, message, cron)
        /\ UNCHANGED dashboardJobs

(***************************************************************************)
(* The dashboard's "create" submit: it refuses an empty field, then posts  *)
(* the body with the keys job_target_contact_or_group and job_message,     *)
(* which createJob does not read, so both columns are stored NULL.         *)
(***************************************************************************)
UiCreateJob ==
    \E trigger \in UiTriggers, cron \in Crons :
        /\ Insert(trigger, NULL, NULL, cron)
        /\ dashboardJobs' = dashboardJobs \cup {NextId}

\* job.updateById: one UPDATE .. SET <columns> WHERE id = ?, on whatever row
\* has the id; it touches no other row and neither seq nor created.
updateById(id, row) == jobs' = [jobs EXCEPT ![id] = row]

\* job.softDeleteById: UPDATE .. SET deleted_at = CURRENT_TIMESTAMP WHERE id = ?,
\* with no `deleted_at IS NULL' filter.
softDeleteById(id) == jobs' = [jobs EXCEPT ![id].deleted = TRUE]

\* job.forceDeleteById: DELETE .. WHERE id = ?; the id stays in sqlite_sequence.
forceDeleteById(id) == jobs' = [jobs EXCEPT ![id] = NoRow]

(***************************************************************************)
(* The dashboard's "edit" submit: PUT /api/jobs/:id with the five job      *)
(* columns under their real names; updateById writes them whenever a row   *)
(* has that id, soft-deleted or not.                                       *)
(***************************************************************************)
UiEditJob ==
    \E id \in JobIds, trigger \in UiTriggers, target \in Targets,
       message \in Messages, cron \in Crons :
        /\ Exists(id)
        /\ updateById(id, [jobs[id] EXCEPT !.trigger = trigger, !.target = target,
                                            !.message = message, !.cron = cron])
        /\ UNCHANGED <<seq, created, dashboardJobs>>

(***************************************************************************)
(* PUT /api/jobs/:id from any API client: updateJob hands req.body to      *)
(* updateById, which SETs every key of the body (through toSnakeCase) on   *)
(* the row with that id, soft-deleted or not.  The bodies enumerated are    *)
(* those of one key: {job_status}, the only way to deactivate a job,        *)
(* {target_contact_or_group} or {message}, possibly null, and {deletedAt},  *)
(* a timestamp or null, which deletes or undeletes the job.                 *)
(***************************************************************************)
UpdateBodies ==
    [col : {"status"}, val : {0, 1}] \cup [col : {"target"}, val : Targets \cup {NULL}]
    \cup [col : {"message"}, val : Messages \cup {NULL}]
    \cup [col : {"deleted"}, val : BOOLEAN]

ApiUpdateJob ==
    \E id \in JobIds, body \in UpdateBodies :
        /\ Exists(id) /\ body.col \in UpdateColumns
        /\ updateById(id, [jobs[id] EXCEPT ![body.col] = body.val])
        /\ UNCHANGED <<seq, created, dashboardJobs>>

\* DELETE /api/jobs/:id: softDeleteById sets deleted_at.
SoftDelete ==
    \E id \in JobIds :
        /\ Exists(id)
        /\ softDeleteById(id)
        /\ UNCHANGED <<seq, created, dashboardJobs>>

\* DELETE /api/jobs/force/:id: forceDeleteById removes the row.
ForceDelete ==
    \E id \in JobIds :
        /\ Exists(id)
        /\ forceDeleteById(id)
        /\ UNCHANGED <<seq, created, dashboardJobs>>

StoreNext ==
    \/ CreateJob
    \/ UiCreateJob
    \/ UiEditJob
    \/ ApiUpdateJob
    \/ SoftDelete
    \/ ForceDelete

================================================================================
