-------------------------------- MODULE CronJob --------------------------------
(***************************************************************************)
(* The scheduler process of whatsback (cronjob.js) together with the job    *)
(* store it reads (JobStore) and the two message routes of the app process *)
(* it calls over HTTP (src/routes/api/message-routes.js).                   *)
(*                                                                         *)
(* cronjob.js runs as its own Node process.  It waits for GET /health,     *)
(* then every 20 s (and once at start) reads the eligible rows and gives   *)
(* each row whose id is not yet in `scheduledJobs' a node-cron task.  A    *)
(* task's callback closes over the row as it was read.  When it fires it   *)
(* starts sendMessage/sendGroupMessage without awaiting it and writes the  *)
(* job_histories row at once.  The app process answers the POST later.    *)
(*                                                                         *)
(* Time is not modelled: a task may fire at any step, which covers every  *)
(* cron expression node-cron accepts.                                      *)
(***************************************************************************)
EXTENDS JobStore, Sequences, TLC

CONSTANTS
    ValidCrons,   \* the members of Crons for which cron.validate is true
    HealthTries,  \* `let retries = 5' in startCronJobs
    MaxFires,     \* bound: task firings in one behaviour
    MaxRestarts   \* bound: restarts of the scheduler process

ASSUME ValidCrons \subseteq Crons
ASSUME HealthTries \in Nat \ {0}

VARIABLES
    phase,         \* scheduler process: "health" loop, "running", or "exited"
    retries,       \* `retries' of the health loop
    healthy,       \* ghost: a health check succeeded in this process life
    scheduledJobs, \* the Map: job id -> the row its task closed over
    tasks,         \* node-cron's live tasks, in registration order
    appUp,         \* the app process accepts connections
    fires,         \* every firing: [job id, trigger of the row it closed over]
    pending,       \* firings whose POST is awaiting its response
    outcome,       \* firing -> how its POST ended
    history,       \* job_histories: firing -> its job_error_message
    restarts       \* number of scheduler restarts so far

schedVars == <<phase, retries, healthy, scheduledJobs, tasks>>
msgVars == <<appUp, fires, pending, outcome, history>>
vars == <<storeVars, schedVars, msgVars, restarts>>

NoError == "none"    \* errorMessage left undefined

Fired == 1..Len(fires)

TypeOK ==
    /\ StoreTypeOK
    /\ phase \in {"health", "running", "exited"}
    /\ retries \in 0..HealthTries
    /\ healthy \in BOOLEAN
    /\ DOMAIN scheduledJobs \subseteq JobIds
    /\ \A id \in DOMAIN scheduledJobs : scheduledJobs[id] \in Row
    /\ tasks \in Seq([id : JobIds, job : Row])
    /\ appUp \in BOOLEAN
    /\ fires \in Seq([id : JobIds, trigger : Triggers])
    /\ Len(fires) <= MaxFires
    /\ pending \subseteq Fired
    /\ DOMAIN outcome \subseteq Fired
    /\ \A f \in DOMAIN outcome :
            outcome[f] \in {"delivered", "send_failed", "bad_request",
                           "transport_error"}
    /\ DOMAIN history \subseteq Fired
    /\ restarts \in 0..MaxRestarts

Init ==
    /\ StoreInit
    /\ phase = "health"
    /\ retries = HealthTries
    /\ healthy = FALSE
    /\ scheduledJobs = [id \in {} |-> NoRow]
    /\ tasks = << >>
    /\ appUp \in BOOLEAN
    /\ fires = << >>
    /\ pending = {}
    /\ outcome = [f \in {} |-> "delivered"]
    /\ history = [f \in {} |-> NoError]
    /\ restarts = 0

-----------------------------------------------------------------------------
(* Scheduling: scheduleJob and loadJobs.                                   *)

\* The rows `SELECT * FROM jobs WHERE target_contact_or_group IS NOT NULL
\* AND message IS NOT NULL AND job_status = 1 AND deleted_at IS NULL' returns.
Loadable(id) ==
    /\ Exists(id)
    /\ jobs[id].target # NULL
    /\ jobs[id].message # NULL
    /\ jobs[id].status = 1
    /\ ~jobs[id].deleted

\* Mutant of Unscheduled: the membership test keyed wrongly, never matching.
UnscheduledIgnoringMap(id) == TRUE

\* scheduledJobs.has(id) is false.
Unscheduled(id) == id \notin DOMAIN scheduledJobs

\* scheduleJob(job) registers a task when cron.validate accepts the
\* expression and no task is in the map under job.id.
Schedulable(id) == Unscheduled(id) /\ jobs[id].cron \in ValidCrons

(***************************************************************************)
(* loadJobs: one synchronous pass (better-sqlite3 blocks), so no other     *)
(* step of the scheduler interleaves with it.  Each loaded row not yet in  *)
(* the map goes through scheduleJob; the task is appended to node-cron's   *)
(* list and the map records the row the callback closed over.              *)
(***************************************************************************)
LoadJobs ==
    LET new == {id \in JobIds : Loadable(id) /\ Unscheduled(id)
                                /\ Schedulable(id)}
        order == CHOOSE s \in [1..Cardinality(new) -> new] :
                    \A i, j \in DOMAIN s : i < j => s[i] < s[j]
    IN  /\ scheduledJobs' = [id \in DOMAIN scheduledJobs \cup new |->
                              IF id \in new THEN jobs[id] ELSE scheduledJobs[id]]
        /\ tasks' = tasks \o [i \in DOMAIN order |->
                                [id |-> order[i], job |-> jobs[order[i]]]]

\* Mutant of ReloadTick: startCronJobs without the setInterval call.
ReloadTickNeverSet == FALSE

\* setInterval(loadJobs, 20000): a tick of the interval.
ReloadTick ==
    /\ phase = "running"
    /\ LoadJobs
    /\ UNCHANGED <<storeVars, phase, retries, healthy, msgVars, restarts>>

\* Mutant of HealthCheck: a failed check that does not decrement retries.
HealthCheckNoDecrement ==
    /\ phase = "health"
    /\ retries > 0
    /\ \/ /\ appUp
          /\ phase' = "running"
          /\ healthy' = TRUE
          /\ LoadJobs
          /\ UNCHANGED retries
       \/ /\ ~appUp
          /\ UNCHANGED <<phase, retries, healthy, scheduledJobs, tasks>>
    /\ UNCHANGED <<storeVars, msgVars, restarts>>

\* Mutant of HealthCheck: `while (retries >= 0)', one try too many; the
\* loop then ends at -1 and `retries === 0' no longer stops the start.
HealthCheckLoopOffByOne ==
    /\ phase = "health"
    /\ retries >= 0
    /\ \/ /\ appUp
          /\ phase' = "running"
          /\ healthy' = TRUE
          /\ LoadJobs
          /\ UNCHANGED retries
       \/ /\ ~appUp
          /\ retries' = retries - 1
          /\ IF retries - 1 < 0
             THEN phase' = "running" /\ LoadJobs
             ELSE phase' = "health" /\ UNCHANGED <<scheduledJobs, tasks>>
          /\ UNCHANGED healthy
    /\ UNCHANGED <<storeVars, msgVars, restarts>>

\* Mutant of HealthCheck: no process.exit(1) once retries reach 0.
HealthCheckNoExit ==
    /\ phase = "health"
    /\ retries > 0
    /\ \/ /\ appUp
          /\ phase' = "running"
          /\ healthy' = TRUE
          /\ LoadJobs
          /\ UNCHANGED retries
       \/ /\ ~appUp
          /\ retries' = retries - 1
          /\ IF retries - 1 = 0
             THEN phase' = "running" /\ LoadJobs
             ELSE phase' = "health" /\ UNCHANGED <<scheduledJobs, tasks>>
          /\ UNCHANGED healthy
    /\ UNCHANGED <<storeVars, msgVars, restarts>>

(***************************************************************************)
(* One iteration of the health loop of startCronJobs.  A response (the     *)
(* app's /health route always answers 200) breaks out: the interval is set *)
(* and loadJobs runs at once.  A refused connection is caught: retries is  *)
(* decremented and, after the 5 s sleep, the loop ends and                 *)
(* `retries === 0' calls process.exit(1).                                  *)
(***************************************************************************)
HealthCheck ==
    /\ phase = "health"
    /\ retries > 0
    /\ \/ /\ appUp
          /\ phase' = "running"
          /\ healthy' = TRUE
          /\ LoadJobs
          /\ UNCHANGED retries
       \/ /\ ~appUp
          /\ retries' = retries - 1
          /\ phase' = IF retries - 1 = 0 THEN "exited" ELSE "health"
          /\ UNCHANGED <<healthy, scheduledJobs, tasks>>
    /\ UNCHANGED <<storeVars, msgVars, restarts>>

-----------------------------------------------------------------------------
(* Firing: the node-cron callback, sendMessage/sendGroupMessage and        *)
(* logJobHistory.                                                          *)

\* The request a trigger sends: send_message posts to /send-message,
\* send_group_message to /send-group-message; both with body {number, message}.
DispatchMode(trigger) ==
    CASE trigger = "send_message"       -> "direct"
      [] trigger = "send_group_message" -> "group"
      [] OTHER                          -> "none"

\* logJobHistory: INSERT INTO job_histories, with errorMessage left undefined
\* by the callback; an INSERT that throws is caught and leaves no row.
logJobHistory(f, written) == IF written THEN history @@ (f :> NoError) ELSE history

(***************************************************************************)
(* The callback of a task.  sendMessage and sendGroupMessage are async and *)
(* not awaited, so the try block neither waits for the POST nor sees its   *)
(* failure: the request is left in flight, and logJobHistory runs at once  *)
(* with no error message, for an unknown trigger as well.  logJobHistory   *)
(* catches its own INSERT failure (e.g. SQLITE_BUSY from the app process), *)
(* in which case no row is written.                                        *)
(***************************************************************************)
Fire ==
    /\ phase = "running"
    /\ Len(fires) < MaxFires
    /\ \E i \in 1..Len(tasks), written \in BOOLEAN :
        LET t == tasks[i]
            f == Len(fires) + 1
        IN  /\ fires' = Append(fires, [id |-> t.id, trigger |-> t.job.trigger])
            /\ pending' = IF DispatchMode(t.job.trigger) = "none"
                          THEN pending ELSE pending \cup {f}
            /\ history' = logJobHistory(f, written)
    /\ UNCHANGED <<storeVars, schedVars, appUp, outcome, restarts>>

\* The keys of the body sendMessage and sendGroupMessage both post.
SchedulerBodyKeys == {"number", "message"}

\* The keys validateRequestBody demands on each route.
RouteRequiredKeys(mode) ==
    IF mode = "direct" THEN {"number", "message"} ELSE {"groupId", "message"}

\* validateRequestBody: 400 {errors} unless every required key is present.
BodyAccepted(mode) == RouteRequiredKeys(mode) \subseteq SchedulerBodyKeys

(***************************************************************************)
(* The app process handling a POST from the scheduler (additionalCors lets *)
(* it through on the WHATSBACK-SOURCE header).  A request the route        *)
(* validator refuses gets 400; an accepted one is sent by the WhatsApp     *)
(* client, which may throw (500, status false) or succeed (status true).   *)
(***************************************************************************)
ServerOutcomes(mode) ==
    IF BodyAccepted(mode) THEN {"delivered", "send_failed"} ELSE {"bad_request"}

(***************************************************************************)
(* The continuation of sendMessage/sendGroupMessage in the scheduler.  If  *)
(* the app answered, result.status decides the log line and nothing else.  *)
(* If fetch rejects (the app is down) the rejection of the un-awaited      *)
(* promise is unhandled: Node 15 and later terminate the process, older    *)
(* Node only warns.  Which one happens depends on the Node build, so both  *)
(* are allowed.                                                            *)
(***************************************************************************)
Respond ==
    /\ phase = "running"
    /\ \E f \in pending :
        /\ pending' = pending \ {f}
        /\ \/ /\ appUp
              /\ \E o \in ServerOutcomes(DispatchMode(fires[f].trigger)) :
                    outcome' = outcome @@ (f :> o)
              /\ UNCHANGED schedVars
           \/ /\ ~appUp
              /\ outcome' = outcome @@ (f :> "transport_error")
              /\ \/ UNCHANGED schedVars
                 \/ /\ phase' = "exited"
                    /\ UNCHANGED <<retries, healthy, scheduledJobs, tasks>>
    /\ UNCHANGED <<storeVars, appUp, fires, history, restarts>>

-----------------------------------------------------------------------------
(* The environment: the app process going down and up, and the scheduler   *)
(* process being started again after it exited (by whatever supervises it; *)
(* the repository does not say).  A new process has an empty Map, no       *)
(* node-cron tasks, and lost the responses its predecessor awaited.        *)

AppDown == appUp /\ appUp' = FALSE /\ UNCHANGED <<storeVars, schedVars,
                       fires, pending, outcome, history, restarts>>

AppUp == ~appUp /\ appUp' = TRUE /\ UNCHANGED <<storeVars, schedVars,
                       fires, pending, outcome, history, restarts>>

Restart ==
    /\ phase = "exited"
    /\ restarts < MaxRestarts
    /\ phase' = "health"
    /\ retries' = HealthTries
    /\ healthy' = FALSE
    /\ scheduledJobs' = [id \in {} |-> NoRow]
    /\ tasks' = << >>
    /\ pending' = {}
    /\ restarts' = restarts + 1
    /\ UNCHANGED <<storeVars, appUp, fires, outcome, history>>

Store == StoreNext /\ UNCHANGED <<schedVars, msgVars, restarts>>

Next ==
    \/ Store
    \/ HealthCheck
    \/ ReloadTick
    \/ Fire
    \/ Respond
    \/ AppDown
    \/ AppUp
    \/ Restart

(***************************************************************************)
(* Fairness.  The interval timer keeps ticking while the process runs; the *)
(* health loop keeps iterating; an HTTP request eventually gets a response *)
(* or an error.  Nothing is assumed of the operator, the app process, the  *)
(* cron schedules or the supervisor.                                       *)
(***************************************************************************)
Fairness ==
    /\ WF_vars(ReloadTick)
    /\ WF_vars(HealthCheck)
    /\ WF_vars(Respond)

Spec == Init /\ [][Next]_vars
FairSpec == Spec /\ Fairness

-----------------------------------------------------------------------------
(* Properties.                                                             *)

\* A row the scheduler should have a task for (spec: eligible for live
\* scheduling): loadable and with an expression cron.validate accepts.
Eligible(id) == Loadable(id) /\ jobs[id].cron \in ValidCrons

\* A job runs on at most one node-cron task at a time, and that task is the
\* one scheduledJobs holds, though loadJobs revisits every row every 20 s and
\* scheduleJob is reached from both the first load and the interval.
OneTaskPerJob ==
    /\ \A i, j \in 1..Len(tasks) : tasks[i].id = tasks[j].id => i = j
    /\ \A i \in 1..Len(tasks) :
          /\ tasks[i].id \in DOMAIN scheduledJobs
          /\ scheduledJobs[tasks[i].id] = tasks[i].job

\* The map entry of an id is never taken for a different job: once a row is
\* force-deleted, a row created later never gets its id, so the stale task
\* (the Map is never evicted) can not be mistaken for the new job's task and
\* keep the new job from being scheduled.
TimerBelongsToRow ==
    \A id \in DOMAIN scheduledJobs :
        Exists(id) => jobs[id].gen = scheduledJobs[id].gen

\* No job is scheduled by a scheduler process that never saw the app
\* healthy: after five refused health checks the process exits instead of
\* scheduling.
NoTaskWithoutHealthCheck == Len(tasks) > 0 => healthy

\* Every job that is eligible while the scheduler runs eventually gets its
\* task (from the next tick of the 20 s interval), unless it stops being
\* eligible or the scheduler stops first.
EligibleEventuallyScheduled ==
    \A id \in JobIds :
        (phase = "running" /\ Eligible(id))
            ~> (~Unscheduled(id) \/ ~Eligible(id) \/ phase # "running")

\* The health loop of startCronJobs ends: the scheduler either runs or
\* exits, whatever the app process does.
StartupTerminates == (phase = "health") ~> (phase # "health")

\* A task fires only for a job whose row still exists, is active and is not
\* soft-deleted (spec: a soft-deleted job's timer is cancelled).
FireOnlyWhileLoadable ==
    [][Len(fires') > Len(fires) => Loadable(fires'[Len(fires')].id)]_vars

\* A job_histories row without an error message is written only for a
\* firing whose message was delivered (spec: the row is written after the
\* dispatch completes, with errorMessage set on failure).
HistoryReflectsOutcome ==
    \A f \in DOMAIN history :
        history[f] = NoError => f \in DOMAIN outcome /\ outcome[f] = "delivered"

\* A firing of a job with an unknown trigger writes no job_histories row.
NoHistoryForUnknownTrigger ==
    \A f \in DOMAIN history : DispatchMode(fires[f].trigger) # "none"

\* The app never refuses a request the scheduler builds for its shape: the
\* body of a scheduled send passes the route's validateRequestBody.
RequestsWellFormed ==
    \A f \in DOMAIN outcome : outcome[f] # "bad_request"

\* A failed dispatch does not stop the scheduler (spec: failures are caught
\* locally and do not crash the scheduler).
SchedulerSurvivesDispatch ==
    [][phase = "running" => phase' = "running"]_phase

\* A job an operator creates from the dashboard, active and with a valid
\* cron expression, is eventually scheduled while the scheduler runs.
DashboardJobEventuallyScheduled ==
    \A id \in JobIds :
        LET Live == /\ id \in dashboardJobs /\ Exists(id)
                    /\ jobs[id].status = 1 /\ ~jobs[id].deleted
                    /\ jobs[id].cron \in ValidCrons
        IN  (phase = "running" /\ Live)
                ~> (~Unscheduled(id) \/ ~Live \/ phase # "running")

================================================================================
