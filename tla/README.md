# TLA+ models of whatsback

This directory holds TLA+ models of `src/services/whatsback`, the WhatsApp
gateway of EduVera-BE. They cover:

- the scheduled-message path: the `jobs` table and its REST/dashboard
  writers, the separate cron process that schedules jobs, and the HTTP
  requests that process sends back to the app;
- the dashboard's cron validator and the cron-to-English translator;
- the WhatsApp session (client events, both logouts, the status route)
  composed with the message routes and the contact/group sync;
- the `!command` auto-responder;
- the dashboard's scroll lists and the contacts page's send modals.

## The system

whatsback runs as **two Node processes** that share one SQLite file
(`whatsback.db`). They open it through `better-sqlite3`, which is synchronous,
with WAL and a 7 s busy timeout.

| Part | Code | State | Operations |
|---|---|---|---|
| App server | `server.js`, `src/routes`, `src/controllers` | Express app, WhatsApp client, `state.js` flags | REST API, `/health` (always 200), socket events |
| Job Store | `src/models/job.js`, `controllers/api/job-controller.js`, `src/schemas.js` | `jobs` table (`id AUTOINCREMENT`, trigger, target, message, cron, `job_status`, `deleted_at`) | create, updateById, softDeleteById, forceDeleteById, paginate, countAll |
| Dashboard form | `public/js/schedule.js` | browser form | create (POST), edit (PUT), status toggle, delete |
| Scheduler (cron process) | `cronjob.js` | `scheduledJobs` Map id → node-cron task (never evicted); health retries | health loop, `loadJobs` at start and every 20 s, `scheduleJob`, the task callback, `sendMessage` / `sendGroupMessage`, `logJobHistory` |
| Message routes | `routes/api/message-routes.js`, `middlewares/validate-request-body.js`, `controllers/api/message-controller.js` | — | `/send-message` needs `{number,message}`; `/send-group-message` needs `{groupId,message}` |
| Cron validator / translator | `public/js/cron-validator.js`, `src/libs/cron-parser.js` | pure | validate, translate to English, next runs |
| WhatsApp session | `src/whatsapp-client/*`, `routes/api/session-routes.js`, `socket-options.js` | `lastQR`, `isAuthenticated`, `isReady` | client events, logout |
| Auto-responder | `listeners/message.js`, `models/command.js` | `commands` table | reply to `!command` |
| Dashboard lists | `public/js/contact.js`, `message.js`, `group.js`, `models/contact.js`, `models/group.js` | page, hasMore, isLoading, search term per list | load on open, scroll, search, `GET /api/contacts`, `/api/groups` |

The parts interact like this:

- The dashboard and other API clients write `jobs` in the app process.
- The scheduler reads `jobs` directly from the database. It talks to the app
  only through `GET /health` and `POST /api/messages/send-*`.
- Nothing flows from the app to the scheduler. An edit, deactivation or
  delete never reaches a task that is already running.
- Inside the app process, the whatsapp-web.js client drives the session
  listeners (`state.js`) and the auto-responder. Three things act on the
  client: the dashboard socket's logout, `POST /api/session/logout` and
  the disconnected handler. All three destroy or reinitialize it. The
  EduVera backend polls `GET /api/session/status`.

Hard behaviours in this code:

- **Interleaving.** Store writes in one process race with `loadJobs` in the
  other. The interval reload races with firings.
- **Stale state.** A task's closure holds the row as it was when the job was
  scheduled, and the map is never evicted.
- **Un-awaited dispatch.** History is written before the request resolves. A
  rejected request is an unhandled rejection, and Node ≥ 15 exits on one.
- **Timeouts and retries.** The health loop tries 5 times with 5 s sleeps. A
  non-ok response loops without counting. The `timeout:` fetch option is
  ignored.
- **Restarts.** An exited scheduler comes back with an empty map.
- **Async handlers.** The logout and disconnected handlers await the
  library between their steps, so the library's events and the other
  handler can run in between.

## Modules

- **`JobStore.tla`** models the `jobs` table.
  - A row keeps only what the scheduler tells apart: trigger, target and
    message (either a value or `NULL`), cron, status, and whether it is
    deleted. The ghost field `gen` distinguishes two rows that have carried
    the same id.
  - `seq` is SQLite's `sqlite_sequence`, and `NextId == seq + 1` is
    AUTOINCREMENT.
  - The actions are:
    - `CreateJob`: any API body.
    - `UiCreateJob`: the dashboard create. It sends the wrong keys, so
      target and message are stored `NULL`.
    - `UiEditJob`: `updateById`, which works even on soft-deleted rows.
    - `ApiUpdateJob`: `PUT /api/jobs/:id` from any client. `updateById`
      SETs every key of the body, so a one-key body can change
      `job_status`, target, message or `deleted_at` (delete or undelete).
      `UpdateColumns` says which of these a run enumerates.
    - `SoftDelete`
    - `ForceDelete`
- **`CronJob.tla`** (extends JobStore) models the scheduler process and its
  requests to the app.
  - The variables map to the code as follows:
    - `phase` is `"health"`, `"running"` or `"exited"`.
    - `retries` is `cronjob.js:214`.
    - `scheduledJobs` is the Map. It maps id to the row snapshot the closure
      holds.
    - `tasks` is the order the tasks were scheduled in.
    - `fires` lists the firings, and `pending` holds the requests not yet
      answered.
    - `outcome` records each answer.
    - `history` holds the `job_histories` rows.
    - `appUp` is whether the app is listening.
    - `restarts` is bounded by `MaxRestarts`.
  - The actions are:
    - `HealthCheck`: one iteration of the startup loop, including the exit.
    - `ReloadTick`: the `setInterval`.
    - `LoadJobs`: the query plus `scheduleJob`'s validate and `has` checks.
      It is part of both HealthCheck and ReloadTick.
    - `Fire`: the node-cron callback. It records the firing, starts the
      un-awaited request, and writes the history row, or loses it if the
      INSERT fails.
    - `Respond`: the app answers the request. With `appUp` true it returns
      `ServerOutcomes`: the route's body check, then the controller's success
      or failure. With `appUp` false the request rejects. That is either
      logged, or it kills the process.
    - `AppDown` / `AppUp`: the environment.
    - `Restart`: the process is restarted.
    - `Store`: the JobStore actions, running in the other process.
- **`MCCronJob.tla`** supplies the model values for the cfgs: cron strings
  abstracted to one valid and one invalid, and the triggers.

The store's actions are atomic, which is what better-sqlite3's single
statements are. The scheduler's actions are atomic between awaits, which is
Node's run-to-completion. Cron time is abstracted: a live task may fire at any
step.

- **`CronValidator.tla`** models `public/js/cron-validator.js`.
  - A field is the sequence of its comma-separated parts. A part is the
    shape its text matches (`*`, `*/s`, `n`, `nL`, `L`, `a-b`, `a-b/s`,
    `n#k`, or none of them), with the integers `parseInt` reads.
  - `PartValid` is one pass of the loop body of `isValidCronField`.
    `isValidCronField` and `FirstInvalidField` are the loops, written as
    RECURSIVE operators.
  - `validateCronExpression` is the field-count check followed by the
    validator table (`Validators`) for 5 or 6 fields.
  - The reference is the grammar of the design, written as the set of
    parts each field accepts (`AcceptedParts`, `SpecValidate`).
- **`CronTranslate.tla`** (extends CronValidator) models `Cron.translate`
  of `src/libs/cron-parser.js`.
  - A clause is the template it picks plus the names and ordinals it
    interpolates.
  - JavaScript semantics are kept where they matter:
    - `parseInt` gives NaN when there is no leading digit;
    - `NaN % 7` is NaN;
    - an index outside `dayNames` or `monthNames` reads `undefined`;
    - the remainder takes the dividend's sign, and `||` skips undefined
      (in `getOrdinal`).
- **`PhoneNumbers.tla`** models the conversions a phone number goes
  through. A string is a sequence of one-character strings.
  - `phoneNumberFormatter` (`src/helper.js`) keeps the digits, turns a
    leading 0 into 62 and appends `@c.us`.
  - `formatInternationalPhoneNumber` exists twice:
    - the dashboard's copy (`public/js/app.js`), shown in the contact
      picker;
    - the server's copy (`helperFormatInternationalPhoneNumber`), which
      differs only in its default case.
  - `HistoryKey` is the `replace("@c.us", "")` that `recordMessageHistory`
    looks the contact up by.
- **`CorsPolicy.tla`** models `parseOrigins` (split, trim, drop empty
  pieces, or `"*"`) and `additionalCors`. `includes` on the string `"*"`
  is a substring test. `ConfiguredOrigins` reads the variable's origins
  directly from the characters, as a reference.
- **`PagedList.tla`** models the infinite-scroll lists of three page
  scripts: the contacts and groups lists of `contact.js`, the contact
  picker of `message.js` and the group picker of `group.js`. Each
  variable is a function over the lists: the script's `page`, `hasMore`,
  `isLoading` and `searchTerm`, the items `shown` in the list element,
  and the GET requests `inflight`. A load is split at its `await fetch`:
  - `Scroll` and the search handlers (`Search`, `GlobalSearch`, both
    through `handleSearch`) run `loadContacts` up to the request. Its
    early return while loading is no step at all.
  - `Respond` renders the answer by the list's rule: `renderEmptyRule`
    (`contact.js`: an empty page ends the list) or `renderShortRule`
    (`message.js`, `group.js`: a page shorter than `perPage` ends it).
    `Fail` is the catch.
  - `paginate` is the server's `LIMIT perPage OFFSET (page-1)*perPage`
    over the rows a term matches.
  - `overlapped` records whether a list's last search came while a load
    was in flight. That is the race of the message.js hazard.

  The page templates (`src/views`) are not in the repository, so every
  list starts empty with its first request sent.
- **`SendModals.tla`** models the two send modals of the contacts page
  (`initializeModals` in `contact.js`). `OpenMessage` and `OpenGroup` are
  the delegated click on an item's button. Only an item `PagedList`
  rendered has one, so the module reads `shown`. `Submit` disables the
  form's button and sends the POST. `Answer` is the POST settling:
  - a response hides the modal;
  - a rejection leaves it up;
  - either way, `finally` enables the button again.

  `CloseModals` hides both modals. Which contact a POST names is left out,
  because the message routes' model takes any number. The module counts
  the POSTs in flight.
- **`MCCron.tla`** checks all of these pure functions. It has one input
  per state, tagged by the check it feeds. The inputs are:
  - a field at a Quartz position (every single part over the bound and
    just-past-bound numbers, and two-part lists);
  - an expression of 4 to 7 fields;
  - an integer 0..200 for `getOrdinal`;
  - an expression with one field varied, for the description;
  - a stored number, `62` and 8 to 16 subscriber digits;
  - a value of `API_CORS_ORIGIN` of up to four tokens (two origins, a
    space, a comma), with a request that comes with or without an Origin
    header, from the scheduler or not, in production or not;
  - a page script (`contact.js`, `message.js` or `group.js`). Only this
    input moves: the page's lists run through `PagedList` as one
    instance per script, with that script's lists, end rule and
    listeners. The contacts page also runs `SendModals`. Every other
    input keeps these variables empty and stutters.
- **`SessionState.tla`** models the WhatsApp session.
  - `phase`, `savedSession`, `libQR`, `qrCount` and `qrTries` are the
    whatsapp-web.js client, which is the environment.
  - `lastQR`, `isAuthenticated` and `isReady` are `state.js`.
  - Each async handler is split at its awaits by a pc variable:
    - `discPc`: the disconnected handler, before `initialize()`;
    - `sockPc[k]`: the run of the socket logout handler for click `k`
      (`Clicks`), awaiting `client.logout()`, `destroy` or the sleep.
      Every click emits `logout` and nothing locks the handler, so runs
      may overlap;
    - `restPc`: `POST /logout`, after `client.logout()`.
  - The actions are:
    - `QrEvent`, capped by `qrMaxRetries`;
    - `Authenticated`, by a scan or a restored LocalAuth session;
    - `AuthFailure`;
    - `Ready`;
    - `Disconnected` (an unlink, or the QR limit) and
      `DisconnectedReinit`;
    - `SocketLogout(k)` (the call of `client.logout()`, on a live
      client), `SocketLogoutResolves(k)` (it ends the session; if the page
      was closed meanwhile it may complete or reject into the catch),
      `SocketLogoutDestroyed(k)` (`destroy` closes whatever client there
      is now, and the flags are cleared) and `SocketLogoutReinit(k)`;
    - `RestLogout` and `RestLogoutReset`.
  - `Status` and `StatusQR` are what `GET /status` returns.
- **`AutoResponder.tla`** models the `commands` table (UNIQUE command) and
  the command API. The route's `validateRequestBody` is `BodyValid`, and
  UNIQUE is `Unique`. `MessageReceived` is the listener of `message.js`:
  - `stmt.get` returns the row, or nothing;
  - `case data.command` then throws when nothing matched, and the catch
    only logs.
- **`MessageService.tla`** models the two send routes of
  `message-controller.js` and the tables they read.
  - `contactsTbl` and `groupsTbl` are the `contacts` and `groups` tables.
    Only the sync that `authenticatedHandler` starts fills them:
    - `AuthenticatedStarts` is the handler up to `await sleep(2000)`;
    - `AuthenticatedResumes` starts `getContacts` and `getGroups`, without
      awaiting either;
    - `ContactsSynced` and `GroupsSynced` are those two calls resuming.
      They upsert (`upsertContacts`, `upsertGroups`) when the client
      answers. On a client that is not ready they may reject. Nothing
      catches that rejection: it is unhandled, and Node 15+ ends the
      process (`exited`).
    - `MaxSyncs` bounds the handler and sync runs in flight at once. A
      click's `destroy` can kill a freshly paired client and leave
      LocalAuth's session, so pairings could otherwise repeat forever.
  - `req` maps each request to its route, target and where it is. The
    steps are:
    - `SendMessageToUser` and `SendMessageToGroup`; the second does the
      by-name lookup (`findByName`) and its 404;
    - `Typing` (`typingMessage`);
    - `Send` (`await client.sendMessage`, then `recordMessageHistory`).
  - `history` holds the requests that have a `message_histories` row.
    `HistoryTarget` is the `find` in `recordMessageHistory`; when it finds
    no row, the code throws, the catch logs it, and no row is written.
  - `phase` is SessionState's and is only read here.
- **`WhatsappClient.tla`** composes the session and the message routes.
  It EXTENDS SessionState and has `M == INSTANCE MessageService`.
  - SessionState's `Authenticated` step is also `M!AuthenticatedStarts`
    (`SessionStep`).
  - The message routes run at any time (`MessageRoutes`).
  - Once a sync rejection has ended the process (`exited`), no step of
    either runs (`ClientNext`), and the fairness of every await holds only
    while the process runs (`ClientFairness`).
  - The auto-responder is not part of it. Its listener only reads that the
    client is ready, and with it the composition was eight times larger.
  - `MCWhatsappClient.tla` instantiates it. `MCSessionState.tla` and
    `MCAutoResponder.tla` instantiate each component alone, for the
    violation runs.

## Runs

| Run | Module / cfg | Expect | What it shows |
|---|---|---|---|
| scheduler_safety | `MCCronJob` / `MCCronJob.cfg` | pass | At most one task per job, however often the startup load and the 20 s tick revisit a row (`OneTaskPerJob`). A reused id never confuses a task (`TimerBelongsToRow`, which relies on AUTOINCREMENT). Nothing is scheduled without a successful health check (`NoTaskWithoutHealthCheck`). |
| scheduler_liveness | `MCCronJob` / `MCSchedulerLiveness.cfg` | pass | An eligible job is eventually scheduled (`EligibleEventuallyScheduled`). Startup ends (`StartupTerminates`). |
| deleted_job_fires | `MCDeletedJobFires.cfg` | violation | A soft-deleted or deactivated job keeps firing (`FireOnlyWhileLoadable`). |
| group_request_rejected | `MCGroupRequestRejected.cfg` | violation | Group sends get 400: the body has `number`, not `groupId` (`RequestsWellFormed`). |
| dispatch_crash | `MCDispatchCrash.cfg` | violation | A transport error while dispatching ends the scheduler (`SchedulerSurvivesDispatch`). |
| dashboard_job_never_scheduled | `MCDashboardJob.cfg` | violation | A job created in the dashboard is never scheduled (`DashboardJobEventuallyScheduled`). |
| cron_functions | `MCCron` / `MCCron.cfg` | pass | The validator accepts exactly the design's grammar, per field and per expression, and names the first bad field. `getOrdinal` is English for 0..200. Accepted expressions name every month and every numeric weekday. A stored contact's number, written as stored, as displayed or with a trunk 0, is addressed as `<number>@c.us` and found by the history lookup (`PhoneSpellingsReachContact`). `additionalCors` admits exactly the listed origins and the scheduler (`CorsAdmitsConfiguredOrigins`). Every scroll list keeps one GET in flight (`ListsOneFetchInFlight`). A list at its end shows exactly its term's rows, unless its last search overlapped a load (`ListsSettleComplete`). Each send modal of the contacts page has at most one POST in flight (`ModalsOneSendPerForm`). |
| cron_undefined_day | `MCCron` / `MCCronUndefinedDay.cfg` | violation | Day-of-week `*/1` or `L` passes the validator and is described as "undefined" (`DayNamesDefined`). |
| whatsapp_client | `MCWhatsappClient` / `MCWhatsappClient.cfg` | pass | A click of the dashboard's logout runs through `client.logout()`, `destroy`, the sleep and `initialize`, racing unlinks, the QR give-up, `POST /logout` and the contact/group sync. An unlink or a completed logout always leads back to a starting client (`SessionRestartsAfterUnlinkOrDashboardLogout`), with the three `state.js` flags cleared (`DashboardLogoutClearsSession`), unless an unhandled sync rejection ended the process first. The session and route state keep their types (`ClientTypeOK`). |
| session_status_stale | `MCSessionState` / `MCSessionStatus.cfg` | violation | After the phone unlinks, `/status` still says "connected" (`StatusTruthful`). |
| session_rest_logout_stuck | `MCSessionState` / `MCSessionRecovery.cfg` | violation | After `POST /logout` the client is never started again (`ClientAlwaysRecovers`). |
| command_not_answered | `MCAutoResponder` / `MCCommandNotAnswered.cfg` | violation | A `!` message with no stored row, `!whois` and `!whoami` included, gets no reply (`EveryCommandAnswered`). |

Each violation is a finding in `PROJECT.json`. Every property of a passing
run has a mutant there: a plausible bug in the mapped code that the
property catches. Examples:

- the health loop off by one;
- a dropped `has()` check;
- rowid reuse;
- an inclusive/exclusive step bound;
- the 5-field form checked against the 6-field table;
- `% 100` or `% 7` dropped;
- `monthNames` indexed without `- 1`;
- the QR limit ignored;
- the disconnected handler not reinitializing;
- the socket logout keeping `isReady`;
- the trunk 0 kept by `phoneNumberFormatter`;
- the origins not trimmed.

`CronJob` also states `HistoryReflectsOutcome` (history is written before
the request's outcome) and `NoHistoryForUnknownTrigger`. Both are violated
by the code, but no run checks them today. The project keeps its runs for
the questions listed above.

Two more disagreements were met while modelling the session, and no run
checks them either:

- **Two handlers initialize the same client.** Take an authenticated
  client, or one at the QR limit. A click on the dashboard's logout
  starts `await client.logout()`. The phone unlinks, or the QR gives up,
  so the disconnected handler starts and is on its way to `initialize()`.
  The pending logout then completes, and the click's handler goes on to
  `destroy` and `initialize()` as well. TLC finds this in five steps with
  one click, and with two clicks without any unlink. Both runs rely on a
  logout evaluate completing after the page closed, which is the
  library's race and is taken both ways.
- **A sync rejection ends the process.** A rejection of
  `client.getContacts()` or `client.getChats()` on a client that is
  restarting or destroyed within the 2 s window ends the app process.
  Pending sends are then never answered, and nothing restarts the client.

### Bounds

- **scheduler_safety** uses `MaxJobs = 2`. With two ids, a force delete
  followed by another insert, two rows racing one reload, and a duplicate
  `loadJobs` all happen. Other values:
  - one target and one message, a valid and an invalid cron, and both UI
    triggers;
  - `HealthTries = 5`, the code's value, and `MaxRestarts = 1`;
  - `MaxFires = 0`, because firings do not touch these properties;
  - `UpdateColumns = {status, deleted}`. Deactivate, reactivate, delete
    and undelete are all reachable. Setting target or message to NULL
    through an update only repeats what `UiCreateJob` already reaches, at
    five times the states.
- **scheduler_liveness** uses `MaxJobs = 1` and `MaxFires = 2`, so a
  success, a 400 and a crash can follow one another. `UpdateColumns` is the
  same as in the safety run.
- **The scheduler violation runs** use `MaxJobs = 1`, `MaxFires = 1` and all
  four update columns.
- **cron_functions** uses these inputs:
  - numbers: every bound of the validator tables and the integer just past
    it, 0..7 for weekdays, and 5/6 for `#k`;
  - every single part at every position;
  - two-part lists of a dozen parts;
  - every 4- to 7-field mix of `*`, `32` and `L`.

  The description inputs vary one field of `* * * * *` (and add a seconds
  field) over the numbers 0–2, 5–8, 12 and 13.
- **The phone and CORS inputs of cron_functions**:
  - The subscriber lengths 8..16 cover every case of the display switch
    (10..15) and the default case on both sides.
  - The CORS values of up to four tokens place spaces and empty entries
    before, between and after two origins.
- **The page inputs of cron_functions** use `perPage = 2` (10 in the
  code). The tables hold three contacts and two groups, and three groups
  for the group picker. The terms are `""`, `"a"` (a full page of
  contacts, one group) and `"b"` (nothing). So a list can end on a short
  page, on an exact multiple of `perPage`, or with nothing found, and a
  failed load can be retried. With the contacts page's modals they add about 56,000 states.
- **whatsapp_client** composes two components, so its bounds are small:
  - `QrMaxRetries = 1` stands for the code's 10. The limit and its
    disconnect happen the same way.
  - `MaxQrs = 2`, so a session can pair, be unlinked and pair again.
  - One click of the dashboard's logout at a time (`Clicks = {k1}`). It
    still races the unlink, the QR give-up, `POST /logout` and the sync.
    Two overlapping clicks reach the double initialize above and nothing
    more.
  - `MaxSyncs = 2`: two `authenticatedHandler` runs can overlap with each
    other's syncs.
  - One number, which is in the phone's contacts, and one group `g1`,
    plus a group name no group has.
  - `MaxSends = 1`: one send request, direct or to a group by id or by
    name. It can start before, during or after a sync, and before, during
    or after a logout.
  - It takes under a minute and reaches about 274,000 states.
- **The session and auto-responder violation runs** keep the larger
  bounds of their components alone (`QrMaxRetries = 2`, `MaxQrs = 4`,
  one click, three command ids over `!promo`, `!whois` and `!whoami`).

### Fairness

- Scheduler:
  - `WF(ReloadTick)`: the `setInterval` keeps firing while the process
    lives.
  - `WF(HealthCheck)`: the loop keeps iterating.
  - `WF(Respond)`: every request is eventually answered or rejected. This
    is an assumption. The ignored `timeout:` option means a hung connection
    is never timed out, and `PROJECT.json` lists this as a hazard.
- Session:
  - Every suspended await resumes: `DisconnectedReinit`, each click's
    `SocketLogoutResolves`, `SocketLogoutDestroyed` and
    `SocketLogoutReinit`, and `RestLogoutReset`. In the composition this
    holds only while the process runs.
  - The library eventually emits `ready` after `authenticated`.
  - It shows a first QR code, or restores a saved session, after
    `initialize()`.
- Message routes: the sleep, the two sync calls, the typing step and
  `sendMessage` all resume (`MsgFairness`). Each is an await on a timer or
  on a call into the page, which resolves or rejects.
- No fairness is assumed for user actions (store writes, scans, logouts,
  unlinks, messages), for firings, or for the environment.
- The session runs set `CHECK_DEADLOCK FALSE`. After `POST /logout` the
  client really is destroyed with nothing to restart it.

## Not modelled, and why

- **`paginate` / `countAll` / `findByStatus`** are read-only. The
  unparenthesised `OR` in `paginate`'s search is listed as a hazard with no
  run.
- **The cron next-runs preview** (`getNextRuns`) delegates to the
  cron-parser library.
- **The contact and group listing routes** (`GET /api/contacts`,
  `/api/groups`): only `paginate` is modelled, as the server side of
  `PagedList`. The count and the response wording are left out, and the
  table is fixed while a page is open. A sync that inserts rows between
  two pages would shift the offsets.
  `insertOrReplaceMany` is never called. `removeDuplicateContacts` in `helper.js` is
  never called. It would also return nothing, because it tests
  `uniqueContactsMap.id` instead of `contact.id`.
- **Server wiring, logging, the formatting helpers, the front-end pages
  other than their lists and the contacts page's modals (themes, toasts,
  the editor, the dashboard page), and the tooling** (`release.js`, lint rules, docs scripts, the legacy
  `App.tsx`) have no state a property turns on.
- **`API_CORS_ORIGIN` unset.** `additionalCors` then refuses every
  browser request, while `apiCors` allows any origin.
  `CorsAdmitsConfiguredOrigins` states only the configured case. The
  unset case is a hazard, because the two comments disagree on what it
  should do.
- **`calculateTypingDuration`** is a random delay clamped to 0.8–12 s.
  `Typing` is one await whatever the delay.
- **A rejection of `destroy()` or `initialize()`** in the disconnected
  handler is caught and only logged (`disconnected.js:27-28`). The model
  assumes both resolve, so the liveness properties do not cover that
  catch.
- **The app process ending on an unhandled rejection** is modelled for
  the sync only (`exited`). The scheduler's un-awaited requests are
  modelled in `CronJob`.
- **The search race of the lists.** `ListsSettleComplete` leaves out a
  list whose last search came while a load was in flight. Without that
  exception the property fails, so it is a hazard. The group picker never
  loads past its first page. Both would need violation runs, and all
  twelve runs are in use.
- **The send forms of `message.js` and `group.js`** (the selected
  number, the editor's text, one POST) add nothing the message routes'
  model does not already check. The contacts page's modal shows
  "Message sent!" even after a failed POST. `SendModals` does not model
  the toasts.
- **The command page and the schedule table** (`command.js`,
  `schedule.js`) are DOM code. Their defects (Add sends nothing; the first
  scroll repeats page 1) are listed as hazards.
- **The dashboard's socket view** (`app.js`) is not modelled. It registers
  `ready` only when the page loaded already authenticated, and it listens
  for an `auth_failure` event the server never emits. Modelling it is the
  next candidate for composition with SessionState.
