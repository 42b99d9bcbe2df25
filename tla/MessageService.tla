---------------------------- MODULE MessageService ----------------------------
(***************************************************************************)
(* The app process's message routes and the tables they read:              *)
(*   - POST /api/message/send-message and /send-group-message              *)
(*     (src/controllers/api/message-controller.js), each split at its      *)
(*     awaits: the typing simulation, then client.sendMessage, then the    *)
(*     synchronous recordMessageHistory (src/models/message_history.js);   *)
(*   - the `contacts' and `groups' tables (src/models/contact.js, group.js)*)
(*     filled only by the contact and group sync that authenticatedHandler *)
(*     starts, without awaiting, after its 2 s sleep                       *)
(*     (src/whatsapp-client/get-contacts.js, get-groups.js).               *)
(*                                                                         *)
(* `phase' is the client's phase of SessionState; this module only reads   *)
(* it.  A number or a group is a model value; phoneNumberFormatter and the *)
(* `@c.us' suffix are taken as the identity on them (the table stores the  *)
(* digits the formatter produces for the numbers a caller uses).           *)
(***************************************************************************)
EXTENDS Naturals, FiniteSets

CONSTANTS
    Numbers,     \* numbers a caller may send to
    Book,        \* the phone's contacts that pass the filter of getContacts
    Groups,      \* the group chats of the phone (their ids and names)
    NoGroup,     \* a group name no group of the phone has
    MaxSends,    \* requests 1..MaxSends in one behaviour
    MaxSyncs     \* bound: authenticatedHandler and sync runs in flight at once

ASSUME Book \subseteq Numbers

VARIABLES
    phase,        \* SessionState's client phase (read only)
    contactsTbl,  \* numbers in `contacts'
    groupsTbl,    \* group ids in `groups'
    authPending,  \* authenticatedHandler runs suspended at sleep(2000)/userInfo
    contactFetch, \* getContacts runs awaiting client.getContacts()
    groupFetch,   \* getGroups runs awaiting client.getChats()
    req,          \* request id -> its route, target and where it is
    history,      \* request ids with a message_histories row
    exited        \* the process ended on an unhandled rejection

msgVars == <<contactsTbl, groupsTbl, authPending, contactFetch, groupFetch,
             req, history, exited>>

Reqs == 1..MaxSends

\* A group target: a `groupId' ending in @g.us, or a name to look up.
GroupTargets == [by : {"id"}, g : Groups] \cup [by : {"name"}, g : Groups \cup {NoGroup}]

Statuses == {"idle", "typing", "sending", "sent", "failed", "notFound"}
Answered == {"sent", "failed", "notFound"}
NoTarget == "none"

MsgTypeOK ==
    /\ contactsTbl \subseteq Book /\ groupsTbl \subseteq Groups
    /\ authPending \in Nat /\ contactFetch \in Nat /\ groupFetch \in Nat
    /\ req \in [Reqs -> [status : Statuses, mode : {"direct", "group", NoTarget},
                         target : Numbers \cup Groups \cup {NoTarget}]]
    /\ history \subseteq Reqs /\ exited \in BOOLEAN

\* A fresh data file: the tables are empty until the first sync (they persist
\* across runs of the app, and a sync only ever adds to them).
MsgInit ==
    /\ contactsTbl = {} /\ groupsTbl = {}
    /\ authPending = 0 /\ contactFetch = 0 /\ groupFetch = 0
    /\ req = [r \in Reqs |-> [status |-> "idle", mode |-> NoTarget, target |-> NoTarget]]
    /\ history = {} /\ exited = FALSE

-----------------------------------------------------------------------------
(* Contact and group sync.                                                 *)

\* The handler runs under way: those at the sleep, plus the syncs they
\* started that have not settled.
SyncsInFlight == authPending + IF contactFetch > groupFetch THEN contactFetch ELSE groupFetch

\* authenticatedHandler sets state.isAuthenticated (SessionState) and
\* suspends at `await sleep(2000)'.
AuthenticatedStarts ==
    /\ SyncsInFlight < MaxSyncs
    /\ authPending' = authPending + 1
    /\ UNCHANGED <<contactsTbl, groupsTbl, contactFetch, groupFetch, req, history, exited>>

\* After the sleep and `await userInfo(client)' (which catches its own
\* errors): getContacts(client) and getGroups(client) start, not awaited.
AuthenticatedResumes ==
    /\ authPending > 0
    /\ authPending' = authPending - 1
    /\ contactFetch' = contactFetch + 1 /\ groupFetch' = groupFetch + 1
    /\ UNCHANGED <<contactsTbl, groupsTbl, req, history, exited>>

\* window.WWebJS, which getContacts and getChats evaluate in the page, is
\* there once the client is ready and may be already after authenticated;
\* on a client that is starting, showing a QR or destroyed the call rejects.
ClientAnswers == phase \in {"authenticated", "ready"}
ClientMayReject == phase # "ready"

(***************************************************************************)
(* getContacts: the contacts that pass the filter (c.us, a WhatsApp user,  *)
(* not me, not a group, not blocked) go through upsertMany, which only     *)
(* inserts or renames, never deletes.  A rejection of client.getContacts() *)
(* is caught nowhere: authenticatedHandler does not await getContacts, the *)
(* promise rejects unhandled and Node (15 and later, with no              *)
(* unhandledRejection listener in the app) ends the process.               *)
(***************************************************************************)
\* contact.upsertMany: INSERT .. ON CONFLICT(number) DO UPDATE SET name, in
\* one transaction; an empty list returns before it.
upsertContacts(list) == contactsTbl \cup list

\* group.upsertMany: INSERT .. ON CONFLICT(groupId) DO UPDATE, one transaction.
upsertGroups(list) == groupsTbl \cup list

ContactsSynced ==
    /\ contactFetch > 0
    /\ contactFetch' = contactFetch - 1
    /\ \/ ClientAnswers /\ contactsTbl' = upsertContacts(Book) /\ UNCHANGED exited
       \/ ClientMayReject /\ exited' = TRUE /\ UNCHANGED contactsTbl
    /\ UNCHANGED <<groupsTbl, authPending, groupFetch, req, history>>

\* getGroups: the chats with isGroup go through the groups' upsertMany; a
\* rejection of client.getChats() ends the process the same way.
GroupsSynced ==
    /\ groupFetch > 0
    /\ groupFetch' = groupFetch - 1
    /\ \/ ClientAnswers /\ groupsTbl' = upsertGroups(Groups) /\ UNCHANGED exited
       \/ ClientMayReject /\ exited' = TRUE /\ UNCHANGED groupsTbl
    /\ UNCHANGED <<contactsTbl, authPending, contactFetch, req, history>>

-----------------------------------------------------------------------------
(* The two send routes.                                                    *)

SetReq(r, st) == req' = [req EXCEPT ![r].status = st]

\* POST /send-message with a valid body: phoneNumberFormatter, then
\* `await typingMessage(...)'.
SendMessageToUser ==
    \E r \in Reqs, n \in Numbers :
        /\ req[r].status = "idle"
        /\ req' = [req EXCEPT ![r] = [status |-> "typing", mode |-> "direct", target |-> n]]
        /\ UNCHANGED <<contactsTbl, groupsTbl, authPending, contactFetch, groupFetch, history, exited>>

(***************************************************************************)
(* POST /send-group-message with a valid body: a groupId that does not end *)
(* with @g.us is a name, looked up with group.findByName in the `groups'   *)
(* table; no row is a 404.  Otherwise the id goes to typingMessage.        *)
(***************************************************************************)
\* group.findByName: the row whose groupName is the name, if any.
findByName(g) == g \in groupsTbl

SendMessageToGroup ==
    \E r \in Reqs, t \in GroupTargets :
        /\ req[r].status = "idle"
        /\ IF t.by = "name" /\ ~findByName(t.g)
           THEN req' = [req EXCEPT ![r] = [status |-> "notFound", mode |-> "group", target |-> NoTarget]]
           ELSE req' = [req EXCEPT ![r] = [status |-> "typing", mode |-> "group", target |-> t.g]]
        /\ UNCHANGED <<contactsTbl, groupsTbl, authPending, contactFetch, groupFetch, history, exited>>

(***************************************************************************)
(* typingMessage: getChatById, sendStateTyping, the typing delay and       *)
(* clearState, each awaited.  Any of the client calls rejects on a client  *)
(* that is not ready, and the catch of the route answers 500.              *)
(***************************************************************************)
Typing ==
    \E r \in Reqs :
        /\ req[r].status = "typing"
        /\ \/ phase = "ready" /\ SetReq(r, "sending")
           \/ SetReq(r, "failed")
        /\ UNCHANGED <<contactsTbl, groupsTbl, authPending, contactFetch, groupFetch, history, exited>>

\* recordMessageHistory: the row names the contact or group as stored; a
\* target with no row makes `dataContact.name' (or `dataGroup.groupName')
\* throw, which its own catch only logs, so no row is written.
contactFind(n) == n \in contactsTbl   \* contact.find: SELECT .. WHERE number = ?
groupFind(g) == g \in groupsTbl       \* group.find: SELECT .. WHERE groupId = ?

HistoryTarget(r) ==
    IF req[r].mode = "direct" THEN contactFind(req[r].target)
    ELSE groupFind(req[r].target)

\* `await client.sendMessage(...)', then recordMessageHistory and 200; a
\* rejection (the client is no longer ready) is a 500 and no row.
Send ==
    \E r \in Reqs :
        /\ req[r].status = "sending"
        /\ \/ /\ phase = "ready" /\ SetReq(r, "sent")
              /\ history' = IF HistoryTarget(r) THEN history \cup {r} ELSE history
           \/ SetReq(r, "failed") /\ UNCHANGED history
        /\ UNCHANGED <<contactsTbl, groupsTbl, authPending, contactFetch, groupFetch, exited>>

\* Every step of this module; SessionState's Authenticated is composed with
\* AuthenticatedStarts by the module that shares `phase'.
MsgNext ==
    \/ AuthenticatedResumes \/ ContactsSynced \/ GroupsSynced
    \/ SendMessageToUser \/ SendMessageToGroup \/ Typing \/ Send

\* Every await resumes: the sleep, the client calls and the requests.
MsgFairness ==
    /\ WF_msgVars(AuthenticatedResumes) /\ WF_msgVars(ContactsSynced)
    /\ WF_msgVars(GroupsSynced) /\ WF_msgVars(Typing) /\ WF_msgVars(Send)

================================================================================
