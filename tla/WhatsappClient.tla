---------------------------- MODULE WhatsappClient ----------------------------
(***************************************************************************)
(* The app process's WhatsApp side as one system: the session of           *)
(* SessionState and the message routes of MessageService share the client *)
(* of src/whatsapp-client/index.js.  authenticatedHandler, run on the      *)
(* client's "authenticated" event, starts the contact and group sync; every*)
(* send goes through the same client; and an unhandled rejection of the   *)
(* sync ends the process, session handlers and routes alike.  The          *)
(* auto-responder's listener only reads that the client is ready, and is   *)
(* checked on its own (AutoResponder).                                      *)
(***************************************************************************)
EXTENDS SessionState

CONSTANTS Numbers, Book, Groups, NoGroup, MaxSends, MaxSyncs

VARIABLES contactsTbl, groupsTbl, authPending, contactFetch, groupFetch, req, history,
          exited

M == INSTANCE MessageService

messageVars == <<contactsTbl, groupsTbl, authPending, contactFetch, groupFetch, req, history,
                 exited>>
allVars == <<vars, messageVars>>

ClientInit == Init /\ M!MsgInit

\* The session's events and handlers; the "authenticated" event also runs
\* the rest of authenticatedHandler (MessageService), the others leave the
\* message routes' state alone.
SessionStep ==
    \/ Authenticated /\ M!AuthenticatedStarts
    \/ /\ \/ QrEvent \/ AuthFailure \/ Ready
          \/ Disconnected \/ DisconnectedReinit
          \/ \E k \in Clicks : SocketStep(k)
          \/ RestLogout \/ RestLogoutReset
       /\ UNCHANGED messageVars

\* The message routes and the sync, served by the same process.
MessageRoutes == M!MsgNext /\ UNCHANGED vars

\* Once the process has exited nothing of it runs.
ClientNext ==
    /\ ~exited
    /\ SessionStep \/ MessageRoutes

\* A step of the running process by the session or by the message routes.
SessionAct(act) == ~exited /\ act /\ UNCHANGED messageVars
RouteAct(act) == ~exited /\ act /\ UNCHANGED vars

(***************************************************************************)
(* The session's fairness (SessionState's Fairness) and that of the       *)
(* message routes' awaits (MsgFairness), for as long as the process runs; *)
(* scans, clicks and requests come from users.                             *)
(***************************************************************************)
ClientFairness ==
    /\ WF_allVars(SessionAct(DisconnectedReinit)) /\ WF_allVars(SessionAct(RestLogoutReset))
    /\ \A k \in Clicks : /\ WF_allVars(SessionAct(SocketLogoutResolves(k)))
                         /\ WF_allVars(SessionAct(SocketLogoutDestroyed(k)))
                         /\ WF_allVars(SessionAct(SocketLogoutReinit(k)))
    /\ WF_allVars(SessionAct(Ready)) /\ WF_allVars(SessionAct(QrEvent))
    /\ WF_allVars(~exited /\ Authenticated /\ phase = "starting" /\ M!AuthenticatedStarts)
    /\ WF_allVars(RouteAct(M!AuthenticatedResumes)) /\ WF_allVars(RouteAct(M!ContactsSynced))
    /\ WF_allVars(RouteAct(M!GroupsSynced)) /\ WF_allVars(RouteAct(M!Typing))
    /\ WF_allVars(RouteAct(M!Send))

ClientSpec == ClientInit /\ [][ClientNext]_allVars /\ ClientFairness

-------------------------------------------------------------------------------

\* The type invariant of both components.
ClientTypeOK == TypeOK /\ M!MsgTypeOK

(***************************************************************************)
(* After the phone unlinks the device, or a click of the dashboard's       *)
(* logout gets past client.logout(), the client is eventually initialized  *)
(* again (a new QR can be shown), unless the process ended first.          *)
(***************************************************************************)
SessionRestartsAfterUnlinkOrDashboardLogout ==
    (discPc = "reinit" \/ \E k \in Clicks : sockPc[k] \in {"destroy", "sleep"})
        ~> (phase = "starting" \/ exited)

(***************************************************************************)
(* After a click's logout has ended the session, the three flags of        *)
(* state.js are eventually all clear with the client starting over, so no  *)
(* status of the old session survives it, unless the process ended first.  *)
(***************************************************************************)
DashboardLogoutClearsSession ==
    \A k \in Clicks :
        (sockPc[k] = "destroy")
            ~> ((phase = "starting" /\ ~isAuthenticated /\ ~isReady /\ lastQR = NoQR)
                \/ exited)

================================================================================
