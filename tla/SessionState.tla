----------------------------- MODULE SessionState -----------------------------
(***************************************************************************)
(* The WhatsApp session of the app process: the whatsapp-web.js client     *)
(* (src/whatsapp-client/index.js), the flags of src/whatsapp-client/       *)
(* state.js that its event listeners set, the dashboard's socket `logout'  *)
(* (src/socket-options.js), and the REST routes GET /status and POST       *)
(* /logout of src/routes/api/session-routes.js that the EduVera backend    *)
(* uses.                                                                   *)
(*                                                                         *)
(* The client library is the environment: `phase' is where its browser     *)
(* session really is, and it emits qr, authenticated, ready and            *)
(* disconnected only where the library can.  A QR code is a number, the    *)
(* count of qr events so far.  Each async handler is split at its awaits;  *)
(* a *Pc variable says which await it is suspended at.                     *)
(***************************************************************************)
EXTENDS Naturals

CONSTANTS
    QrMaxRetries,   \* `qrMaxRetries' of the Client options (10 in the code)
    MaxQrs,         \* bound on the qr events of a behaviour
    Clicks          \* runs of the socket "logout" handler that may overlap:
                    \* every click emits, and nothing disables the button

NoQR == 0           \* state.lastQR === undefined
Phases == {"starting", "qr", "authenticated", "ready", "down"}
Live == {"authenticated", "ready"}

VARIABLES
    phase,           \* the library's client: initializing, showing a QR, paired, ready, destroyed
    savedSession,    \* LocalAuth holds a session the next initialize restores
    libQR,           \* the QR the client currently shows, or NoQR
    qrCount,         \* qr events so far (the id of the latest QR)
    qrTries,         \* qr events since the last initialize
    lastQR, isAuthenticated, isReady,   \* state.js
    discPc,          \* disconnectedHandler: "idle" or suspended before client.initialize()
    sockPc,          \* click -> its socket "logout" run: "idle", "logout" (awaiting
                     \* client.logout()), "destroy" (awaiting destroy), "sleep"
    restPc           \* POST /logout: "idle" or "reset" (client.logout() resolved)

libVars   == <<phase, savedSession, libQR, qrCount, qrTries>>
flagVars  == <<lastQR, isAuthenticated, isReady>>
handlerVars == <<discPc, sockPc, restPc>>
vars == <<libVars, flagVars, handlerVars>>

TypeOK ==
    /\ phase \in Phases /\ savedSession \in BOOLEAN
    /\ libQR \in 0..MaxQrs /\ qrCount \in 0..MaxQrs /\ qrTries \in 0..QrMaxRetries
    /\ lastQR \in 0..MaxQrs /\ isAuthenticated \in BOOLEAN /\ isReady \in BOOLEAN
    /\ discPc \in {"idle", "reinit"}
    /\ sockPc \in [Clicks -> {"idle", "logout", "destroy", "sleep"}]
    /\ restPc \in {"idle", "reset"}

\* state.js starts cleared; index.js calls client.initialize() at load.
\* LocalAuth may or may not hold a session from an earlier run.
Init ==
    /\ phase = "starting" /\ savedSession \in BOOLEAN
    /\ libQR = NoQR /\ qrCount = 0 /\ qrTries = 0
    /\ lastQR = NoQR /\ isAuthenticated = FALSE /\ isReady = FALSE
    /\ discPc = "idle" /\ sockPc = [k \in Clicks |-> "idle"] /\ restPc = "idle"

(***************************************************************************)
(* The "qr" event: the client shows a new QR code; qrCodeHandler stores it *)
(* in state.lastQR (and pushes it to the sockets).                        *)
(***************************************************************************)
\* Mutant of QrEvent: the client's qrMaxRetries limit not applied.
QrEventUncapped ==
    /\ phase \in {"starting", "qr"} /\ ~savedSession /\ qrCount < MaxQrs
    /\ qrCount' = qrCount + 1 /\ libQR' = qrCount + 1 /\ qrTries' = qrTries + 1
    /\ phase' = "qr" /\ lastQR' = qrCount + 1
    /\ UNCHANGED <<savedSession, isAuthenticated, isReady, handlerVars>>

QrEvent ==
    /\ phase \in {"starting", "qr"} /\ ~savedSession
    /\ qrTries < QrMaxRetries /\ qrCount < MaxQrs
    /\ qrCount' = qrCount + 1 /\ libQR' = qrCount + 1 /\ qrTries' = qrTries + 1
    /\ phase' = "qr"
    /\ lastQR' = qrCount + 1
    /\ UNCHANGED <<savedSession, isAuthenticated, isReady, handlerVars>>

(***************************************************************************)
(* The "authenticated" event, after a scan of the shown QR or from the     *)
(* session LocalAuth restored: authenticatedHandler sets isAuthenticated   *)
(* (the rest of it, after `await sleep(2000)', only reads).                *)
(***************************************************************************)
Authenticated ==
    /\ \/ phase = "qr" /\ libQR # NoQR
       \/ phase = "starting" /\ savedSession
    /\ phase' = "authenticated" /\ savedSession' = TRUE /\ libQR' = NoQR
    /\ isAuthenticated' = TRUE
    /\ UNCHANGED <<qrCount, qrTries, lastQR, isReady, handlerVars>>

\* The "auth_failure" event: the saved session is refused; the client
\* restarts (restartOnAuthFail) and authFailureHandler only logs.
AuthFailure ==
    /\ phase = "starting" /\ savedSession
    /\ savedSession' = FALSE
    /\ UNCHANGED <<phase, libQR, qrCount, qrTries, flagVars, handlerVars>>

\* The "ready" event: readyHandler sets isReady.
Ready ==
    /\ phase = "authenticated"
    /\ phase' = "ready" /\ isReady' = TRUE
    /\ UNCHANGED <<savedSession, libQR, qrCount, qrTries, lastQR, isAuthenticated,
                   handlerVars>>

(***************************************************************************)
(* The "disconnected" event: the phone unlinked the device (or the session *)
(* was taken over), or the QR was refreshed qrMaxRetries times.  The       *)
(* library drops the session; disconnectedHandler notifies the sockets and *)
(* awaits client.destroy().  It never touches state.js.                    *)
(***************************************************************************)
Disconnected ==
    /\ discPc = "idle"
    /\ \/ phase \in Live
       \/ phase = "qr" /\ qrTries = QrMaxRetries
    /\ phase' = "down" /\ savedSession' = FALSE /\ libQR' = NoQR
    /\ discPc' = "reinit"
    /\ UNCHANGED <<qrCount, qrTries, flagVars, sockPc, restPc>>

\* Mutant of DisconnectedReinit: the handler stops after destroy().
DisconnectedReinitMissing == FALSE

\* disconnectedHandler, after destroy(): `await client.initialize()'.
DisconnectedReinit ==
    /\ discPc = "reinit"
    /\ phase' = "starting" /\ qrTries' = 0 /\ discPc' = "idle"
    /\ UNCHANGED <<savedSession, libQR, qrCount, flagVars, sockPc, restPc>>

(***************************************************************************)
(* The socket "logout" handler of socket-options.js, run once per click.   *)
(* `client.logout()' evaluates AppState.logout in the page; on a destroyed *)
(* client it throws at once and the catch only logs, which is no step.     *)
(***************************************************************************)
SocketLogout(k) ==
    /\ sockPc[k] = "idle" /\ phase # "down"
    /\ sockPc' = [sockPc EXCEPT ![k] = "logout"]
    /\ UNCHANGED <<libVars, flagVars, discPc, restPc>>

(***************************************************************************)
(* `await client.logout()' settles: it ends the session.  If the page was  *)
(* closed meanwhile (an unlink's destroy, or another click's logout), the  *)
(* evaluate sent before may have completed or may reject: both outcomes    *)
(* are taken; a rejection lands in the catch.                              *)
(***************************************************************************)
SocketLogoutResolves(k) ==
    /\ sockPc[k] = "logout"
    /\ \/ /\ phase' = "down" /\ savedSession' = FALSE /\ libQR' = NoQR
          /\ sockPc' = [sockPc EXCEPT ![k] = "destroy"]
       \/ /\ phase = "down" /\ sockPc' = [sockPc EXCEPT ![k] = "idle"]
          /\ UNCHANGED <<phase, savedSession, libQR>>
    /\ UNCHANGED <<qrCount, qrTries, flagVars, discPc, restPc>>

\* Mutant of SocketLogoutDestroyed: isReady left set, as POST /logout does.
SocketLogoutDestroyedKeepsReady(k) ==
    /\ sockPc[k] = "destroy"
    /\ phase' = "down" /\ libQR' = NoQR
    /\ isAuthenticated' = FALSE /\ lastQR' = NoQR
    /\ sockPc' = [sockPc EXCEPT ![k] = "sleep"]
    /\ UNCHANGED <<savedSession, qrCount, qrTries, isReady, discPc, restPc>>

\* `await client.destroy()' closes whatever browser the client has by now,
\* then the three flags are cleared and `await sleep(3000)' begins.
SocketLogoutDestroyed(k) ==
    /\ sockPc[k] = "destroy"
    /\ phase' = "down" /\ libQR' = NoQR
    /\ isAuthenticated' = FALSE /\ isReady' = FALSE /\ lastQR' = NoQR
    /\ sockPc' = [sockPc EXCEPT ![k] = "sleep"]
    /\ UNCHANGED <<savedSession, qrCount, qrTries, discPc, restPc>>

\* After the sleep: `await client.initialize()'.
SocketLogoutReinit(k) ==
    /\ sockPc[k] = "sleep"
    /\ phase' = "starting" /\ qrTries' = 0 /\ sockPc' = [sockPc EXCEPT ![k] = "idle"]
    /\ UNCHANGED <<savedSession, libQR, qrCount, flagVars, discPc, restPc>>

\* One step of the click's handler run.
SocketStep(k) ==
    \/ SocketLogout(k) \/ SocketLogoutResolves(k)
    \/ SocketLogoutDestroyed(k) \/ SocketLogoutReinit(k)

(***************************************************************************)
(* POST /logout: guarded by state.isAuthenticated, it awaits               *)
(* client.logout(), which on a destroyed client rejects (500, nothing      *)
(* changes).  It then clears isAuthenticated and lastQR, and never         *)
(* reinitializes the client.                                               *)
(***************************************************************************)
RestLogout ==
    /\ restPc = "idle" /\ isAuthenticated /\ phase # "down"
    /\ phase' = "down" /\ savedSession' = FALSE /\ libQR' = NoQR
    /\ restPc' = "reset"
    /\ UNCHANGED <<qrCount, qrTries, flagVars, discPc, sockPc>>

RestLogoutReset ==
    /\ restPc = "reset"
    /\ isAuthenticated' = FALSE /\ lastQR' = NoQR
    /\ restPc' = "idle"
    /\ UNCHANGED <<libVars, isReady, discPc, sockPc>>

\* GET /status: what the EduVera backend is told.
Status ==
    IF isAuthenticated THEN "connected"
    ELSE IF isReady \/ lastQR # NoQR THEN "connecting"
    ELSE "disconnected"

\* The QR GET /status returns, or NoQR for `qrcode: null'.
StatusQR == IF lastQR # NoQR /\ ~isAuthenticated THEN lastQR ELSE NoQR

Next ==
    \/ QrEvent \/ Authenticated \/ AuthFailure \/ Ready
    \/ Disconnected \/ DisconnectedReinit
    \/ \E k \in Clicks : SocketStep(k)
    \/ RestLogout \/ RestLogoutReset

(***************************************************************************)
(* Every await resumes (weak fairness of each continuation), and the       *)
(* library eventually emits ready after authenticated and a first QR when  *)
(* it has no session.  Scans, logouts and unlinks are user actions.        *)
(***************************************************************************)
Fairness ==
    /\ WF_vars(DisconnectedReinit) /\ WF_vars(RestLogoutReset)
    /\ \A k \in Clicks : /\ WF_vars(SocketLogoutResolves(k))
                         /\ WF_vars(SocketLogoutDestroyed(k))
                         /\ WF_vars(SocketLogoutReinit(k))
    /\ WF_vars(Ready) /\ WF_vars(QrEvent)
    /\ WF_vars(Authenticated /\ phase = "starting")

Spec == Init /\ [][Next]_vars
FairSpec == Spec /\ Fairness

-------------------------------------------------------------------------------

(***************************************************************************)
(* GET /status reports "connected" only while the client really holds a    *)
(* paired session (the comment of the route: the EduVera backend relies   *)
(* on it in place of Evolution API's connection state).                    *)
(***************************************************************************)
StatusTruthful == Status = "connected" => phase \in Live

(***************************************************************************)
(* Whatever logs the session out, the client is eventually running again, *)
(* so that the backend can fetch a new QR through GET /status.             *)
(***************************************************************************)
ClientAlwaysRecovers == (phase = "down") ~> (phase # "down")

================================================================================
