CONSTANTS
    QrMaxRetries <- MCQrMaxRetries
    MaxQrs <- MCMaxQrs
    Clicks <- MCClicks
    Numbers <- MCNumbers
    Book <- MCBook
    Groups = {g1}
    NoGroup = noGroup
    MaxSends = 1
    MaxSyncs = 2
SPECIFICATION ClientSpec
INVARIANT ClientTypeOK
PROPERTY SessionRestartsAfterUnlinkOrDashboardLogout
PROPERTY DashboardLogoutClearsSession
\* POST /logout leaves the client destroyed with nothing to restart it.
CHECK_DEADLOCK FALSE
