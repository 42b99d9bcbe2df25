CONSTANTS
    QrMaxRetries <- MCQrMaxRetries
    MaxQrs <- MCMaxQrs
    Clicks <- MCClicks
SPECIFICATION FairSpec
PROPERTY ClientAlwaysRecovers
\* POST /logout leaves the client destroyed with nothing to restart it.
CHECK_DEADLOCK FALSE
