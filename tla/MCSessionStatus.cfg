CONSTANTS
    QrMaxRetries <- MCQrMaxRetries
    MaxQrs <- MCMaxQrs
    Clicks <- MCClicks
SPECIFICATION FairSpec
INVARIANT StatusTruthful
\* POST /logout leaves the client destroyed with nothing to restart it.
CHECK_DEADLOCK FALSE
