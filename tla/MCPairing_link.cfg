\* One camera, two initiations, two "Unknown camera" answers to forget a server;
\* one lost message, one power loss or failed file operation, one restart of
\* the server and four things people do, in any order.  A running camera that
\* has lost its credentials waits for a user: the system may stop.
\* TrustOnlyByExchange, a temporal formula, and PinIsOneTime, an invariant, are
\* violated with these constants (the findings in README.md).
SPECIFICATION LiveSpec
CONSTANTS
    MaxPins = 2
    MaxRestarts = 1
    MaxHandlers = 2
    MaxAttempts = 2
    Threshold = 2
    MaxLost = 1
    MaxMishaps = 1
    MaxPeople = 4
CHECK_DEADLOCK FALSE
INVARIANTS
    LinkTypeOK
    OneSecretPerPin
PROPERTIES
    NoticesUnpair
    LinkHeals
