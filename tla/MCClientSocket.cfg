\* One tab, its worker and the server, with one socket that drops, a tab that
\* changes its mind twice and a session that ends.
SPECIFICATION FairSpec
CONSTANTS
    MaxSockets = 1
    MaxTabOps = 2
    MaxSessions = 1
    MaxLag = 1
INVARIANT ServerServesTheTab
PROPERTY ServedOrAsked
\* When the bounds are spent nothing has to happen.
CHECK_DEADLOCK FALSE
