\* One rule with a webhook on one subject, one message, one change of the rules
\* and one maintenance window, all of them interleaved.
SPECIFICATION Spec
CONSTANTS
    Rules = {r1}
    Targets = {t1}
    Admins = {a1}
    Ticker = Ticker
    Broadcaster = Broadcaster
    Hooked = {r1}
    Watches = {w1}
    Gone = Gone
    MaxMessages = 1
    MaxEdits = 1
    MaxWindows = 1
INVARIANTS AlertsAreTheStates NothingHeldBackIsLost
PROPERTIES HeldBackIsSent TabsCatchUp
