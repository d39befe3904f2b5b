\* A rule removed under an Observe.
SPECIFICATION Spec
CONSTANTS
    Rules = {r1}
    Targets = {t1}
    Admins = {a1}
    Ticker = Ticker
    Broadcaster = Broadcaster
    Hooked = {r1}
    Watches = {w1}
    Gone = Gone
    MaxMessages = 1
    MaxEdits = 1
    MaxWindows = 0
INVARIANT VanishedRulesHaveNoAlerts
