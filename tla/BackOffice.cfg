SPECIFICATION Spec
CONSTANTS
    Editors = {"other", "third", "new"}
    Edits <- SmallEdits
    ListItems <- SmallItems
    ListSeeding = TRUE
    RateProcesses = {p1, p2}
    RateWriters = {w1, w2, w3}
    RetryAfter = 1
    DayLength = 2
    StaleAfter = 3
    Slack = 1
    RateHorizon = 5
    Leads = {l1}
    Statuses = {"NEW", "IN_PROGRESS", "SPAM"}
    StatusEdits = {c1, c2, c3}
    NoteEdits = {n1}
    LeadHorizon = 2
    Attempts = {a1, a2, a3, a4}
    MaxAttempts = 2
    Lockout = 3
    Users = {u1, u2, u3}
    Sessions = {s1}
    AbsoluteTTL = 5
    InactivityTTL = 3
    Throttle = 1
    Delay = 1
    AccountHorizon = 6
SYMMETRY BackOfficeSymmetry
CHECK_DEADLOCK FALSE
INVARIANT ItemsPriced
INVARIANT RatesSound
INVARIANT HistoryChains
INVARIANT AccessSound
PROPERTY ReorderKept
