\* Two messages of the page, or of another client, in one session.
SPECIFICATION Spec
CONSTANTS
    Task = {t1, t2}
    PageTask = {t1, t2}
    ClientTask = {t1}
    Blank = {t2}
    Session = {s1}
    NoSession = NoSession
    NoTask = NoTask
    MaxProgress = 0
    MaxAnswers = 1
    MaxRestarts = 0
    DatabaseMayFail = TRUE
CHECK_DEADLOCK FALSE
INVARIANTS
    EndsAreTold
    ExchangesAreWhole
    ShownIsSaved
