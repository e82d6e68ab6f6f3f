\* One message of the page or of another client; two sessions and one restart.
SPECIFICATION FairSpec
CONSTANTS
    Task = {t1}
    PageTask = {t1}
    ClientTask = {t1}
    Blank = {}
    Session = {s1, s2}
    NoSession = NoSession
    NoTask = NoTask
    MaxProgress = 1
    MaxAnswers = 2
    MaxRestarts = 1
    DatabaseMayFail = TRUE
CHECK_DEADLOCK FALSE
INVARIANTS
    ShownIsSaved
PROPERTIES
    TaskEnds
    PollingStops
