\* Two turns over one file spelled in two ways; the second may remember the first.
SPECIFICATION FairSpec
CONSTANTS
    a = a
    dotA = dotA
    b = b
    root = root
    t = t
    Path <- MCPath
    NoPath = NoPath
    Root = root
    Shown <- MCShown
    Text = {t}
    NoText = NoText
    MaxMatches = 2
    Workspaces <- MCWorkspaces
    Turn <- MCTurn
    Suggestion <- MCSuggestion
    MaxTurns = 2
    MaxDenials = 1
    MaxChanges = 1
CHECK_DEADLOCK FALSE
INVARIANTS
    OnlyBoundTools
    EditsAreReady
    EditsArePreviewed
    PreviewPredicts
    BroadIsBounded
PROPERTIES
    TurnEnds
