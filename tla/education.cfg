\* The four evaluation cases; one skill the references do not know.
SPECIFICATION Spec
CONSTANTS
    Skill = {"fraction addition", "fractions mastery", "other"}
    Volunteers = {"score", "mastery_signal"}
CHECK_DEADLOCK FALSE
INVARIANTS
    InputsAreThere
    ReviewGradesTheLearner
    PassedTookItsPath
    CasesProgress
