SPECIFICATION Spec
CONSTANTS
    x = x
    y = y
    Requests = {q1, q2, q3}
    Texts = {x, y}
    Null = Null
    Overrides <- MCOverrides
    KeySet = TRUE
    Default = x
    AiMode = "rule"
SYMMETRY Symmetry
INVARIANTS
    FeedbackIsExplained
PROPERTIES
    RulesKeepTechnique
