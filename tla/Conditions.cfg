\* An attribute on each side, two values, up to two terms.
SPECIFICATION Spec
CONSTANTS
    LeftSchema = {"x"}
    RightSchema = {"y"}
    Values = {1, 2}
    MaxTerms = 2
    MaxNots = 2
INVARIANT NotNegates
CHECK_DEADLOCK FALSE
