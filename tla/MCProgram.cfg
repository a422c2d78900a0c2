SPECIFICATION Spec
CONSTANTS
    Arguments <- CommandLines
    Limits <- SmallLimits
INVARIANTS ExitTells StartsOnlyValid RequestsUnambiguous
