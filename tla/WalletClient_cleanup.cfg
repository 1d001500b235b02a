CONSTANTS
    None = None
    P = 5
    Ops = {1}
    Shifts = {1, 2}
    Secrets = {"pin", "new"}
SPECIFICATION Spec
CHECK_DEADLOCK FALSE
INVARIANT NoSessionAfterReturn
