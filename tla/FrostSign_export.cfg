CONSTANTS
    Threads = {t1, t2}
    Ids = {s1, s2}
    Keys = {k1}
    Msgs = {m1, m2}
    MaxOpen = 2
    None = None
SPECIFICATION Spec
CHECK_DEADLOCK FALSE
PROPERTY NoSignatureAfterExport
