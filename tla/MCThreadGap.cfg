CONSTANTS
    s1 = s1
    s2 = s2
    Sends = {s1, s3}
    Key <- RetryKey
    Own = {s1}
    CatchUps = {c1}
    Limit = 1
    Loaded = {1}
SPECIFICATION Spec
INVARIANT GapClosed
