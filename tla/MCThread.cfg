CONSTANTS
    s1 = s1
    s2 = s2
    Sends = {s1, s2, s3}
    Key <- RetryKey
    Own = {s3}
    CatchUps = {c1}
    Limit = 1
    Loaded = {0, 1}
SPECIFICATION FairSpec
INVARIANTS AnswersAgree ThreadInv CaughtUpFromSince
PROPERTY CatchUpEnds
