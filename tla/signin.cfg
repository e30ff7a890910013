SPECIFICATION Spec
CONSTANTS
    Threads = {t1, t2}
    Challenges = {c1, c2}
    Tokens = {k1, k2}
    Stamps = {s1, s2}
    None = None
    NonceLife = 0
    TokenLife = 1
    TIMESTAMP_TOLERANCE = 0
    MAX_RECENT_NONCES = 1
    Skews <- MCSkews
    MaxTime = 2
    MaxRequests = 4
SYMMETRY Symmetry
INVARIANTS TypeOK OneLoginPerChallenge StampOnce
PROPERTIES LoginAnswers SessionAnswers StampAnswers
CHECK_DEADLOCK FALSE
