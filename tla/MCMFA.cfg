SPECIFICATION Spec
CONSTANTS
    Requests = {r1, r2}
    r1 = r1
    r2 = r2
    MaxFailed = 2
    MaxChallenges = 1
    MaxPw = 2
    MaxLost = 1
    MaxKeys = 2
SYMMETRY Symmetry
INVARIANTS
    ChallengeSpentOnce
    GuessBound
    SecondFactorRequired
    TOTPOpenable
