SPECIFICATION Spec
CONSTANTS
    Names = {ann, bob}
    Uids = {u1, u2, u3}
    Invites = {v1}
    Challenges = {c1, c2, c3}
    Threads = {t1, t2}
    MaxOperator = 2
    Nobody = Nobody
INVARIANT NeverLockedOut
INVARIANT SpentMeansEnrolled
INVARIANT ClaimedOncePerGrant
INVARIANT OneAccountPerName
INVARIANT SessionMeansPasskey
INVARIANT ChallengeEnrolsOnce
SYMMETRY Interchangeable
CHECK_DEADLOCK FALSE
