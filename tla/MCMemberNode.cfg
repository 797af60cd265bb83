CONSTANTS
    a = a
    b = b
    j = j
    Voters = {a, b}
    Joiner = j
    Tls = TRUE
    MaxConfigs = 3
    MaxEvents = 1
SPECIFICATION NodeSpec
SYMMETRY VoterSymmetry
INVARIANTS LearnerWaits CachesFollowMembership LimitsHold
CONSTRAINT Bounded
ACTION_CONSTRAINT Overtaken
CHECK_DEADLOCK FALSE
