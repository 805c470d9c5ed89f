SPECIFICATION FairSpec
CONSTANTS
    Calls = {c1, c2, c3}
    Clips = {"talking", "encrypting", "waiting"}
    None = None
INVARIANT TypeOK
INVARIANT LatestIsShown
INVARIANT NobodyIsForgotten
PROPERTY WorkReturns
PROPERTY SceneSettles
CHECK_DEADLOCK FALSE
