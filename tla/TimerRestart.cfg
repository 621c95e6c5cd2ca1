SPECIFICATION Spec
CONSTANTS
    Timer = {t1, t2}
    MaxTime = 3
    EarlierRestart = TRUE
INVARIANT RestartReplaces
