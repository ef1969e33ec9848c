SPECIFICATION FairSpec
CONSTANTS
    Trackers = {t1, t2}
    Configs <- MCConfigs
    MaxSessions = 2
    MaxRetry = 1
PROPERTY
    RollbackRestoresMetrics
