SPECIFICATION FairSpec
CONSTANTS
    config1 = config1
    config2 = config2
    env = env
    page1 = page1
    admin1 = admin1
    admin2 = admin2
    f1 = f1
    f2 = f2
    f3 = f3
    NoConfig = NoConfig
    Nil = Nil
    Settings <- MCSettings
    BackendEnv = NoConfig
    FrontendEnv = env
    Visitors <- MCVisitors
    Admins <- MCAdmins
    Fetches <- MCFetches
    Ttl = 1
    MaxSaves = 2
INVARIANTS
    StaleOnlyByOverlap
PROPERTY SettingsTakeEffect
