SPECIFICATION FairSpec
CONSTANTS
    s1 = s1
    s2 = s2
    u1 = u1
    u2 = u2
    none = none
    small = small
    large = large
    data = data
    backup = backup
    Scrapers <- MCScrapers
    Updaters <- MCUpdaters
    None = none
    Configs <- MCConfigs
    Mounts <- MCMounts
    MountPoints <- MCMountPoints
INVARIANTS ScrapeIsOfOneConfig OpenBreakerFailsAll
PROPERTY BothReturn
