SPECIFICATION FairSpec
CONSTANTS
    MaxWrites = 0
    Domains <- MCDomains
    None = None
    MaxAges = 2
    MaxRestarts = 1
    MaxFaults = 1
    MaxReadFaults = 0
PROPERTY EvictedIsReissued
