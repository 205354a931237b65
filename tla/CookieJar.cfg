CONSTANTS
    example = example
    www = www
    other = other
    com = com
    small = small
    large = large
    Hosts = {example, www, other}
    Parent <- MCParent
    Names = {small, large}
    Depths = {0, 1}
    MaxLen = 10
    HostMaxCount = 2
    HostMaxBytes = 5
    Literals = 1
    Headroom = 2
    FileRecords <- MCFile
    Offers <- MCOffers
SPECIFICATION JarSpec
INVARIANTS WithinShareKept SecureStaysFirst
