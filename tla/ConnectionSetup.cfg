SPECIFICATION Spec
CONSTANTS
    Caller = {"crawl", "ftp"}
    Addrs = {2}
    MaxJobs = 2
    Timeouts = {0, 1, 3}
    Cap = 2
    MaxAdds = 2
    MaxFtp = 1
INVARIANTS
    JobCounted
    EveryAddressTried
PROPERTIES
    AnswersOnly
    ConnectEnds
