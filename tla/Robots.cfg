CONSTANTS
    RobotsTxt = RobotsTxt
    NoToken = NoToken
    e1 = e1
    e2 = e2
    Entries <- MCEntries
    Paths <- MCPaths
    Isolated <- MCIsolated
    Invited <- MCInvited
    Mode = "sometimes"
    Lines <- MCLines
    LineSize = 4
    KeyAllow = 0
    KeyDisallow = 1
    MaxRules = 2
    MaxLines = 4
    MaxLinks = 5
    Alphabet <- MCAlphabet
    MaxDepth = 4
    Names <- MCNames
    Sizes <- MCSizes
    Patterns <- MCPatterns
    RuleLists <- MCRuleLists
SPECIFICATION Spec
INVARIANTS GroupsHonoured LongestWins BannedCameBefore RulesBeforePages RulesMeant
CHECK_DEADLOCK FALSE
