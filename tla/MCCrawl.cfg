SPECIFICATION FairSpec
CONSTANTS
    Urls = {"home", "a", "b", "c", "q1", "q2", "sub", "out", "doc", "logout"}
    Malformed = "bad"
    Submitted = "home"
    Relation <- Relations0
    Unsafe = {"logout"}
    Assets = {"doc"}
    Family <- Families0
    Sitemaps = {"root", "index", "more"}
    RootSitemap = "root"
    ForeignSitemaps = {"more"}
    Websites <- Small
    RobotsRules <- Rules
    MaxUrls = 5
    MaxPages = 4
    MaxDepth = 2
    MaxLinks = 3
    MaxVariants = 1
    MaxSitemaps = 2
    MaxSitemapDepth = 1
INVARIANTS VisitsAreLawful CompletedIsExhausted MergedIntoSurvivor
PROPERTIES CrawlEnds
CHECK_DEADLOCK FALSE
