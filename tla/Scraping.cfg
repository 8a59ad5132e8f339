SPECIFICATION FairSpec
CONSTANTS
    Words <- MCWords
    Pages <- MCPages
    Sites <- MCSites
    Requests <- MCRequests
    NameLists <- MCNameLists
    None = None
    MaxFaults = 1
INVARIANTS
    TypeOK
    WordsKept
    TableKept
    PageClosed
PROPERTIES
    ScrapeEnds
