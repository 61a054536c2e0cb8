SPECIFICATION ReadingsSpec
CONSTANTS
    MaxCount = 1
    MaxRepos = 2
    Statuses <- FewMarks
    Entries <- MCEntries
    DetailCap = 1
    MaxEntries = 2
INVARIANTS
    BadgeCountsIssues
    CountedIsListed
    CardMatchesRow
    ListedUpToCap
