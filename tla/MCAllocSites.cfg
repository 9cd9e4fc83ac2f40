CONSTANTS
    big = big
    small = small
    r1 = r1
    r2 = r2
    Null = Null
    Table <- MCTable
    TableLen <- MCTableLen
    Reporter <- MCReporter
    MaxSite = 2
    MaxRegistrations = 3
    MaxResolves = 2
SPECIFICATION SitesSpec
INVARIANTS
    FirstTableSafe
    QuietResolves
CHECK_DEADLOCK FALSE
