SPECIFICATION Spec
CONSTANTS
    ta = ta
    tb = tb
    Tenants = {ta, tb}
    NoTenant = NoTenant
    FactsCalls <- MCFactsCalls
    Contents <- MCContents
    MaxContent = 7
    MaxOverhead = 7
    MaxEntries = 6
    MaxFiles = 5
    MaxConfig = 2
    MaxReplacements = 1
    i1 = i1
    i2 = i2
    i3 = i3
    i4 = i4
    i5 = i5
    Catalogue <- MCCatalogue
    Incomplete <- MCIncomplete
    PageSize = 2
    MaxPage = 4
    MaxErrors = 2
    MaxInt = 127
    Unit = 2
    MinHeadroom = 20
    Manifests <- MCManifests
    Absent = Absent
    Threshold = 3
    Interval = 1
    MountDelay = 2
    FirstLifetimes = {3, 6}
    Lifetimes = {6, 7}
    MaxTime = 16
    ListRows = {1, 2, 3, 4}
    ListSizes = {2, 3}
    MaxInt32 = 7
    MaxRetries = 1
INVARIANT
    PagesInOrder
CHECK_DEADLOCK FALSE
