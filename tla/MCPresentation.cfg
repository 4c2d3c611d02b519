CONSTANTS MaxText = 5 MaxLost = 2 MaxEntries = 3 MaxRuns = 3
CONSTANTS PageSize = 2 MaxVisits = 2 Chats = 5 Concurrency = 3
CONSTANTS MaxRefusals = 2 Items = {1, 2} Lengths = 1 Extent = 3
CONSTANT Times <- MCTimes
SPECIFICATION MCSpec
INVARIANTS GroupInv WriterInv NavigationInv PinnedIsShown ListStaysWhole PoolCovers MenuInv SourcesSettle PlacedInside
PROPERTIES NeverOlder NeverAnOldPage WriterProgress NavigationSettles PopoverFollows
CHECK_DEADLOCK FALSE
