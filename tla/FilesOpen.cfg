CONSTANTS
    Fibers = {f1, f2}
    MaxLength = 2
    MaxFiles = 2
    MaxArchives = 1
SPECIFICATION FairSpec
INVARIANTS UsedWhileOpen OneHolder ArchivesSaved
PROPERTY RequestsEnd
CHECK_DEADLOCK FALSE
