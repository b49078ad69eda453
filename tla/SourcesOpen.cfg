CONSTANTS
    Layout <- TwoFolders
    Modules <- Required
    Root <- Start
    NoFile = NoFile
    MaxSize = 1
    MaxTouches = 1
    MaxMissed = 1
SPECIFICATION FairSpec
INVARIANTS NamesFindFiles SourcesAreWhole WalkedOnce
PROPERTY RequireReturns
CHECK_DEADLOCK FALSE
