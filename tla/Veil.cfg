SPECIFICATION Spec
CONSTANTS
    None = None
    Unknown = Unknown
    Main = "torrc"
    Paths <- MCPaths
    Outside <- MCOutside
    Files <- MCFiles
    Dirs <- MCDirs
    MaxIncludeDepth = 2
    Worlds <- MCWorlds
    Edits <- MCEdits
    Toggles <- MCToggles
    MaxChanges = 1
    MaxTimeouts = 1
INVARIANT VerdictsHadAMoment
INVARIANT ReadsTheTorrc
INVARIANT StaysInRoot
INVARIANT VeilReportsAgree
INVARIANT VeilPlansSettle
PROPERTY ReadEnds
