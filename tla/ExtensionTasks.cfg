CONSTANTS
    Tasks = {1, 2}
    Roots = {"a"}
    Brings <- MCBrings
    Launcher = "launcher"
    PomSize <- MCPomSize
    JarSize <- MCJarSize
    MAX_DOWNLOAD_ROUNDS = 2
    MAX_ARTIFACTS_PER_INVOCATION = 2
    MAX_TOTAL_BYTES_PER_INVOCATION = 4
    LAUNCHER_BYTES = 3
    Groups = 2
    MaxRestarts = 1
    Sessions <- MCSessions
SPECIFICATION Spec
INVARIANTS TypeOK DownloadsUsable NothingUnindexed
PROPERTIES InvocationsEnd
CHECK_DEADLOCK FALSE
