SPECIFICATION ShellSpec
CONSTANTS
    Name = {"a"}
    cmd_len = 7
    cache_len = 2
    MAX_ARG_NR = 2
    PIPE_BUF_SIZE = 3
    cmds <- MCcmds
    Kind <- MCKind
    capacity = 2
    HashMod = 2048
    Code <- MCCode
    Dirs <- MCDirs
    Outputs = {1, 3}
INVARIANTS
    ExecutesWhatWasTyped
    PathClear
    PipeCounted
CHECK_DEADLOCK FALSE
