SPECIFICATION Spec
CONSTANTS
    Programs <- AllPrograms
    PROCS = 7
    TASKS = 5
    PIPE_CAP = 2
INVARIANTS OutputAsPromised ChildrenWaitedFor OneDaemon NoDataRace NoUseAfterFree TerminalRestored
PROPERTIES EveryoneEnds
