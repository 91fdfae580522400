CONSTANTS
    Threads = {main, worker, helper1, helper2}
    Main = main
    Worker = worker
    UserThreads = {main}
    Sems = {s1}
    Devices = {s1}
    Pollers = {s1}
    Timer = timer
    NoThread = noThread
    NoSem = noSem
    MaxValue = 1
SPECIFICATION FairSpec
INVARIANTS TypeOK ListsMatchStatus NoLostWakeup DestroyedByNextThread InterruptDiscipline ModeFollowsCode
PROPERTIES ImplementsSemaphore ReadyRuns ImplementsLiveSemaphore
