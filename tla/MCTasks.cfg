SPECIFICATION TurnsEndSpec
CONSTANTS
    ping = ping
    fn = fn
    MaxTasks = 4
    GenMod = 3
    Payloads = {ping, fn}
    Sendable = {ping}
    ScriptOps = {"recover"}
    HostOps = {"run", "call"}
    MaxGen = 3
    MailboxCap = 1
INVARIANTS
    TypeOK
    NoLostWakeup
    SchedulerInv
    DeadlockIsReal
    LiveGenerationIsNotNull
PROPERTY
    QueuedTaskRuns
