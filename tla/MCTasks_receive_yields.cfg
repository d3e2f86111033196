CONSTANTS
    MaxTasks = 4
    GenMod = 3
    MaxGen = 2
    ping = ping
    fn = fn
    Payloads = {ping}
    Sendable = {ping}
    ScriptOps = {}
    HostOps = {"run"}
    MailboxCap = 1
SPECIFICATION ReceivingSpec
PROPERTIES QueuedTaskRuns
