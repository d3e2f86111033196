SPECIFICATION Spec
CONSTANTS
    ping = ping
    fn = fn
    MaxTasks = 3
    GenMod = 4
    Payloads = {ping}
    Sendable = {ping}
    ScriptOps = {}
    HostOps = {"run", "call"}
    MaxGen = 2
    MailboxCap = 1
INVARIANT CallsRunToCompletion
