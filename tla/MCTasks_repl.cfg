CONSTANTS
    MaxTasks = 4
    GenMod = 3
    MaxGen = 3
    ping = ping
    fn = fn
    Payloads = {ping, fn}
    Sendable = {ping}
    ScriptOps = {"recover"}
    HostOps = {"incremental", "call"}
    MailboxCap = 1
SPECIFICATION Spec
INVARIANT ReadyIsQueued
