SPECIFICATION AddressedSpec
CONSTANTS
    MaxTasks = 3
    GenMod = 4
    MaxGen = 3
    Payloads <- AllMessages
    Sendable <- AllMessages
    ScriptOps = {"recover"}
    HostOps = {"run", "call"}
    MailboxCap = 2
INVARIANT
    DeliveredAsAddressed
PROPERTY
    ImplementsActors
