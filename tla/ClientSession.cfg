\* Started with -u, with or without -p; the user opens a chat and types a
\* line in it while the login may be in flight; two network faults.
CONSTANTS
    Script <- MCChatScript
    CmdUser = TRUE
    CmdPasswords = {"", "good"}
    Endpoints = 2
    MaxFaults = 2
    MaxConns = 3
    MaxPushes = 1
SPECIFICATION Spec
CHECK_DEADLOCK FALSE
INVARIANT TypeOK
PROPERTY BrokenIdleNoticed HttpConnectRetried
