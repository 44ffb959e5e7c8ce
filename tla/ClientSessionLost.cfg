\* Started with -u/-p; a chat line typed while the login may be in flight;
\* one network fault.
CONSTANTS
    Script <- MCChatScript
    CmdUser = TRUE
    CmdPasswords = {"good"}
    Endpoints = 1
    MaxFaults = 1
    MaxConns = 3
    MaxPushes = 1
SPECIFICATION Spec
CHECK_DEADLOCK FALSE
PROPERTY SessionHeld
