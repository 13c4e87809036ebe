CONSTANTS
    Framing = "stream"
    MaxKex = 3
    MaxApp = 3
SPECIFICATION FairSpec
INVARIANTS TypeOK Agreement NeverFails
PROPERTIES Completes ImplementsSecureStream
CHECK_DEADLOCK FALSE
