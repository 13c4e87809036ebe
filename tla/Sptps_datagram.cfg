CONSTANTS
    Framing = "datagram"
    MaxKex = 3
    MaxApp = 2
SPECIFICATION Spec
INVARIANTS NoPanic Agreement AppDelivery Confirmed
CHECK_DEADLOCK FALSE
