SPECIFICATION Spec
CONSTANTS
    Threads = {t1, t2}
    Threshold = 2
    Recovery = 2
PROPERTIES
    SerialContract
    Recovers
