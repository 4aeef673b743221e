CONSTANTS
    d1 = d1
    Devices = {d1}
    MaxEvents = 3
    MaxFaults = 1
SPECIFICATION Spec
INVARIANT NoSosLost
